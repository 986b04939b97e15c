SPECIFICATION FairSpec
CONSTANT Code = {180, 200, 486}
INVARIANTS TypeOK ListedWhileLive WatchdogRuns
PROPERTIES Transacts  EventuallyReleased
CHECK_DEADLOCK FALSE
