SPECIFICATION FairSpec
CONSTANT Code = {180, 200, 302, 486}
INVARIANTS TypeOK ListedWhileLive WatchdogRuns
PROPERTIES Transacts OneOutcome  EventuallyReleased
CHECK_DEADLOCK FALSE
