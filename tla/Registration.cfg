SPECIFICATION FairSpec
CONSTANTS
  Transaction = {x1, x2, x3, x4}
  Expires = {600}
  MaxCalls = 3
INVARIANTS TypeOK InProgressIsBacked  RegisteredIsRenewed
PROPERTY EventuallySettled
CHECK_DEADLOCK FALSE
