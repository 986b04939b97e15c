SPECIFICATION Spec
CONSTANTS
  Transaction = {x1, x2}
  Expires = {10}
  MaxCalls = 1
INVARIANT RegisteredIsRenewed
CHECK_DEADLOCK FALSE
