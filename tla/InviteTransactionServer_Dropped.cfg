SPECIFICATION Spec
CONSTANT Code = {180, 200, 486}
INVARIANT DroppedIsForgotten
CHECK_DEADLOCK FALSE
