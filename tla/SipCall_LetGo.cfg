SPECIFICATION Spec
CONSTANT MaxReInvite = 0
INVARIANT LetGoIsDown
CHECK_DEADLOCK FALSE
