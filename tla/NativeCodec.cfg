SPECIFICATION Spec
CONSTANTS
  Thread = {s1, r1, s2, r2, u}
  Keeper = {u}
INVARIANTS TypeOK CodecHeld LastFrees
CHECK_DEADLOCK FALSE
