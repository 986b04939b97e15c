SPECIFICATION Spec
CONSTANTS
  Call = {c1, c2}
  RecvOnly = {c2}
  SendOnly = {}
  NoCall = NoCall
  MaxTimeout = 1

PROPERTY HaltStops
