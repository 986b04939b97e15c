SPECIFICATION Spec
CONSTANTS
  Handle = {h1, h2}
  Closer = {owner, finalizer}
  Timeout = {0, 3}
  Half = 4
  Poll = 1
  Margin = 2
  Slack = 1
  Jumps = {2}
  MaxInbox = 1
  None = None
INVARIANTS TypeOK DescriptorIsOwn OneStaleCall 
PROPERTIES ClosesOwnOnly ClosedEnds
