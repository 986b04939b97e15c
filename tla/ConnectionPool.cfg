SPECIFICATION Spec
CONSTANTS
  Conn = {c1, c2, c3}
  Addr = {a, b}
  NoAddr = NoAddr
  Thread = {server, s1}
  Server = server
  NMax = 1
  None = None
SYMMETRY Symmetry
INVARIANTS TypeOK ListedIsUsable
 
