CONSTANTS
  c1 = c1
  c2 = c2
  p1 = p1
  p2 = p2
  Clients = {c1, c2}
  Pids = {p1, p2}
  Frames = 4
  Admin = 1
  CacheEntries = 2
  CacheXProcs = {1, 2, 3, 4}
  MaxPages = 2
  MaxRequests <- MCMaxRequests
  None = None
SPECIFICATION Spec
SYMMETRY MCSymmetry
INVARIANTS
  TypeOK
  
  
  StuckForACause
CHECK_DEADLOCK FALSE
