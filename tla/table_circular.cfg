CONSTANTS
  Clients = {c1, c2}
  FileBlocks = 4
  a = a
  b = b
  long = long
  Names = {a, b, long}
  LongNames = {long}
  Volumes <- MCTwoDirs
  Requests <- MCTwoFiles
  MaxRequests = 1
  NoClient = NoClient
  NULL = NULL
SPECIFICATION Spec
INVARIANT
  NoCircularWait
CHECK_DEADLOCK FALSE
