CONSTANTS
  Clients = {c1, c2}
  FileBlocks = 2
  a = a
  b = b
  long = long
  Names = {a, b, long}
  LongNames = {long}
  Volumes <- MCVolumes
  Requests <- MCRequests
  MaxRequests = 2
  NoClient = NoClient
  NULL = NULL
SPECIFICATION Spec
INVARIANTS
  TypeOK
  DirectoryStays
  FillIsFree
  HeldIsNamed
  OnlyKnownUndefined
CHECK_DEADLOCK FALSE
