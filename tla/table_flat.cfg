CONSTANTS
  Clients = {c1, c2}
  FileBlocks = 2
  a = a
  b = b
  long = long
  Names = {a, b, long}
  LongNames = {long}
  Volumes <- MCFlatVolumes
  Requests <- MCFlatRequests
  MaxRequests = 2
  NoClient = NoClient
  NULL = NULL
SPECIFICATION FairSpec
PROPERTY
  EveryRequestIsAnswered
CHECK_DEADLOCK FALSE
