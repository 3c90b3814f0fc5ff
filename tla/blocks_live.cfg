CONSTANTS
  Clients = {c1, c2}
  Files = {f1, f2}
  DataSize = 3
  Reserved = {0}
  BlockSize = 2
  MaxSize = 3
  NoClient = NoClient
SPECIFICATION FairSpec
PROPERTY
  EveryRequestIsAnswered
CHECK_DEADLOCK FALSE
