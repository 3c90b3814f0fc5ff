CONSTANTS
  Clients = {c1, c2}
  Files = {f1, f2}
  DataSize = 4
  Reserved = {0}
  BlockSize = 2
  MaxSize = 4
  NoClient = NoClient
SYMMETRY Symmetry
SPECIFICATION Spec
INVARIANTS
  TypeOK
  NoCrossLink
  NoDangling
  ChainMatchesSize
  NoLeak
  RefusedIsUndone
  OnlyEmptyReadIsWild
  
  CopiesAreExclusive
PROPERTIES
  ImplementsStore
  EnospcOnlyWhenFull
CHECK_DEADLOCK FALSE
