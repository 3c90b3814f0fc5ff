CONSTANTS
  Clients = {c1, c2}
  na = na
  nb = nb
  nl = nl
  Names = {na, nb, nl}
  Long = {nl}
  Paths <- MCPaths
  Volumes <- MCVolumes
  FileBlocks = 3
  MaxFull = 1
  MaxCalls = 3
  NONE = NONE
SPECIFICATION Spec
INVARIANTS
  TypeOK
  InStep
PROPERTIES
  ResultIsTrue
  OnlyRacesDoHarm
CHECK_DEADLOCK FALSE
SYMMETRY MCSymmetry
