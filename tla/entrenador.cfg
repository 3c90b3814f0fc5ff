CONSTANTS
  Maps = 2
  Lives = 2
  MaxTerms = 2
  MaxGifts = 2
SPECIFICATION FairSpec
INVARIANTS
  TypeOK
  PlaysAlive
  MaestroHasAllMedals
  
PROPERTIES
  TripEnds
CHECK_DEADLOCK FALSE
