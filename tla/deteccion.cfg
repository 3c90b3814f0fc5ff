CONSTANTS
  s1 = s1
  s2 = s2
  s3 = s3
  x = x
  y = y
  z = z
  A = A
  B = B
  F = F
  a1 = a1
  b2 = b2
  b1 = b1
  f1 = f1
  q = q
  Sessions = {s1, s2, s3}
  Owner <- MCOwner
  NextSession <- MCNextSession
  Goals <- MCGoals
  Previous <- MCPrevious
  Arrivals <- MCArrivals
  Quitters = {z}
  PokeNests <- MCPokeNests
  Pokemons = {a1, b1, b2, f1}
  Nest <- MCNest
  Level <- MCLevel
  MaxWild = 1
  NONE = NONE
SPECIFICATION Spec
INVARIANTS
  TypeOK
  LostIsBeingRead
  BreaksForACause
  
PROPERTIES
  DeathFreesSomeone
CHECK_DEADLOCK FALSE
