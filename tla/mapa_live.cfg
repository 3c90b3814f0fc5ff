CONSTANTS
  s1 = s1
  s2 = s2
  s3 = s3
  x = x
  y = y
  A = A
  B = B
  p1 = p1
  p2 = p2
  Sessions = {s1, s2}
  Owner <- MCOwner
  Goals <- MCGoals
  PokeNests = {A, B}
  Pokemons = {p1, p2}
  Nest <- MCNest
  Algorithms = {"RR", "SRDF"}
  Quantum = 2
  MaxDistance = 1
  MaxReloads = 1
  LISTENER = LISTENER
  NONE = NONE
SPECIFICATION FairSpec
PROPERTY
  MovesAreAnswered
CHECK_DEADLOCK FALSE
