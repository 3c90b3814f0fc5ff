CONSTANTS
  s1 = s1
  s2 = s2
  s3 = s3
  x = x
  y = y
  A = A
  B = B
  p1 = p1
  p2 = p2
  Sessions = {s1, s2}
  Owner <- MCOwner
  Goals <- MCLongGoals
  PokeNests = {A, B}
  Pokemons = {p1, p2}
  Nest <- MCNest
  Algorithms = {"RR", "SRDF"}
  Quantum = 1
  MaxDistance = 0
  MaxReloads = 0
  LISTENER = LISTENER
  NONE = NONE
SPECIFICATION Spec
INVARIANT
  NoLostWakeup
CHECK_DEADLOCK FALSE
