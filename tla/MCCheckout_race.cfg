SPECIFICATION Spec
CONSTANTS
  a = a
  b = b
  None = None
  Attempts = {r1, r2, r3}
  Buyers = {b1, b2}
  Keys = {k1, k2}
  Skus = {a}
  Prices = {10}
  Carts <- RaceCarts
  Bodies <- RaceBodies
  Keyed = TRUE
  MaxChanges = 0
  MaxCrashes = 1
SYMMETRY RaceSymmetry
CHECK_DEADLOCK FALSE
INVARIANTS
  TypeOK
  SameKeySameOrder
  AnswerMatchesRequest
  NumbersAreDense
  KeyIsReserved
