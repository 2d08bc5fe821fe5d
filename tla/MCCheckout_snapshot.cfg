SPECIFICATION Spec
CONSTANTS
  a = a
  b = b
  None = None
  Attempts = {r1, r2}
  Buyers = {b1}
  Keys = {k1}
  Skus = {a, b}
  Prices = {10, 20}
  Carts <- SnapshotCarts
  Bodies <- SnapshotBodies
  Keyed = FALSE
  MaxChanges = 2
  MaxCrashes = 1
SYMMETRY SnapshotSymmetry
CHECK_DEADLOCK FALSE
INVARIANTS
  StoredIsReserved
  SnapshotHonoured
  OrphanIsReported
