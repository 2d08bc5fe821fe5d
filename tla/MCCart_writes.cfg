SPECIFICATION OneMergeSpec
CONSTANTS
  user1 = user1
  session1 = session1
  a = a
  b = b
  None = None
  Users = {user1}
  Sessions = {session1}
  Skus = {a}
  RowIds = {i1, i2, i3}
  Identities <- OneHeader
  Merges <- Login
  Requests = {r1, r2}
  Deliveries = {d1}
  Events <- NoEvents
  SkusOf <- Products
  MaxQuantity = 3
  MaxStock = 2
  MaxChanges = 1
  MaxCrashes = 0
SYMMETRY Symmetry
INVARIANTS
  TypeOK
  StockIsRespected
PROPERTIES
  MergeLosesNothing
  MergeTakesMax
