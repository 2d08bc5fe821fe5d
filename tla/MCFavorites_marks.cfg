SPECIFICATION MarksSpec
CONSTANTS
  Users = {u1, u2}
  Products = {p1, p2}
  Requests = {r1, r2}
  EventLists <- Bodies
  PageSize = 1
  MaxRows = 2
  MaxToggles = 2
  Buyers = {u1, u2}
  Missing = Missing
  Sessions = {s1}
  Operators = {o1}
  None = None
SYMMETRY Symmetry
INVARIANTS
  TypeOK
  ScanMissesNothing
  OnePersonEverywhere
  MergeJoinsTheirCarts
PROPERTIES
  KeepsMarksPromise
