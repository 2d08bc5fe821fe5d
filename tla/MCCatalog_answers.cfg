SPECIFICATION PartSpec
CONSTANTS
  p1 = p1
  p2 = p2
  None = None
  Unset = Unset
  Null = Null
  Categories = {c1, c2, c3}
  Products = {p1, p2, p3}
  Ordering <- Places
  SkuLists <- Offers
  Limit = 2
  Users = {u1}
  Ids = {b1, b2}
  Reports = {reported}
  MaxTime = 1
  MaxBatch = 2
  Scalars = {"price_min", "category_id"}
  Attributes = {"brand", "color"}
  Paths <- SomePaths
  Values = {"", "first", "second"}
  Printed = Printed
  MaxLength = 3
  Buyers = {"buyer", "another"}
  States = {"PAID", "ASSEMBLING"}
  Queries <- Lists
  PageLimit = 1
  MaxOrders = 3
SYMMETRY Symmetry
INVARIANTS
  TypeOK
  TreeIsComplete
  CrumbsAreUnbroken
  PriceIsInStock
  ScanSeesAll
  BannersTypeOK
  LateClicksCount
  WholeOrNothing
  FiltersAreForwarded
  
  ListTellsTheTruth
  TotalFitsPages
