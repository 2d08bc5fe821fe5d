SPECIFICATION FairSerialSpec
CONSTANTS
  Orders = {o1, o2}
  Requests = {r1, r2}
  MaxFaults = 1
INVARIANTS
  WrittenOffIsDelivered
  GoodsAreHeld
PROPERTY
  KeepsOrderPromise
