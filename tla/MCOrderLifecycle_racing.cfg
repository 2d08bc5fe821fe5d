SPECIFICATION FairSpec
CONSTANTS
  Orders = {o1}
  Requests = {r1, r2}
  MaxFaults = 2
INVARIANTS
  TypeOK
  CancelledIsReleased
  FulfilledIsSettled
PROPERTIES
  FulfilledIsKept
  PendingCancelIsResolved
  DeliveredIsSettled
