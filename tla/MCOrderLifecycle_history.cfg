SPECIFICATION Spec
CONSTANTS
  Orders = {o1}
  Requests = {r1}
  MaxFaults = 0
SYMMETRY Symmetry
INVARIANT
  HistoryIsCurrent
