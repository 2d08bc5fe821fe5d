SPECIFICATION Spec
CONSTANTS
  Orders = {o1}
  Requests = {r1, r2}
  MaxFaults = 0
SYMMETRY Symmetry
PROPERTY
  StrictlyForward
