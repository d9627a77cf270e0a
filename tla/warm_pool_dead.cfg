SPECIFICATION Spec
CONSTANTS
  Requests = {r1, r2, r3}
  MaxStarts = 2
  MaxLines = 2
  Nobody = Nobody
SYMMETRY RequestSymmetry
INVARIANT DeadProcessDiscarded
CHECK_DEADLOCK FALSE
