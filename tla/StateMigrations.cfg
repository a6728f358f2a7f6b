CONSTANTS
  p1 = p1
  r1 = r1
  r2 = r2
  Opener = {p1}
  History = {r1, r2}
  Missing = Missing
SPECIFICATION Spec
INVARIANT RetryKeepsRows
CHECK_DEADLOCK FALSE
