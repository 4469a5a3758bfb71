CONSTANTS
  Request = {r1, r2}
  Worker = {w1}
  Nothing = Nothing
  MaxVersion = 3
  MaxLeases = 1
SPECIFICATION Spec
SYMMETRY RequestSymmetry
PROPERTY OldVersionRefused
CHECK_DEADLOCK FALSE
