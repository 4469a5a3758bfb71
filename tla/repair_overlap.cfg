SPECIFICATION Spec
CONSTANTS
  Patch = {p1, p2}
  Worker = {w1, w2}
  Nothing = Nothing
  Unset = Unset
  ResetResults = {TRUE}
  MaxIterations = 1
  MaxPlannerCalls = 1
  MaxToolCalls = 0
  MaxIdle = 1
  MaxRounds = 1
  MaxTries = 2
  MaxResumes = 1
INVARIANT VerifiedAsShipped
SYMMETRY Symmetry
CHECK_DEADLOCK FALSE
