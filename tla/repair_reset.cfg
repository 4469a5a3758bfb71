SPECIFICATION Spec
CONSTANTS
  Patch = {p1, p2}
  Worker = {w1}
  Nothing = Nothing
  Unset = Unset
  ResetResults = {TRUE, FALSE}
  MaxIterations = 2
  MaxPlannerCalls = 2
  MaxToolCalls = 0
  MaxIdle = 1
  MaxRounds = 0
  MaxTries = 1
  MaxResumes = 0
INVARIANT CleanTree
CHECK_DEADLOCK FALSE
