SPECIFICATION BackendSpec
CONSTANTS
  Patch = {p1}
  Worker = {w1}
  Nothing = Nothing
  Unset = Unset
  ResetResults = {TRUE}
  MaxIterations = 2
  MaxPlannerCalls = 2
  MaxToolCalls = 1
  MaxIdle = 2
  MaxRounds = 1
  MaxTries = 1
  MaxResumes = 1
  Backend = {b1, b2}
  Operator = op
  Unversioned = Unversioned
  MaxMishaps = 1
INVARIANTS CleanTree EachIterationIsNew HeadIsComplete
PROPERTIES InvocationEnds BackendsComeUp
CHECK_DEADLOCK FALSE
