SPECIFICATION PlatformSpec
CONSTANTS
  Patch = {p1, p2}
  Worker = {w1}
  Nothing = Nothing
  Unset = Unset
  ResetResults = {TRUE}
  MaxIterations = 2
  MaxPlannerCalls = 1
  MaxToolCalls = 0
  MaxIdle = 1
  MaxRounds = 1
  MaxTries = 2
  MaxResumes = 1
  Tool = {m1, m2}
  Argument = {n1}
  Misfit = Misfit
  AnyTool = AnyTool
  CallLimit = 2
  RoundLimit = 2
  MaxProposals = 2
  MaxChanges = 1
  MaxCrashes = 1
  MaxDrills = 2
  Skip = {{}, {"faults"}}
  MaxEval = 2
  Suite = {u1, u2}
  NoSuite = NoSuite
  Outcome = {"fixed", "matched", "failed"}
  MaxCase = 1
  MaxEdition = 2
  Server = {v1, v2}
  Assertion = {own, fresh, other}
  Other = {other}
  Own = own
  NoServer = NoServer
  MaxPosts = 2
  MaxLapses = 1
INVARIANTS VerifiedAsShipped CallsWithinBudget AnswersAreStored RunsNeedLeases StoresAgree
           EvidenceIsEarned GateComparesLikeWithLike
PROPERTY RejectionHolds
SYMMETRY Symmetry
CHECK_DEADLOCK FALSE
