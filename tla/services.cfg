SPECIFICATION ServicesSpec
CONSTANTS
  Attempt = {a1, a2}
  Execution = {e1, e2, e3}
  None = None
  Threshold = 2
  MaxFailures = 4
  File = {f1, f2}
  Content = {t1, t2}
  Absent = Absent
  NoTree = NoTree
  Worker = {w1}
  MaxJobs = 3
  MaxPushes = 1
  Caller = {c1, c2}
  Key = {k1, k2}
  Reconciler = {r1}
  Editor = {ed1}
  Limit = {1, 2}
  Width = 1
  FailClosed = {TRUE, FALSE}
  NoOne = NoOne
  MaxEdits = 1
  MaxClears = 1
  Starter = {s1, s2}
  Decider = {d1, d2}
  JobSession = JobSession
  MaxRepairJobs = 2
  MaxReopens = 1
  Config = {g1, g2}
  Secret = {z1, z2}
  Validator = {va1}
  Exchanger = {x1, x2}
  Nil = Nil
  MaxRevisions = 3
  MaxRotations = 3
  State = {q1, q2}
  Callback = {b1, b2}
  TokenJob = {j1, j2}
  NoState = NoState
  MaxIdentity = 2
INVARIANTS OneLeasedTrial ManualIsOpen ClosedIsHealthy
           NoDanglingRow IndexedIsConsistent FailureIsUndone
           BudgetHolds CountedOnce OnlyVerifiedAndApproved OneTrueDraft
           HistoryIsComplete DeletedSecretIsGone OneIdentityPerState RevocationLasts
SYMMETRY Symmetry
CHECK_DEADLOCK FALSE
