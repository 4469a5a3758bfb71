CONSTANTS
  Session = {s1}
  Operator = {o1, o2}
  NoRow = NoRow
  MaxAttempts = 3
  MaxClaims = 4
  MaxVersion = 9
SPECIFICATION FairSpec
INVARIANTS AttemptBudget RowIsCoherent
PROPERTIES ImplementsContract ReconcilesWhatWasSeen WatchedLeaseEnds
