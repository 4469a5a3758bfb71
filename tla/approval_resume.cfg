CONSTANTS
  Request = {r1}
  Worker = {w1, w2}
  Nothing = Nothing
  MaxVersion = 4
  MaxLeases = 2
SPECIFICATION FairSpec
INVARIANTS CallsAreApproved CompletedRunMovesOn
PROPERTIES PendingEnds ImplementsConsent
CHECK_DEADLOCK FALSE
