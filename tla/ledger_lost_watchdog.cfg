CONSTANTS
  Session = {s1}
  Operator = {o1}
  NoRow = NoRow
  MaxAttempts = 3
  MaxClaims = 4
  MaxVersion = 9
SPECIFICATION FairSpec

PROPERTY EveryLeaseEnds
