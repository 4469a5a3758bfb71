CONSTANTS
  Session = {s1, s2}
  Operator = {o1}
  NoRow = NoRow
  MaxAttempts = 2
  MaxClaims = 3
  MaxVersion = 4
SPECIFICATION Spec
SYMMETRY SessionSymmetry
INVARIANTS UnsafeNeverReissued SuccessIsWitnessed
