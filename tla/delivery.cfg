SPECIFICATION AuditSpec
CONSTANTS
  Request = {r1}
  Sink = {http}
  Deliverer = {d1, d2}
  Nobody = Nobody
  MaxTries = 2
  MaxFaults = 1
INVARIANTS NothingIsLost
PROPERTIES EveryRowSettles
CHECK_DEADLOCK FALSE
