CONSTANTS
  Workers = {w1, w2, w3}
  MaxAttempts = 2
  MaxConns = 14
  MaxFaults = 2
SPECIFICATION Spec
INVARIANTS
  TypeOK
  NoLeak
  MarkHeeded
PROPERTY TransfersEnd
CHECK_DEADLOCK FALSE
