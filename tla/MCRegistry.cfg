CONSTANTS
  Jobs = {j1, j2, j3}
  Callers = {c1}
  MaxFaults = 2
  MaxCrashes = 2
  MaxChanges = 2
SPECIFICATION Spec
SYMMETRY RegistrySymmetry
INVARIANTS
  TypeOK
  Agrees
  Durable
  Honoured
CHECK_DEADLOCK FALSE
