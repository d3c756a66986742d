CONSTANTS
  Jobs = {j1, j2}
  Callers = {c1}
  MaxFaults = 0
  MaxCrashes = 1
  MaxChanges = 1
SPECIFICATION Spec
SYMMETRY RegistrySymmetry
INVARIANT JobsPersist
CHECK_DEADLOCK FALSE
