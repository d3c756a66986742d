CONSTANTS
  Jobs = {j1, j2}
  Callers = {c1, c2}
  MaxFaults = 0
  MaxCrashes = 0
  MaxChanges = 0
SPECIFICATION Spec
SYMMETRY RegistrySymmetry
INVARIANT PauseSurvives
CHECK_DEADLOCK FALSE
