CONSTANTS
  MaxProcs = 3
  MaxStarters = 2
  Budgets <- MCBudgets
SPECIFICATION Spec
CHECK_DEADLOCK FALSE
INVARIANTS
  TypeOK
  AloneServes
  OwnedIsStopped
PROPERTY QuitStops
