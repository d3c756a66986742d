CONSTANTS
  Workers = {w1, w2}
  MaxAttempts = 3
  MaxConns = 6
  MaxFaults = 1
SPECIFICATION Safe
SYMMETRY WorkerSymmetry
INVARIANT SurvivesInterruptions
CHECK_DEADLOCK FALSE
