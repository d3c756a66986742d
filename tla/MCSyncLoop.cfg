CONSTANT Callers = {c1, c2}
SPECIFICATION Spec
INVARIANTS
  TypeOK
  RequestKept
  NotStranded
  PhaseHonest
  PartialIsNoSuccess
PROPERTIES
  PauseSettles
  StopEnds
  ImplementsJobControl
  ImplementsCycle
CHECK_DEADLOCK FALSE
