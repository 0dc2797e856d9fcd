CONSTANTS
  Job = {j1, j2}
  AttemptLimit = 1
  PollLimit = 1
  FaultLimit = 1
SPECIFICATION Spec
INVARIANTS GateStands StopsOnlyItsOwn
CHECK_DEADLOCK FALSE
PROPERTIES CloseSettles
