SPECIFICATION Spec
CONSTANTS
  Operations = {o1, o2}
  AttemptLimit = 2
  ChangeLimit = 2
  FaultLimit = 1
SYMMETRY Symmetric
CHECK_DEADLOCK FALSE
INVARIANTS
  CompletedIsListed CopiesValidate
PROPERTY
  CreatesAtomically
