SPECIFICATION FairSpec
CONSTANTS
    Jobs = {j1}
    Callers = {c1, c2}
    Renderer = TRUE
    BasisLimit = 1
    PolicyLimit = 1
    FaultLimit = 2
INVARIANTS
    JobsStand
    PaidWorkKept
PROPERTIES
    JobHistoryStands
    Settles
