SPECIFICATION Spec
CONSTANTS
    Asks = {{"a"}, {"b"}, {"a", "c"}}
    MaxAdditional = 2
    InputLimit = 6
    OutputLimit = 6
    EpochLimit = 1
    FaultLimit = 2
INVARIANT ChainStands
PROPERTIES PaidOnRecord Settles
CHECK_DEADLOCK FALSE
