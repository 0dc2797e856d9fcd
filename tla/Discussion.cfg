SPECIFICATION FairSpec
CONSTANTS
    Runs = {r1}
    Bindings = {"mock", "codex", "claude", "app_server", "http"}
    Callers = {c1, c2}
    MaxText = 2
    EpochLimit = 1
    FaultLimit = 1
INVARIANTS
    RequestsStand
PROPERTIES
    RunHistoryStands
    Settles
