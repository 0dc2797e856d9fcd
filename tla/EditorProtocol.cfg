SPECIFICATION FairSpec
CONSTANTS
    Docs = {d1}
    EditorDoc = d1
    Bodies = {b1, b2}
    Ops = {o1, o2, o3, o4}
    Sessions = {s1, s2}
    Titles = {t1}
    Generations = {1}
    VersionLimit = 2
    MetaLimit = 0
    LeaseLimit = 3
    GenerationLimit = 2
    OpReserve = 2
    TroubleLimit = 1
INVARIANT
    NothingTypedIsLost
PROPERTY
    SessionSettles
CHECK_DEADLOCK FALSE
