SPECIFICATION Spec
CONSTANTS
    Mixes <- ManagerMixes
    MaxGen = 2
    MayCrash = TRUE
    None = None
INVARIANTS
    TypeOK
    NoLeak
    PausedIntact
    NothingRunsAfterShutdown
PROPERTIES
    CallsReturn
    CrashNoticed
CHECK_DEADLOCK FALSE
