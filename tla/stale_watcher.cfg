SPECIFICATION Spec
CONSTANTS
    Mixes <- PauseResume
    MaxGen = 2
    MayCrash = FALSE
    None = None
INVARIANT WatcherCleansOwnVM
CHECK_DEADLOCK FALSE
