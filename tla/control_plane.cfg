CONSTANTS
    s1 = s1
    s2 = s2
    v1 = v1
    None = None
    Sandboxes = {s1, s2}
    Volumes = {v1}
    Mixes <- AllMixes
SPECIFICATION Spec
CHECK_DEADLOCK FALSE
INVARIANTS TypeOK VolumeHeld
PROPERTIES DestroyWins VolumesFreed TransientSettles PhantomResolved
