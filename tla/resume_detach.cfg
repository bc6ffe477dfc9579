CONSTANTS
    s1 = s1
    s2 = s2
    v1 = v1
    None = None
    Sandboxes = {s1, s2}
    Volumes = {v1}
    Mixes <- ResumeFails
SPECIFICATION Spec
CHECK_DEADLOCK FALSE
INVARIANT VolumeHeld
