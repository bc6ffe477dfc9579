SPECIFICATION MCSpec
CONSTANTS
    None = None
    Users = {1, 2, 3}
    Teams = {1, 2, 3}
    Sids = {1, 2}
    Idle = 4
    Cap = 5
    MaxNow = 7
    Emails = {"e1", "e2", "e3"}
    Idents = {1, 2}
    Slugs = {"a", "b", "c"}
    Reserve = 1
    Cooldown = 2
    MaxMonth = 3
INVARIANTS
    
    SlugParked
    
PROPERTIES
    SessionEnds
CHECK_DEADLOCK FALSE
