CONSTANTS
    m1 = m1
    m2 = m2
    b1 = b1
    None = None
    Machines = {m1, m2}
    Tickets = {1, 2}
    Tokens = {1, 2, 3, 4, 5, 6, 7, 8}
    Boxes = {b1}
    Mixes <- AllMixes
    MaxEpoch = 2
    FailureLimit = 3
SPECIFICATION Spec
INVARIANTS
    Enrolled
    
PROPERTIES
    Recovers
CHECK_DEADLOCK FALSE
