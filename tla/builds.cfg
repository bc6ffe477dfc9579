SPECIFICATION MCSpec
CONSTANTS
    n1 = n1
    n2 = n2
    t1 = t1
    t2 = t2
    c1 = c1
    c2 = c2
    None = None
    Nodes = {n1, n2}
    Ids = {1, 2, 3}
    Names = {"a", "b", "c"}
    Teams = {t1, t2}
    Consoles = {c1, c2}
    PreSteps = 1
    PostSteps = 1
    BufCap = 2
INVARIANTS
    
    
    StepsOnce
PROPERTIES
    BuildSettles
CHECK_DEADLOCK FALSE
