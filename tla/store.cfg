SPECIFICATION MCSpec
CONSTANTS
    None = None
    Boxes = {1, 2}
    Images = {0, 1}
    Loops = {1, 2, 3, 4, 5, 6}
    Slots = {1, 2}
INVARIANTS
    Restorable
    Coherent
    
PROPERTIES
    SavedSafely
    
CHECK_DEADLOCK FALSE
