SPECIFICATION Spec
CONSTANTS
    Procs = {agent, p1, p2}
    Agents = {agent}
    Sandboxes = {b1, b2, b3}
    MaxSlot = 2
    SharedAttach = FALSE
    NoBox = NoBox
SYMMETRY Symmetry
INVARIANTS TypeOK UniqueSlot NoSlotLeak
CHECK_DEADLOCK FALSE
