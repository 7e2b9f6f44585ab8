SPECIFICATION Spec
CONSTANTS
    Conversation = {c1, c2}
    Message = {m1, m2}
    None = None
    MaxLog = 4
    MaxFaults = 1
SYMMETRY Symmetry
INVARIANTS RunningIsOpen CompletedIsShown
CHECK_DEADLOCK FALSE
