SPECIFICATION Spec
CONSTANTS
    Conversation = {c1, c2}
    Request = {r1, r2, r3, r4, r5}
    None = None
    Quota = 1
    MaxFaults = 1
SYMMETRY Symmetry
INVARIANTS WholeOrGone ReadyIsStored DeletedIsClean QuotaKept
CHECK_DEADLOCK FALSE
