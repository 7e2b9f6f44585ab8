SPECIFICATION Spec
CONSTANTS
    Request = {r1, r2}
    Caller = {c1, c2}
    Account = {a, b}
    None = None
    MaxConfig = 3
    MaxSession = 3
    MaxCalls = 3
    MaxLosses = 1
SYMMETRY Symmetry
INVARIANTS DefaultKept RefusedOnlyInConflict KeyFitsUrl ShownIsStored OneAdministrator HandedOver
CHECK_DEADLOCK FALSE
