SPECIFICATION Spec
CONSTANTS
    Task = {t1, t2}
    Run = {0, 1, 2}
    Request = {r1, r2}
    Key = {k1, k2}
    Abort = {a1}
    None = None
    MaxAutoIterations = 1
    JobAttempts = 2
    MaxStalledCount = 1
    MaxCrashes = 1
    MaxLapses = 1
SYMMETRY Symmetry
INVARIANTS OneAtATime LeaseLeak StatusAgrees
PROPERTY JobsWindDown
CHECK_DEADLOCK FALSE
