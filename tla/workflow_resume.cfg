SPECIFICATION Spec
CONSTANTS
    Task = {t1}
    Run = {0, 1, 2, 3, 4}
    Request = {r1, r2, r3}
    Key = {k1, k2, k3}
    Abort = {a1}
    None = None
    MaxAutoIterations = 2
    JobAttempts = 2
    MaxStalledCount = 1
    MaxCrashes = 0
    MaxLapses = 1
SYMMETRY Symmetry
INVARIANTS PublishedOnce AttemptNumbersFresh RepairBudget AbortBoundsAttempts
PROPERTY JobsWindDown
CHECK_DEADLOCK FALSE
