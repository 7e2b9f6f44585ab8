SPECIFICATION Spec
CONSTANTS
    Task = {t1}
    Run = {0, 1, 2, 3}
    Request = {r1, r2}
    Key = {k1, k2}
    Abort = {}
    None = None
    MaxAutoIterations = 1
    JobAttempts = 2
    MaxStalledCount = 1
    MaxCrashes = 0
    MaxLapses = 0
INVARIANT QueuedTaskHasJob
CHECK_DEADLOCK FALSE
