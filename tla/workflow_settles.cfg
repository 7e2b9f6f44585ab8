SPECIFICATION FairSpec
CONSTANTS
    Task = {t1}
    Run = {0, 1, 2, 3, 4}
    Request = {r1, r2}
    Key = {k1, k2}
    Abort = {a1}
    None = None
    MaxAutoIterations = 2
    JobAttempts = 2
    MaxStalledCount = 1
    MaxCrashes = 0
    MaxLapses = 0
PROPERTY TaskSettles
CHECK_DEADLOCK FALSE
