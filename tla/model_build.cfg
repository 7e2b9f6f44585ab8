SPECIFICATION Spec
CONSTANTS
    Source = {s1, s2}
    None = None
    MaxAutoIterations = 2
    MaxResumes = 1
    MaxCuts = 1
SYMMETRY Symmetry
INVARIANTS ValidatedIsPublished RecordKept
CHECK_DEADLOCK FALSE
