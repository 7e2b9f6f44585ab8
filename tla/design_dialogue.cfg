SPECIFICATION Spec
CONSTANTS
    None = None
    Task = {t1, t2}
    Request = {r1, r2, r3}
    Message <- MCMessage
    Solid <- MCSolid
    MaxSelections = 1
SYMMETRY Symmetry
INVARIANTS EveryWordCounts BuiltAsSaid EveryPickHasOneEntity SurvivorIsNotMistaken
CHECK_DEADLOCK FALSE
