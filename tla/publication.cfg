SPECIFICATION Spec
CONSTANTS
    Worker = {w1, w2, w3}
    None = None
    MaxLapses = 1
    MaxCrashes = 1
    MaxFaults = 1
SYMMETRY Symmetry
INVARIANTS NumbersInOrder FrozenByItsOwner ListedIsStored ParentIsFrozen NothingOrphaned
PROPERTY AppendOnly
CHECK_DEADLOCK FALSE
