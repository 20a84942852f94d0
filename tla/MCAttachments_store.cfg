SPECIFICATION Spec
CONSTANTS
    w1 = w1
    w2 = w2
    applier = applier
    Handlers = {w1, w2}
    Appliers = {applier}
    None = None
    MaxObjects = 2
    MaxChanges = 3
    MaxFaults = 1
SYMMETRY Symmetry
INVARIANTS
    NoteHasItsObject
    PinsHaveTheirObjects
    OrphansAreKnown
CHECK_DEADLOCK FALSE
