SPECIFICATION Spec
CONSTANTS
    Notes = {n1}
    first = first
    second = second
    Hashes = {first, second}
    Contents <- UpToTwoChunks
    Models = {m1, m2}
    MaxAttempts = 3
    StorageErrors = TRUE
    MaxRevision = 3
    MaxStarts = 3
SYMMETRY Symmetry
INVARIANTS
    TypeOK
    VectorsMatchChunks
    EmbeddedHasVector
    PendingHasJob
    PurgedLeavesNothing
PROPERTIES
    IndexFollowsNotes
CHECK_DEADLOCK FALSE
