SPECIFICATION FairSpec
CONSTANTS
    Notes = {n1, n2}
    first = first
    second = second
    Hashes = {first, second}
    Contents <- OneChunk
    Models = {m1}
    MaxAttempts = 2
    StorageErrors = FALSE
    MaxRevision = 2
    MaxStarts = 2
PROPERTIES
    QueueDrains
CHECK_DEADLOCK FALSE
