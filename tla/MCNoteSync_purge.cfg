SPECIFICATION FairSpec
CONSTANTS
    Nodes = {1, 2}
    Texts = {active, trash}
    Trashed = {trash}
    active = active
    trash = trash
    None = None
    Scenes <- LongHistory
    MaxInFlight = 1
PROPERTIES
    DeletionReachesPeers
CHECK_DEADLOCK FALSE
