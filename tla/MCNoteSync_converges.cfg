SPECIFICATION FairSpec
CONSTANTS
    Nodes = {1, 2}
    Texts = {active, trash}
    Trashed = {trash}
    active = active
    trash = trash
    None = None
    Scenes <- OneFailure
    MaxInFlight = 1
PROPERTIES
    Converges
CHECK_DEADLOCK FALSE
