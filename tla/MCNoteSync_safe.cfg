SPECIFICATION Spec
CONSTANTS
    Nodes = {1, 2}
    Texts = {active, trash}
    Trashed = {trash}
    active = active
    trash = trash
    None = None
    Scenes <- Operations
    MaxInFlight = 1
INVARIANTS
    PendingIsCurrent
    VersionNamesContent
PROPERTIES
    AssociationMovesForward
    HeadMovesForward
CHECK_DEADLOCK FALSE
