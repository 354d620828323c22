CONSTANTS
    MaxTurns = 3
    MaxItems = 2
    QueueCap = 2
    PageSize = 1
    MaxConnects = 2
    Kind <- MCKind
SPECIFICATION Spec
CHECK_DEADLOCK FALSE
INVARIANTS
    PageShowsThread
    ComposerFollowsGate
    CursorShown
PROPERTIES
    KeepsCompletedTurns
