SPECIFICATION Spec
CONSTANTS
    MaxCalls = 3
    MaxChildren = 2
    MaxLogs = 2
    QueueLimit = 1
    Asks = {a1}
CHECK_DEADLOCK FALSE
INVARIANTS
    SessionIsSound
PROPERTIES
    WritesAreWanted
    StreamEnds
