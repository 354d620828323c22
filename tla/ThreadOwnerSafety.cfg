SPECIFICATION Spec
CONSTANTS
    Intents = {i1, i2}
    Compactions = {i2}
    MaxTurns = 2
    MaxItems = 1
    LogCap = 2
    QueueCap = 1
    MaxAttaches = 2
    Autonomous = TRUE
    Detaches = TRUE
    Closes = FALSE
    AppendMayFail = TRUE
    SeenMayFail = TRUE
CHECK_DEADLOCK FALSE
INVARIANTS
    GateHasOneHolder
    HistoryIsFaithful
    AnswersNameLiveTurns
PROPERTIES
    BlockedGateIsRetained
    NoTurnPersistedTwice
