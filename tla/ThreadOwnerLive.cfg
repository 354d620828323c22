SPECIFICATION FairSpec
CONSTANTS
    Intents = {i1, i2}
    Compactions = {i2}
    MaxTurns = 2
    MaxItems = 1
    LogCap = 6
    QueueCap = 1
    MaxAttaches = 2
    Autonomous = FALSE
    Detaches = TRUE
    Closes = TRUE
    AppendMayFail = FALSE
    SeenMayFail = FALSE
CHECK_DEADLOCK FALSE
PROPERTIES
    IntentsAnswered
    GateIsReleased
