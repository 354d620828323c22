SPECIFICATION FairSpec
CONSTANTS
    Threads = {t1, t2, t3, t4}
    Natives = {n1, n2}
    Root = t1
    Base = n1
    MaxCalls = 2
    MaxTurns = 2
    InboxLimit = 2
    None = none
CHECK_DEADLOCK FALSE
INVARIANTS
    CodexIsSound
PROPERTIES
    AckedTurnsEnd
    CallsReturn
