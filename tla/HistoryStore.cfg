SPECIFICATION Spec
CONSTANTS
    MaxTurns = 3
    Readers = {r1}
    MaxCrashes = 1
    MaxFaults = 1
    MaxOrphans = 1
    Amends = TRUE
    Deletes = TRUE
    NoFile = NoFile
    None = None
    Header = Header
    Bad = Bad
CHECK_DEADLOCK FALSE
INVARIANTS
    CommittedTurnsSurvive
    ReadsAreCurrent
    CountedOnce
    StoreIsSound
