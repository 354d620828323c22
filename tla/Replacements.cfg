SPECIFICATION FairSpec
CONSTANTS
    Publishers = {p1, p2}
    Changes = {{"common", "detail"}, {"catalog"}}
    MaxRevision = 2
    MaxFaults = 1
CHECK_DEADLOCK FALSE
INVARIANTS
    MailboxIsSound
    ViewsConverge
PROPERTIES
    FieldsAreRegisters
    PageCatchesUp
