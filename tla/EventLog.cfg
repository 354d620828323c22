SPECIFICATION FairSpec
CONSTANTS
    Limit = 1
    MaxAppends = 3
    MaxReaders = 3
    MaxNotifies = 1
INVARIANTS
    ReaderAccounting
    ExactlyAccounted
PROPERTIES
    ReaderProgress
