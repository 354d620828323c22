SPECIFICATION Spec
CONSTANTS
    top = top
    child = child
    grandchild = grandchild
    k1 = k1
    k2 = k2
    None = None
    Project = Project
    Threads <- MCThreads
    Primaries <- MCPrimaries
    Links <- MCLinks
    Reported <- MCReported
    Callers <- MCCallers
    MaxCalls = 2
    MaxLinks = 2
    MaxFaults = 1
    MaxRemovals = 1
SYMMETRY CallerSymmetry
CHECK_DEADLOCK FALSE
INVARIANTS
    DriverIsSound
    OwedLinkIsHeld
    OwnersMatchThreads
    CallerIsHeld
