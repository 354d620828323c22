SPECIFICATION Spec
CONSTANTS
    Approvals = {}
    ServerRequests = {s1}
    Responders = {p1, p2}
    MaxClaims = 2
    MaxRaised = 1
    MaxTurns = 2
    MaxEvents = 0
    MaxJoins = 1
    MaxChannel = 1
CHECK_DEADLOCK FALSE
INVARIANTS
    ViewConverges
