SPECIFICATION FairSpec
CONSTANTS
    Approvals = {a1}
    ServerRequests = {s1}
    Responders = {p1, p2}
    MaxClaims = 2
    MaxRaised = 1
    MaxTurns = 2
    MaxEvents = 1
    MaxJoins = 0
    MaxChannel = 0
CHECK_DEADLOCK FALSE
INVARIANTS
    LedgerIsSound
PROPERTIES
    RevisionsAreFaithful
    ClaimsSettle
