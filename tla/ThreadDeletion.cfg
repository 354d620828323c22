SPECIFICATION FairSpec
CONSTANTS
  r = r
  c = c
  d = d
  Threads = {r, c, d}
  Parent <- TreeParent
  Late = {d}
  Requests = {h1, h2}
  MaxFaults = 1
  None = None
CHECK_DEADLOCK FALSE
INVARIANTS
    DeletionIsSound
PROPERTIES
    LeafFirst
    DoneMeansDeleted
    CascadeLetsGo
