\* Two projects, three requests each, one panic each: a request can be running,
\* another pending and overwritten, before and after a panic.
CONSTANTS
    Projects = {p1, p2}
    MaxRequests = 3
    MaxPanics = 1
    None = None
SPECIFICATION FairSpec
INVARIANTS
    TypeOK
    IdleMeansCaughtUp
PROPERTIES
    LatestWins
    ImplementsOrder
    EveryRequestCovered
\* The system stops when the bound on requests is reached.
CHECK_DEADLOCK FALSE
