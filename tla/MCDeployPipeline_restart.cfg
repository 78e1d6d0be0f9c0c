\* A push, a deployment asked for by hand, and a crash between any two steps.
CONSTANTS
    Project = p1
    None = None
    MaxCommits = 2
    MaxRows = 3
    MaxRequests = 3
    MaxManual = 1
    MaxRollbacks = 0
    MaxStops = 0
    MaxCrashes = 1
    Reordering = FALSE
    Healthy = {1}
    NoRunScript = {}
SPECIFICATION FairSpec
PROPERTIES
    PushedCommitsAreTried
    DeployingIsResolved
\* The system stops when nothing is asked of it any more.
CHECK_DEADLOCK FALSE
