\* Two pushes, a rollback to any commit by hand and a stop; commit 2 is healthy
\* and commit 3 has nothing to run.
CONSTANTS
    Project = p1
    None = None
    MaxCommits = 3
    MaxRows = 2
    MaxRequests = 2
    MaxManual = 0
    MaxRollbacks = 1
    MaxStops = 1
    MaxCrashes = 0
    Reordering = FALSE
    Healthy = {2}
    NoRunScript = {3}
SPECIFICATION FairSpec
INVARIANTS
    TypeOK
    RollbackChainsAreShort
PROPERTIES
    DeployingIsResolved
    QueueKeepsItsSpec
\* The system stops when nothing is asked of it any more.
CHECK_DEADLOCK FALSE
