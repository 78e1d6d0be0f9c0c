\* Every kind of run.sh, with and without health.sh, two deployments that may
\* overlap, and the watchdogs.
CONSTANTS
    Scripts = {"blocking", "background", "pidfile", "external", "missing"}
    HealthFiles = {TRUE, FALSE}
    MayFail = TRUE
    MaxRestarts = 2
    MaxStarts = 2
    MaxDeploys = 2
    MaxStops = 0
SPECIFICATION FairSpec
INVARIANTS
    TypeOK
    RegisteredIsWatched
PROPERTY SupersededWatchersEnd
\* The system stops when the bounds are reached.
CHECK_DEADLOCK FALSE
