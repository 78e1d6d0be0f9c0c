\* Foreground applications: crashes, restarts and overlapping calls.
CONSTANTS
    Scripts = {"blocking"}
    HealthFiles = {FALSE}
    MayFail = TRUE
    MaxRestarts = 3
    MaxStarts = 3
    MaxDeploys = 2
    MaxStops = 1
SPECIFICATION FairSpec
INVARIANTS
    OrphansHaveCause
    OneRestartPerInstance
PROPERTY CrashIsAnswered
\* The system stops when the bounds are reached.
CHECK_DEADLOCK FALSE
