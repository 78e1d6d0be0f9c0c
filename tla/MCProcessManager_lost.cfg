\* A background application dies.
CONSTANTS
    Scripts = {"background"}
    HealthFiles = {FALSE}
    MayFail = FALSE
    MaxRestarts = 2
    MaxStarts = 2
    MaxDeploys = 1
    MaxStops = 0
SPECIFICATION FairSpec
PROPERTY LostIsRestarted
\* The system stops when the bounds are reached.
CHECK_DEADLOCK FALSE
