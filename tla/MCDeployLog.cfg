\* Three deployments rotate while an application, others and a browser have the
\* log open.
CONSTANTS
    MaxRotation = 2
    MaxLogSize = 1
    MaxWrites = 3
    MaxCalls = 3
    MaxStarts = 1
SPECIFICATION FairSpec
INVARIANT RotationKeepsTheNewest
PROPERTY FollowersCatchUp
\* The system stops when the bounds are reached.
CHECK_DEADLOCK FALSE
