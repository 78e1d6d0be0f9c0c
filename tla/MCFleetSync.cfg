\* One branch deployed on two nodes; the one that is not the gateway may be
\* registered late.
CONSTANTS
    a = a
    b = b
    r1 = r1
    main = main
    Nodes = {a, b}
    Projects <- Replicas
    Late <- SecondReplica
    Gateways <- GatewayA
    MaxCommits = 2
    MaxFaults = 1
    MaxEdits = 1
SPECIFICATION FairSpec
INVARIANTS
    TypeOK
    LagIsScheduled
PROPERTIES
    WrittenCommitsReachNodes
\* The system stops when nobody pushes any more.
CHECK_DEADLOCK FALSE
