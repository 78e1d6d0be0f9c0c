\* Two projects of one service user, their installs and a rollback.
CONSTANTS
    p1 = p1
    p2 = p2
    u1 = u1
    Projects = {p1, p2}
    Users = {u1}
    Owner <- OneUser
    Scripts <- TwoScripts
    NoScript = NoScript
    MayFail = TRUE
    MaxThreads = 3
    MaxAtOnce = 2
    MaxEvents = 2
SPECIFICATION Spec
SYMMETRY Alike
INVARIANTS
    TypeOK
    RecordedMeansInstalled
    FailuresAreReported
    SudoIsTemporary
    GrantsAreKept
\* The system stops when the bounds are reached.
CHECK_DEADLOCK FALSE
