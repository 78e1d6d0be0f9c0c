\* Two projects, two handlers at a time.
CONSTANTS
    k1 = k1
    k2 = k2
    v1 = v1
    v2 = v2
    Keys = {k1, k2}
    Values = {v1, v2}
    Empty = Empty
    Unsent = Unsent
    Ports = {1}
    Threads = {t1, t2}
    Settings = v1
    CreateRequests <- Creations
    UpdateRequests <- Edits
    MaxDirs = 3
    MaxCalls = 4
SPECIFICATION Spec
INVARIANTS
    TypeOK
    DirsAreSeparate
    QuietAppsMatchRows
    AppsHaveProjects
\* The system stops when there is no request.
CHECK_DEADLOCK FALSE
