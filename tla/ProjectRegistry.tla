--------------------------- MODULE ProjectRegistry ---------------------------
(***************************************************************************)
(* The table of projects of one node (users, database/registry.go), the    *)
(* handlers of api/server.go that create, update, deploy and delete a      *)
(* project, the choice of its directory (deploypath/path.go), and the      *)
(* deployments and applications that follow from them.                     *)
(*                                                                         *)
(* A handler is a goroutine that makes several statements, each of them    *)
(* atomic, on one row; no transaction holds them together.  A deployment   *)
(* carries the configuration its handler read.  The queue is DeployQueue's *)
(* per directory: one deployment at work and the newest request waiting.   *)
(*                                                                         *)
(* A path is the sequence of its components; component 0 is the directory  *)
(* under which projects are placed, the others are the random names of     *)
(* ResolveDeploymentPath, which never repeat.  Of the columns, "shared"    *)
(* stands for those with a value in the gateway's settings (e-mail,        *)
(* address, MongoDB, webhook secret), "own" for those without one (Git     *)
(* credentials, password).  Left out: requests rejected for their format,  *)
(* statements of SQLite that fail, MongoDB (FleetSync), commits            *)
(* (DeployPipeline), processes (ProcessManager).                           *)
(***************************************************************************)
EXTENDS Naturals, Sequences, SequencesExt, FiniteSets

CONSTANTS
    Threads,        \* handlers that can run at the same time
    Keys,           \* (repository, branch, service name)
    Values,         \* values of a column
    Settings,       \* what the gateway's settings hold for "shared", or Empty
    Empty,          \* the empty string
    Unsent,         \* a field that is not in the request
    Ports,          \* ports that can be asked for
    CreateRequests, \* [key, port, shared, own]: bodies of POST /projects
    UpdateRequests, \* [key, port, shared, own]: bodies of PUT /projects/:id
    MaxDirs,        \* bound: directories created
    MaxCalls        \* bound: calls of the handlers

GatewayPort == 0    \* the port a project gets when none is asked for

ASSUME RequestsAssumption ==
    /\ CreateRequests \subseteq
          [key : Keys, port : Ports \cup {Unsent}, shared : Values \cup {Unsent},
           own : Values \cup {Unsent}]
    /\ UpdateRequests \subseteq
          [key : Keys \cup {Unsent}, port : Ports \cup {Unsent},
           shared : Values \cup {Empty, Unsent}, own : Values \cup {Empty, Unsent}]

ASSUME BoundsAssumption ==
    MaxDirs \in Nat /\ MaxCalls \in Nat /\ Settings \in Values \cup {Empty}

VARIABLES
    rows,      \* the table users: [id, cfg]
    nextId,    \* AUTOINCREMENT
    folders,   \* directories created for projects, never removed
    calls,     \* calls[t]: the handler thread t is in
    jobs,      \* deployments: [cfg, state]
    apps,      \* configurations of the applications that run, one per directory
    stuck,     \* directories whose last deployment failed
    overlapped,\* ids two handlers worked on at the same time (history)
    left,      \* directories a project has left while in use (history)
    used       \* calls made so far

vars == <<rows, nextId, folders, calls, jobs, apps, stuck, overlapped, left, used>>

Top == <<0>>
Codebase == MaxDirs + 1    \* a directory inside a project's
Protected == {<<>>}    \* protectedPaths: "/", "/etc", ...

\* parser.Config, as far as the properties tell it apart.
Config == [key : Keys, dir : Seq(0 .. Codebase), port : Ports \cup {GatewayPort},
           shared : Values \cup {Empty}, own : Values \cup {Empty}]

Idle == [at |-> "idle", id |-> 0]

NoCalls == [t \in Threads |-> Idle]

Init ==
    /\ rows = {}
    /\ nextId = 1
    /\ folders = {}
    /\ calls = NoCalls
    /\ jobs = {}
    /\ apps = {}
    /\ stuck = {}
    /\ overlapped = {}
    /\ left = {}
    /\ used = 0

-----------------------------------------------------------------------------

Ids == {r.id : r \in rows}

RowsWithKey(k) == {r \in rows : r.cfg.key = k}

Dirs == {r.cfg.dir : r \in rows}

\* CheckPortConflict(port, id): another row has the port.
PortTaken(port, id) == \E r \in rows : r.cfg.port = port /\ r.id # id

\* Project.ToConfig with loadGlobalInto: an empty column takes the value of
\* the settings.
ToConfig(r) == [r.cfg EXCEPT !.shared = IF @ = Empty THEN Settings ELSE @]

Sent(field, current) == IF field = Unsent THEN current ELSE field

Deploying(dir) == \E j \in jobs : j.cfg.dir = dir

\* The directories that handlers of id, working on it at once, may mix up.
Abandoned(id, dir) ==
    IF id \in overlapped THEN {dir} \cup {r.cfg.dir : r \in {r \in rows : r.id = id}} ELSE {}

\* Ids held by two handlers.
Shared(cs) == {i \in 1 .. nextId : \E t, u \in Threads : t # u /\ cs[t].id = i /\ cs[u].id = i}

\* Thread t goes on as c, which may be the second handler of its project.
GoesOn(t, c) ==
    /\ calls' = [calls EXCEPT ![t] = c]
    /\ overlapped' = overlapped \cup Shared(calls')

Starts(t, c) ==
    /\ calls[t] = Idle
    /\ used < MaxCalls
    /\ used' = used + 1
    /\ GoesOn(t, c)

\* EnqueueDeployment: a deployment that waits in the same directory is
\* replaced.
Enqueued(cfg) ==
    LET here == {j \in jobs : j.cfg.dir = cfg.dir}
    IN  IF here = {} THEN jobs \cup {[cfg |-> cfg, state |-> "running"]}
        ELSE {j \in jobs : j \notin here \/ j.state = "running"}
                 \cup {[cfg |-> cfg, state |-> "pending"]}

-----------------------------------------------------------------------------
(* POST /projects.                                                         *)

\* Folders whose name is known: it is returned when the project is registered.
Known == folders \ {calls[t].cfg.dir : t \in {t \in Threads : calls[t].at = "register"}}

Bases == Protected \cup {Top} \cup Known \cup {Append(d, Codebase) : d \in Known}

\* CheckPortConflict(port, 0), only when a port is asked for.  The row of
\* the same project counts, too.  The base is a directory that exists.
Create(t) ==
    \E q \in CreateRequests, base \in Bases :
        /\ q.port # Unsent => ~PortTaken(q.port, 0)
        /\ Starts(t, [at |-> "resolve", id |-> 0, req |-> q, base |-> base])
        /\ UNCHANGED <<rows, nextId, folders, jobs, apps, stuck, left>>

\* A variant that compares the base with the directories, but not with what
\* is inside them.
EqualOnly(base, dir) == base = dir

IsSubpath(path, parent) == IsPrefix(parent, path)

\* GetAllDeploymentPaths and ResolveDeploymentPath: the base is not protected
\* and not inside a project's directory, as the table says now.
Resolve(t) ==
    /\ calls[t].at = "resolve"
    /\ calls[t].base \notin Protected
    /\ \A d \in Dirs : ~IsSubpath(calls[t].base, d)
    /\ GoesOn(t, [calls[t] EXCEPT !.at = "place"])
    /\ UNCHANGED <<rows, nextId, folders, jobs, apps, stuck, left, used>>

\* SetupProjectFolder makes the directory.  The rest of the configuration
\* comes from the request or from the gateway.
SetupFolder(t) ==
    /\ calls[t].at = "place"
    /\ Cardinality(folders) < MaxDirs
    /\ LET q   == calls[t].req
           dir == Append(calls[t].base, Cardinality(folders) + 1)
       IN  /\ folders' = folders \cup {dir}
           /\ GoesOn(t, [at |-> "register", id |-> 0,
                 cfg |-> [key |-> q.key, dir |-> dir, port |-> Sent(q.port, GatewayPort),
                          shared |-> Sent(q.shared, Settings), own |-> Sent(q.own, Empty)]])
    /\ UNCHANGED <<rows, nextId, jobs, apps, stuck, left, used>>

\* The directory cannot be resolved or prepared: the request ends.
ResolveFails(t) ==
    /\ calls[t].at \in {"resolve", "place"}
    /\ GoesOn(t, Idle)
    /\ UNCHANGED <<rows, nextId, folders, jobs, apps, stuck, left, used>>

\* A variant that always inserts.
RegisterTwice(t) ==
    /\ calls[t].at = "register"
    /\ rows' = rows \cup {[id |-> nextId, cfg |-> calls[t].cfg]}
    /\ nextId' = nextId + 1
    /\ GoesOn(t, [at |-> "enqueue", id |-> nextId, cfg |-> calls[t].cfg])
    /\ UNCHANGED <<folders, jobs, apps, stuck, left, used>>

\* RegisterProject is an upsert: the row of the same key keeps its id and
\* takes the new directory.
Register(t) ==
    /\ calls[t].at = "register"
    /\ LET cfg == calls[t].cfg
           old == RowsWithKey(cfg.key)
           id  == IF old = {} THEN nextId ELSE (CHOOSE r \in old : TRUE).id
       IN  /\ rows' = (rows \ old) \cup {[id |-> id, cfg |-> cfg]}
           /\ left' = left \cup {r.cfg.dir : r \in old}
           /\ nextId' = IF old = {} THEN nextId + 1 ELSE nextId
           /\ GoesOn(t, [at |-> "enqueue", id |-> id, cfg |-> cfg])
    /\ UNCHANGED <<folders, jobs, apps, stuck, used>>

-----------------------------------------------------------------------------
(* PUT /projects/:id and POST /projects/:id/deploy.                        *)

\* GetProjectByID and ToConfig, then the fields of the request.
Changed(cfg, q) ==
    [key |-> Sent(q.key, cfg.key), dir |-> cfg.dir, port |-> Sent(q.port, cfg.port),
     shared |-> Sent(q.shared, cfg.shared), own |-> Sent(q.own, cfg.own)]

Update(t) ==
    \E r \in rows, q \in UpdateRequests :
        /\ Starts(t, [at |-> "check", id |-> r.id, req |-> q, cfg |-> Changed(ToConfig(r), q)])
        /\ UNCHANGED <<rows, nextId, folders, jobs, apps, stuck, left>>

\* CheckPortConflict(port, id).
CheckPort(t) ==
    /\ calls[t].at = "check"
    /\ IF calls[t].req.port # Unsent /\ PortTaken(calls[t].req.port, calls[t].id)
          THEN GoesOn(t, Idle)
          ELSE GoesOn(t, [calls[t] EXCEPT !.at = "write"])
    /\ UNCHANGED <<rows, nextId, folders, jobs, apps, stuck, left, used>>

\* UpdateProject writes every column; a row that is gone is no error, the key
\* of another row is.
Write(t) ==
    /\ calls[t].at = "write"
    /\ LET cfg == calls[t].cfg
           id  == calls[t].id
       IN  IF id \in Ids /\ \E r \in RowsWithKey(cfg.key) : r.id # id
              THEN UNCHANGED <<rows, left>> /\ GoesOn(t, Idle)
              ELSE /\ rows' = {r \in rows : r.id # id}
                         \cup (IF id \in Ids THEN {[id |-> id, cfg |-> cfg]} ELSE {})
                   /\ left' = left \cup Abandoned(id, cfg.dir)
                   /\ GoesOn(t, [at |-> "enqueue", id |-> id, cfg |-> cfg])
    /\ UNCHANGED <<nextId, folders, jobs, apps, stuck, used>>

\* The deploy button, a webhook or an event of the fleet.
DeployByHand(t) ==
    \E r \in rows :
        /\ Starts(t, [at |-> "enqueue", id |-> r.id, cfg |-> ToConfig(r)])
        /\ UNCHANGED <<rows, nextId, folders, jobs, apps, stuck, left>>

\* The last step of these handlers.
Enqueue(t) ==
    /\ calls[t].at = "enqueue"
    /\ jobs' = Enqueued(calls[t].cfg)
    /\ GoesOn(t, Idle)
    /\ UNCHANGED <<rows, nextId, folders, apps, stuck, left, used>>

-----------------------------------------------------------------------------
(* DELETE /projects/:id.                                                   *)

Delete(t) ==
    \E r \in rows :
        /\ Starts(t, [at |-> "stop", id |-> r.id, cfg |-> r.cfg])
        /\ UNCHANGED <<rows, nextId, folders, jobs, apps, stuck, left>>

\* A variant that only deletes.
StopsNothing(t) ==
    /\ calls[t].at = "stop"
    /\ GoesOn(t, [calls[t] EXCEPT !.at = "delete"])
    /\ UNCHANGED <<rows, nextId, folders, jobs, apps, stuck, left, used>>

\* StopAppProcess.
StopApp(t) ==
    /\ calls[t].at = "stop"
    /\ apps' = {a \in apps : a.dir # calls[t].cfg.dir}
    /\ left' = left \cup (IF Deploying(calls[t].cfg.dir) THEN {calls[t].cfg.dir} ELSE {})
    /\ GoesOn(t, [calls[t] EXCEPT !.at = "delete"])
    /\ UNCHANGED <<rows, nextId, folders, jobs, stuck, used>>

\* DeleteProject.  Deployments of the directory go on.
DeleteRow(t) ==
    /\ calls[t].at = "delete"
    /\ rows' = {r \in rows : r.id # calls[t].id}
    /\ left' = left \cup Abandoned(calls[t].id, calls[t].cfg.dir)
                     \cup (IF Deploying(calls[t].cfg.dir) THEN {calls[t].cfg.dir} ELSE {})
    /\ GoesOn(t, Idle)
    /\ UNCHANGED <<nextId, folders, jobs, apps, stuck, used>>

-----------------------------------------------------------------------------
(* The queue and the application.                                          *)

\* A variant that forgets the request that waits.
PoppedNothing(j) == {k \in jobs : k.cfg.dir # j.cfg.dir}

\* runQueuedDeploy takes the request that waits, if there is one.
Popped(j) ==
    {k \in jobs : k.cfg.dir # j.cfg.dir}
        \cup {[k EXCEPT !.state = "running"] :
                 k \in {k \in jobs : k.cfg.dir = j.cfg.dir /\ k.state = "pending"}}

\* FullDeployPipeline ends with the application started from the
\* configuration of the request; it does not look for the row.
Deployed(j) ==
    /\ j.state = "running"
    /\ jobs' = Popped(j)
    /\ apps' = {a \in apps : a.dir # j.cfg.dir} \cup {j.cfg}
    /\ stuck' = stuck \ {j.cfg.dir}
    /\ UNCHANGED <<rows, nextId, folders, calls, overlapped, left, used>>

\* It fails before it stops the application that runs, or with nothing in its
\* place.
DeployFails(j) ==
    /\ j.state = "running"
    /\ jobs' = Popped(j)
    /\ stuck' = stuck \cup {j.cfg.dir}
    /\ apps' \in {apps, {a \in apps : a.dir # j.cfg.dir}}
    /\ UNCHANGED <<rows, nextId, folders, calls, overlapped, left, used>>

-----------------------------------------------------------------------------

Next ==
    \/ \E t \in Threads :
          \/ Create(t) \/ Resolve(t) \/ SetupFolder(t) \/ ResolveFails(t) \/ Register(t)
          \/ Update(t) \/ CheckPort(t) \/ Write(t)
          \/ DeployByHand(t) \/ Enqueue(t)
          \/ Delete(t) \/ StopApp(t) \/ DeleteRow(t)
    \/ \E j \in jobs : Deployed(j) \/ DeployFails(j)

Spec == Init /\ [][Next]_vars

-----------------------------------------------------------------------------

Positions == {"idle", "resolve", "place", "register", "check", "write", "enqueue", "stop", "delete"}

\* Types, and the uniqueness SQLite keeps: one row per id and per (repoURL,
\* branch, serviceName).
TypeOK ==
    /\ rows \subseteq [id : 1 .. MaxCalls, cfg : Config]
    /\ \A r, s \in rows : r.id = s.id \/ r.cfg.key = s.cfg.key => r = s
    /\ nextId \in 1 .. MaxCalls + 1
    /\ folders \subseteq Seq(0 .. Codebase)
    /\ \A t \in Threads : calls[t].at \in Positions /\ calls[t].id \in 0 .. MaxCalls
    /\ jobs \subseteq [cfg : Config, state : {"running", "pending"}]
    /\ apps \subseteq Config
    /\ stuck \subseteq folders
    /\ overlapped \subseteq 1 .. MaxCalls
    /\ left \subseteq folders

\* No project is placed in the directory of another or around it, however
\* creations, re-registrations, updates and deletions interleave ("Nested
\* deployment protection", path.go:100).  Two handlers that worked on one of
\* the two projects at once are the exception: an update that read the row
\* before a re-registration writes its old directory back.
DirsAreSeparate ==
    \A r, s \in rows :
        r.id # s.id /\ {r.id, s.id} \cap overlapped = {} => ~IsPrefix(r.cfg.dir, s.cfg.dir)

BusyWith(r) ==
    \/ \E t \in Threads : calls[t].id = r.id
    \/ Deploying(r.cfg.dir)

\* "Trigger a redeploy with the updated config so changes take effect
\* immediately" (server.go:478): when no handler and no deployment of a
\* project is at work, its application runs with what its row says, whatever
\* was enqueued while an earlier deployment ran; unless the last deployment
\* failed or two handlers worked on the project at once.
QuietAppsMatchRows ==
    \A r \in rows : r.id \notin overlapped /\ ~BusyWith(r) /\ r.cfg.dir \notin stuck =>
        \A a \in apps : a.dir = r.cfg.dir => a.own = r.cfg.own /\ a.key = r.cfg.key

\* An application runs for a project ("permanently removed", server.go:694).
\* Without one it can run only in a directory that a re-registration of its
\* project gave up, that was deleted with a deployment under way, or on whose
\* project two handlers worked at once.
AppsHaveProjects ==
    \A a \in apps : a.dir \in Dirs \cup left

=============================================================================
