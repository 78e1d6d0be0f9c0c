# A TLA+ model of the CICD orchestrator

CICD (the Go program in `src/gosrc`) deploys projects on one server: a webhook,
an operator or the boot sequence asks for a deployment; a queue runs one per
project; the pipeline synchronises the checkout, runs `install.sh`, starts
`run.sh`, checks the application's health and rolls back. This directory holds
TLA+ models of the parts that keep state, configurations that check them with
TLC, and proofs that TLAPS checks. File names without a directory below are
those of `src/gosrc`.

## 1. The system

| Component | State | Operations | Talks to |
|---|---|---|---|
| Deployment queue, `actions/queue.go` | per project: `isRunning`, one `pending` slot | `EnqueueDeployment`, `runQueuedDeploy`, `IsDeploymentRunning` | called by the gateway, boot and the change stream; calls the pipeline |
| Pipeline, `actions/executor.go` | checkout | `FullDeployPipeline`, `SyncRepo`, `RunDeployment`, `RollbackToCommit`, `PostDeployHealthCheck` | process manager, history, status column |
| Install phase, `actions/executor.go:347-487`, `patchInstallScript.go` | `install.hash`, `install_patched.sh`, sudoers file of the service user | decide, grant, patch, run, record, revoke | pipeline, rollbacks, reinstall |
| Process manager, `actions/pm.go`, `executor_linux.go` | registry (directory to `ManagedProcess`), `app.pid`, processes | `StartAppProcess`, `StopAppProcess`, `monitorProcess`, three watchers, `restartWithBackoff` | called by pipeline and gateway; restarts by itself |
| Commit history, `database/registry.go:698-796` | table `commit_history` | add, set current, mark rolled back, look up the current | pipeline, gateway |
| Project registry and settings, `database/registry.go`, `deploypath/path.go` | tables `users`, `settings`, directories | register (an upsert), update, pin, delete, port check, choice of the directory, merge of the global settings | gateway, boot, fleet |
| Gateway, `api/server.go` | none of its own | webhook, deploy, stop, rollback, pin, reinstall, settings | everything |
| Fleet synchronisation, `database/mongo.go` | MongoDB documents, change stream, map of recent deployments | `UpdateCommitHash`, `WatchChanges` | gateway writes, callback enqueues |
| Boot, `main.go` | none | setup mode, fleet resurrection | queue, fleet |
| Settings and setup token, `database/registry.go:171-352`, `main.go`, `cli/handler.go` | settings row (defaults, token, secret of the sessions) | load, save, generate and validate a token, `GetJWTSecret` | setup, commands, boot and handlers, which are processes and goroutines of their own |
| deploy.log, `logger/log.go`, the streams of `api/server.go` | `deploy.log`, `deploy.log.1` to `.5` | `emit`, `RotateLogIfNeeded`, follow | every goroutine, the application, browsers |
| Smaller ones | | terminal sessions, the commands that print, notifications | |

What is hard here is concurrency. One project is touched by the queue's
goroutine, by health checks and rollbacks in goroutines of their own, by the
watchdog of every instance of the application that is alive or was, and by HTTP
handlers that run side by side; they share the status column, the history, the
checkout, the process registry and the files of the install phase, and only the
queue has a mutex around more than one step. Projects of one service user share
its sudoers file, and the setup command, `cicd token` and the service share the
settings row as separate processes. The process may also die between any two
steps, and with it the queue. `PROJECT.json` lists every hazard at its line.

What makes the components correct:

* queue: one deployment at a time, none lost, the newest wins;
* history: one current row, which can be found again, and nothing removed;
* pipeline: every deployment reaches an outcome, rollbacks end, a restart
  catches up with the pushes;
* process manager: what is registered is watched, a crash is answered once, a
  replaced instance is neither left running nor allowed to interfere;
* fleet: a commit written into MongoDB is tried on every node that hosts its
  branch, although events are lost with streams and nodes;
* install phase: a recorded hash means what it says, a failing command of
  `install.sh` is reported, the sudoers file is there while it is needed and
  gone afterwards;
* settings and token: a session outlives restarts, a token opens one session and
  stays until then, a saved setting takes effect;
* deploy.log: rotation loses the oldest file and no other, and a browser is
  shown every line of the file it follows;
* registry: directories of projects are apart, an application at rest runs with
  the configuration of its row, and none runs without a project.

## 2. The modules

**DeployOrder** is what the comment at `actions/queue.go:10-13` promises:
requests of a project are submitted, a newer one than the last may begin when
nothing runs, and it ends. It is the abstract specification of the queue.

**DeployQueue** is `queue.go`. `EnqueueDeployment` is one critical section
(`EnqueueStart`, `EnqueuePend`), and so is each turn of the loop in
`runQueuedDeploy` (`PopPending`, `GoIdle`); `deployFn` runs between
`BeginDeploy` and `DeployReturns`, or ends in `DeployPanics`. Requests are
numbers in the order of their calls. `accepted`, `taken`, `finished` and
`panics` are history variables. It implements DeployOrder, where `running` is
the request of the worker that is inside `deployFn`.

**CommitHistory** is the table `commit_history` of one project: a sequence of
rows, and the statements as operators, which the pipeline uses too. The pool has
a single connection (`registry.go:81`), so a transaction is one step.

**DeployPipeline** composes the two for one project with the webhook, the
pipeline, rollbacks, health checks, stops, crashes and the fleet resurrection. A
goroutine is a record of `threads`; `at` names the next access to something
shared. `DeployQueue` and `CommitHistory` are instantiated, and every step of
the queue is one of theirs. A goroutine of a health check that rolls back goes
on with the statements of `RollbackToCommit`, as in the code. The statement that
reads the run mode, the one that reads the health and the writes that follow are
separate steps, since other goroutines come between.

**ProcessManager** is `pm.go` for one project. An instance is a `ManagedProcess`
with its bash, its child and its watchdog; a call is a goroutine inside
`StartAppProcess` or `StopAppProcess`. Kinds of `run.sh` stand for the four
tiers. Looking at the registry, deleting, killing, removing `app.pid`, starting,
registering and writing `app.pid` are separate steps, and so are the removal of
`app.pid` and of the registration by a watchdog. A process that is told to stop
exits with 0 or not, as it likes. A start may find no codebase (`StartMissing`,
`pm.go:69-71`, before the old instance is looked at) or fail later
(`LaunchFails`). `overlap` and `stale` are history variables: two calls were
under way at once, and a watchdog overwrote the registration of another
instance.

**FleetSync** is `mongo.go` with the webhook of `server.go` and the boot of
`main.go`, for several nodes. Commits are numbers, and `versions[s]` is what
`commit_hash` was in the document of one repository and branch. `Webhook` reads
branch and pin of one project of the repository (`GetProjectByRepoURL`) and
leaves a goroutine in `writers`; `UpdateCommitHash` is the upsert, which puts an
event on every stream whose filter (`Opened`, built when the stream is opened)
lets it through. `Receive` is one turn of the loop: it looks the document up,
asks the guard against duplicates (`IsRecent`, `Remember`) and enqueues all
projects of the repository. The queue is reduced to what `EveryRequestCovered`
promises of it, a project with a deployment waiting. `missed` is a history
variable: projects of a running node that was not told of a write, or that the
node could not read when it was told (an error of SQLite or of `ToConfig`,
`mongo.go:263-272`, after the guard against duplicates has remembered the
commit).

**ProjectRegistry** is the table `users` of one node with the handlers that
create, update, deploy and delete projects, the choice of the directory, and the
deployments and applications that follow. A handler is a record of `calls`; `at`
names its next statement, and `cfg` is the configuration it read. The choice of
a directory has two statements: the directories of the table are read and
compared (`Resolve`), and the new one is made (`SetupFolder`); it is registered
in a third. Paths are sequences of components. Columns are reduced to three: the
port, `shared` (with a value in the settings, which `ToConfig` puts in when the
column is empty) and `own` (without one). History variables are `stuck`
(directories whose last deployment failed), `overlapped` (projects two handlers
worked on at once) and `left` (directories given up while in use); they name the
exceptions of the invariants.

**ScriptPatcher** is `patchShellScript`. A script is a sequence of kinds of
lines; the module has the two passes, and what bash makes of the result:
`InForce` (set -e has been reached), `HidesFailure` (a pipeline without
pipefail) and `Lax` (failures the patcher does not bring to light).

**InstallStep** is the install phase of `RunDeployment`, with the rollbacks,
forced reinstalls, timeouts and crashes that meet in it, for projects that may
share a service user. A thread is a goroutine inside `RunDeployment` or
`SyncRepo`, `RunDeployment` or `RollbackToCommit`; `at` names its next access to
a shared file (the compare of a rollback, its `git clean` and its removal of the
hash are three steps), and each line of a running script is a step, since sudo
looks at the sudoers file when it is called. A hash is the script it is the hash
of. `strays` are the projects where a timeout, which kills bash alone, or a
crash has left processes running. History: `env` (the script that left the
environment as it is), `doubt` (projects whose hash may be out of date: threads
or strays overlapped, an install failed, a crash came inside an install or
between `git clean` and the removal of the hash, or the repository was cloned
anew), `left` (users whose sudoers file a crash has left), and in a thread
`alone` (no other thread has worked on the project since this one has) and
`sole` (nor had another the sudoers file of the user). They name the exceptions.

**Gateway** is the settings row of one machine, the service, and the commands
and requests that read and write the row. `svc` is the process of the gateway
with its configuration `cfg`, which all handlers share; it boots in the steps of
`main.go:47-130`, and the port it is to listen on may be taken or out of range
(`Unusable`), which ends the process (`server.go:1110-1113`). A job is a command
(a process of its own) or a handler (which ends with the service). Of the
settings there are two, the email, which may be empty, and the port, which may
not; `LoadGlobalSettings`, `Parsed` and `SaveGlobalSettings` are the three ways
they move. Tokens and secrets are numbers. Setup may run beside a gateway in
debug mode, and end with an error after its save; a save may fail, which its
callers do not see. `promise` is the port of the last answer "Settings saved"
that was saved; `unsaved` are secrets that were never stored; `alone` in a job
or a boot says that nothing else was under way.

**DeployLog** is `deploy.log` of one project. Files are numbered as they are
created, and `name` says which file has which name; a file is a sequence of what
single writes have put there. `RotateLogIfNeeded` is a step per rename; those
who have the file open (the writer of a deployment, the application) and those
who open it for a line (`emit`) come in between, and so does the stream of a
browser, with its scanner and its reader. The stream of the system log takes the
same steps on a file that is never rotated. What the reader is given at the end
of a file without the end of a line is dropped (`Whole`). `cut` are the files
`os.Create` emptied after somebody had written to them.

**QueueAndHistoryProofs** (DeployQueue and CommitHistory),
**DeployPipelineProofs**, **ProcessManagerProofs**, **FleetSyncProofs**,
**ProjectRegistryProofs**, **InstallStepProofs**, **GatewayProofs** and
**DeployLogProofs** hold the theorems about the modules they are named after
(section 4).

MC modules hold nothing but the instance; bounds are in the cfg files. Operators
whose comment begins with "A variant" are deliberately wrong forms of the
operator that follows. They show that a property depends on the code: TLC
refutes it when the variant takes the operator's place.

## 3. The runs

| Run | Shows | Bounds |
|---|---|---|
| `queue` | no lost wakeup, newest wins, refinement of DeployOrder; every request covered unless a deployment panics | 2 projects, 3 requests, 1 panic each |
| `history` | one current row, a promoted commit is found | 2 commits, 4 rows |
| `pipeline_core` | rollback chains under interleaving; the status leaves "deploying"; control goes back to the queue | 3 commits (one with nothing to run), 2 requests, 1 manual rollback, 1 stop |
| `pipeline_restart` | after a crash between any two steps a pushed commit or a newer one is tried and the status resolved | 2 commits, 1 deployment by hand, 3 requests, 1 crash |
| `process_tiers` | the registered instance is watched, watchers of replaced ones end | every kind of `run.sh`, 2 instances, 2 deployments; starts may fail |
| `process_foreground` | a crash is answered by one restart, unless the start fails or a stale watchdog interfered; an unmanaged application needs overlapping calls or a stale watchdog | 3 instances, 2 deployments, 1 stop; starts may fail |
| `fleet` | a project that is behind its document has a deployment coming; every commit written is tried on both nodes, unless the node was not told or could not read the project | 2 nodes with one branch, the second registered early or late; 2 commits, 1 crash, broken stream or failed read, 1 registration, deletion or pin |
| `registry` | directories stay apart; an application at rest matches its row; applications without a project come only from three known situations | 2 projects, 2 handlers at a time, 4 calls, 3 directories |
| `install` | a recorded hash means that the script was installed; a command that fails is reported; the sudoers file goes away and is there while its only holder needs it | 2 projects of one user, 2 scripts (one the patcher protects, one that mentions set -e), 3 threads with 2 at once, 2 rollbacks, reinstalls or crashes |
| `gateway` | a session outlives restarts, unless its secret was never stored; a token is used once and not replaced while it is good; a saved port that can be used takes effect | 1 email, 3 ports of which one is taken, 4 sets of flags, 3 commands, requests and kills (1 kill) with 2 at once, 2 tokens |
| `log` | rotation keeps the newest files in order; a browser comes to the end of every line of the file it opened, and is shown what one write has put there | 2 rotated files, a file is big after 1 write, 3 writes, 3 deployments with 2 at once, 1 restart or connection |

One more run, `process_lost`, refutes a sentence of the documents; it is
described below.

The bounds are enough for what the properties need: a request running, one
pending and one overwriting it (3 requests); a commit with several rows of every
status (4 rows, 2 commits); a current commit, a failing one and a rollback
meeting a second deployment; an instance, its replacement and a restart in
between; a commit written before, during and after the time a stream is closed,
and a second one that a look-up may show early; two handlers on one project and
on two, with one deployment running and one waiting; two installs of one project
or of one user side by side, and one after them that meets what they left; a
setup, a login and a change of the settings in every order, with a boot in
between; two rotations that overlap, or three in a row, which move a file
through all names and out. More commits, instances or calls repeat these
situations, and for the invariants that are proved the bounds do not matter. The
two projects of `install` are alike, so that exchanging them is a symmetry. The
run of FleetSync has one branch and one gateway per repository: with two
branches, the key of the guard against duplicates makes the properties false,
and with two gateways a commit may be written again after a newer one, whose
event is then looked up as the old commit and dropped. Writes a node was not
told of (`missed`) are excepted from `WrittenCommitsReachNodes`: the stream has
no resume token.

Mutual exclusion and wedging of the queue and the keeping of rows of the history
are proved and not run, and so is the type invariant of DeployLog.

Deadlock is not checked where requests, rows or instances are bounded, because
the system then rightly has nothing left to do. Commit rows are the exception:
statuses can always change.

Fairness. `DeployQueue!Fairness` lets the goroutine of a project continue:
`deployFn` returns because git is under a timeout of ten minutes
(`executor.go:262`) and `install.sh` under the deploy timeout
(`executor.go:448`). In DeployPipeline a single weak fairness condition says
that what can make progress does; pushes, operators and crashes are never
forced. In ProcessManager calls and watchdogs proceed; the application, its
health script, deployments and operators are never forced. In FleetSync nodes
boot again (`Restart=always` in the service file), what the stream has is
returned, a deployment that waits is run and a handler ends; nothing is assumed
of webhooks, of MongoDB or of a stream that is closed. In Gateway the boot, the
commands and the handlers go on, and systemd starts the service again
(`Restart=always`); kills are bounded, and requests and expiry are never forced.
In DeployLog only the goroutine of the stream goes on. ProjectRegistry and
InstallStep claim safety only.

### Where documents and code disagree

`process_lost`: "External process PID died. Triggering restart..." (`pm.go:332`,
likewise `362` and `392`), and the watchdog "starts crash backoff recovery"
(`docs/architecture.html:142`). The watcher deletes the registration first, and
the restart then takes itself for superseded (`pm.go:421`): a background
application that dies is not started again.

Seen in the same models, without a run of their own:

* Queue: a panic of `deployFn` leaves it busy for ever (`queue.go:69`; the
  theorem `OnlyPanicsWedge` says it is the only way). "Only one deployment runs
  per project at a time" (`queue.go:12`) holds of the queue; rollbacks run in
  goroutines beside it (`server.go:634`, `executor.go:650`). "Latest pending
  commit wins" (`queue.go:13`): the slot keeps the request that came last, and
  the webhook of an older commit can overtake that of a newer one.
  DeployPipeline has the step when `Reordering` is TRUE; the theorems are for
  either value, the runs for FALSE.
* Pipeline: an automatic rollback goes to "the last successful commit"
  (`docs/troubleshooting.html:144`), but the health check of one deployment may
  look at the application that another one has started meanwhile, and makes its
  own broken commit current (`executor.go:594-627`); a rollback makes its target
  current before checking it (`executor.go:562`), and one to a commit without
  rows leaves no row current; a hash of less than eight characters panics
  (`executor.go:511`) in a goroutine nobody recovers, which ends the
  orchestrator (`Crash`); an error of `GetRepoHash` (`executor.go:729`) has an
  empty commit recorded.
* Process manager: "stale goroutines from a previous deploy silently exit"
  (`pm.go:528-530`), but an application may exit with 0 when a redeployment
  tells it to stop, and its watchdog then deletes the registration of the new
  one (`pm.go:313`) or puts its own instance there (`298`): `stale` remembers
  it. "Max 5 retries, then stops" (`docs/index.html:311`): every restart makes
  an object whose `RestartCount` is 0 (`pm.go:156`, `404`), so no limit is
  reached. A restart that has passed its check starts the application after a
  stop (`pm.go:421-426`); a restart that fails is not tried again, and one that
  finds no codebase leaves its dead instance registered (`pm.go:69-71`,
  `426-428`); the group of a background application is looked up by its dead
  leader, so its children outlive "Kill any existing instance" (`pm.go:87`); a
  crashed process in its backoff is reported as running to the health check that
  "verifies the process is alive" (`executor.go:577`).
* Fleet: a pinned project of the gateway stops its repository on every node; a
  repository registered after the stream was opened is not in its filter
  (`mongo.go:202`). "New pushes are recorded but never deployed until you unpin"
  (`docs/index.html:301`): only the webhook looks at the pin, the change stream
  (`mongo.go:263`) and the boot (`main.go:143`) do not. "Each node deploys"
  (`server.go:142`): the guard against duplicates has no branch in its key
  (`mongo.go:251`), so the same commit on a second branch is dropped. Where two
  nodes get the webhooks of a repository, the late write of one sets the
  document back to the older commit before the event of the newer one is looked
  up (`mongo.go:236`), and the guard drops that event too. A project that cannot
  be read when its event comes is not deployed, and the guard drops what comes
  later of the same commit (`mongo.go:260-272`).
* Registry: an update that leaves a field out writes the value merged from the
  settings into the row, against "nil = not sent, keep current value"
  (`server.go:402`); registering a project again leaves the application in the
  old directory running; the queue keeps the newest request, not the newest
  configuration; the check of a port and its use are separate.
* Install phase: "Next deployment will force reinstall." (`cli/handler.go:263`),
  but a deployment inside `install.sh` writes the hash after it was removed
  (`executor.go:482`), and the next one skips the install. "Force reinstall"
  (`executor.go:543`): a crash between `git clean` and the removal of the hash
  leaves the hash over a cleaned codebase. The patcher never sets pipefail, and
  "set -e" in a comment keeps it from injecting the flag
  (`patchInstallScript.go:16-17`), so that `Lax` scripts hide failures. The
  sudoers file is held until `RunDeployment` returns, the start of the
  application included (`executor.go:377-381`), longer than "during install.sh"
  (`docs/architecture.html:132`); of two projects of one user the first to end
  removes it for both, and a crash leaves it until the next install. A failed
  install leaves the old hash, a repository that is cloned anew keeps it, and a
  timeout kills bash but not what it has started. A rollback ignores errors of
  its git commands.
* Settings: "Generate new random secret and persist it" (`registry.go:342`), but
  where setup inserts the row between the UPDATE, which finds none, and the
  INSERT OR IGNORE, which finds one, the secret is not stored (`unsaved`) and
  every session ends with the next start. "Settings saved. Orchestrator is
  restarting..." (`server.go:1105`): a port that is taken or out of range is
  saved, and every start panics (`server.go:1110-1113`); a login beside the
  request loads the old settings into the configuration both share
  (`notify.go:27`), and the old port is saved. The INSERT of
  `GenerateSetupToken` is not reached, because an UPDATE of a missing row is no
  error, so the token printed before the first save is stored nowhere; setup and
  the booting service may both make a token (`docs/quickstart.html:129`); a
  login deletes whichever token is in the row by then; an error of the save is
  answered with "Settings saved" (`registry.go:189-192`); setup saves what it
  loaded before; in debug mode without a row every boot has a new webhook
  secret.
* deploy.log: the comment has `.4` deleted where the code removes `.5`
  (`log.go:90`); rotation takes no lock, so what is written between its rename
  and its create is lost when the file is emptied, and overlapping rotations
  lose a file; streams and applications that are not restarted keep the rotated
  file; a fragment of a line at the end of the file is dropped by the reading
  loop of the stream; system.log is never rotated.

## 4. The proofs

Every safety invariant and every action property that a run checks is stated by
a theorem, for all values of the constants.

`QueueAndHistoryProofs` proves, for every set of projects and all bounds, that
`QueueInv` is inductive, and from it type correctness, mutual exclusion, the
absence of lost wakeups, that only panics wedge a queue, the action property
`LatestWins`, and that the queue implements DeployOrder's safety part
(`QueueImplementsOrder`). Mutual exclusion alone is not inductive: that no
second worker is spawned needs the flag to be set while a worker lives
(`WorkerInv`), and the refinement needs to know what the slot holds relative to
the newest request taken (`ProjectInv`). Of CommitHistory it proves, for all
commits and any number of rows, that statements in any order keep one current
row at most, keep every row and its commit, and that a commit made current is
the one `PreviousCurrent` returns. The lemma `NewestExists` gives the newest row
of a non-empty finite set, by the well-foundedness of the strict subset
relation.

`DeployPipelineProofs` proves the safety of the composition, for any commits,
requests, rows, rollbacks, stops and crashes. `PipelineInv` contains `QueueInv`
of the queue and `AtMostOneCurrent` of the history as they are proved there, and
adds what ties them to the goroutines: where a goroutine of each kind can be and
what it knows there (`ShapeInv`), that only pushed commits are known
(`DataInv`), that a deployment belongs to the worker inside `deployFn`, a health
check that follows it to a request that has ended, and no two of them to the
same one (`RootInv`), that a goroutine which may still roll back stems from a
request that has led to no rollback yet (`RollbackInv`, which makes
`RollbackChainsAreShort` inductive), and that a request adds one row at most
(`RecordInv`, which types the history although its callers do not count rows). A
step of a goroutine is first described by a few facts (`ThreadStepFacts`), and
each part is shown from them. From the invariant follow that deployments are
serial, that the status "deploying" always has somebody who will replace it
(`DeployingHasOwner`, the safety half of `DeployingIsResolved`), and the two
refinements: every step is a step of DeployQueue, a crash, or leaves the queue
alone (`QueueOrCrash`), so that without crashes the pipeline implements the
queue (`QueueKeepsItsSafety`); and the pipeline, crashes included, implements
CommitHistory (`HistoryIsFollowed`).

`ProcessManagerProofs` proves, for every set of scripts and all bounds, type
correctness, that an instance is restarted once, and, if one restart is allowed
at all, that what is registered is watched. That two instances never come from
one watchdog is not inductive. `StartInv` adds that no two calls are of one
watchdog or for one new instance (`CallsDiffer`); that the watchdog of a call
waits for it, has no successor before the launch and, once the call has looked
at the registry, is not registered any more (`CallInv`); and that the parent of
an instance is restarting or done, so that it will not ask again (`InstInv`).
The same facts, with the count of restarts being 0 in every watchdog that has
not asked yet, give `RegisteredIsWatched`: a watchdog that has ended had its
instance replaced or deregistered, or is stranded. `OrphansHaveCause` needs that
an instance of a foreground script has no child, and while it is up a watchdog
that waits for it or is about to (`AllPlain`), and, as long as no calls have
overlapped and no watchdog has overwritten the registration of another instance,
that what is up is the registered instance or the one the only call is about to
kill, wait for or register (`OneByOne`). How an instance ends, with 0 or not, is
left open. Steps are first brought into four forms (`Watched`, `Runs`, `GoesOn`,
`Returns`), and the invariant is shown once per form.

`FleetSyncProofs` proves the types in every fleet, and `LagIsScheduled` in every
fleet with one branch and one gateway per repository, however many nodes,
projects, commits and faults. Both conditions are needed, as said in section 3.
`CommitsInv`: a commit has one message, which is with the gateway or a writer
until it is in the document, so that no version is written twice. `RecentInv`: a
commit the guard of a node remembers is a version, and the node's projects have
tried it and all versions before it, or are busy (a read that failed counts as
busy); without it an event the guard drops might have been needed. `LagInv`: a
version a project has not tried has its event on the stream of the node, unless
the project is busy. Steps are quiet, write a version, or receive one.

`ProjectRegistryProofs` proves all four properties of the run `registry`, for
any paths, keys, requests, handlers and projects. `RegistryInv` says of
directories that a name never repeats and lies where `ResolveDeploymentPath`
puts it (`FoldersInv`), that a directory is of one project for ever
(`OwnerInv`), that one about to be registered is nobody's and inside nobody's
(`FreshInv`), that between the reading of the table and the making of the
directory the base stays outside every directory of a project without collisions
(`PlacingInv`), and that a handler which is alone with its project finds it
where it was (`AloneInv`): that gives `DirsAreSeparate`. What runs, waits or is
about to be enqueued has a project or a directory left behind, and a deletion
that has stopped its application and is alone finds nothing running (`LeftInv`):
that gives `AppsHaveProjects`. `SettledInv` follows a change of the row to the
handler that will enqueue it, to the job that waits or runs, and to the
application: that gives `QuietAppsMatchRows`. Uniqueness of ids rests on
counting the handlers that create (`CallsInv`).

`InstallStepProofs` proves all five properties of the run `install`, for any
projects, users, owners and scripts. `SudoInv`: who holds the sudoers file as
the sole one is the only holder of its user. `PatchedScriptsStop` is the lemma
about the patcher: in a patched script that is not `Lax`, a command that fails
stops the script; `CodeInv` carries it along the lines of a run, and needs that
a thread that is alone runs the patched form of what it has read (`AloneInv`).
`AloneInv` also says that a thread which is alone has no strays beside it and
that where strays are the record is in doubt. `RecordInv`: of a project that is
not in doubt every thread is alone, and the hash is gone or right unless a
thread is between its change of the environment and the write that goes with it.

`GatewayProofs` proves the safety properties of the run `gateway`. `RowInv`: a
row that does not exist is empty, only what systemd started is `down`, and
handlers are there only while the service is up. `SecretInv`: a secret is made
only where none is stored, and one that is in use and not in the row is in
`unsaved`. `TokenInv`: tokens in use are older than the counter, two jobs are
not both alone, and a token of a session that was alone is not in the row any
more. `ActiveTokensStay` is an action property, from the same invariants; it
claims nothing where commands, requests and boots overlap.

`DeployLogProofs` proves type correctness and `RotationKeepsTheNewest`, for any
number of kept files (the run has two, the code five) and any size.
`RotationInv` says of a rotation that does not overlap another: only one thread
shifts (`OneRotates`), the name it has just emptied is free (`HoleAbove`), names
are in the order of age (`Ordered`), and a file under name i has at least i
newer ones, or i - 1 below the hole (`AgeBound`), so that what is removed is old
enough (`Kept`).

Assumed are, in every module, its named assumptions on the constants: which sets
they come from, that bounds are natural numbers, that a value that stands for
"none" is not one of the others, and in DeployPipeline that the bounds of
requests and rows leave room for what the others allow. Three theorems assume
more: `RegisteredHasWatchdog` that `MaxRestarts` is at least 1 (the code has
10), `QueueKeepsItsSafety` that there are no crashes (a crash empties the queue,
which is no step of `queue.go`), and `LagsAreScheduled` one branch and one
gateway.

Only model-checked: liveness and the fairness it needs, which are out of the
prover's reach (`EveryRequestCovered`, `DeployingIsResolved`,
`QueueKeepsItsSpec` beyond its safety part, `PushedCommitsAreTried`,
`SupersededWatchersEnd`, `CrashIsAnswered`, `WrittenCommitsReachNodes`,
`SettingsTakeEffect`, `FollowersCatchUp`).

## 5. The plan

1. Done: every component of section 1 that decides something the properties
   speak about, and proofs of every safety property the runs check, in every
   module that has a run.
2. Next: the safety halves of the other liveness properties, as `Owned` is of
   `DeployingIsResolved`: that a pushed commit always has a webhook, a request
   or a restart ahead of it, and that a crash that is not answered has a
   watchdog that will; what overlapping rotations can lose at most;
   `RecordedMeansInstalled` carried into DeployPipeline.

## 6. Not modelled

The terminal: a session belongs to one connection, copies bytes in both
directions and shares no state with anything else. The dashboard and the
documentation pages. Of the gateway, the file editor, statistics and one-off
commands, which change nothing the models have. Delivery of notifications and
email, printing and argument parsing of the command line, the installation of
the binary, the Windows variants and the stub `gitPull.go`: they decide nothing
the properties speak about. `lastCommitHash` and the commit message are written
and never read by a decision.

In FleetSync the pool of connections and the listing of server addresses are
left out, and all nodes have a URI of MongoDB (without one a webhook is
DeployPipeline's); in ProjectRegistry, requests refused for their format, and
the characters of directory names; in InstallStep, the askpass helpers, which
matter to sudo only where the sudoers file is missing; in Gateway, environment
variables for the secret and a mail server; in DeployLog, the text of the lines.
Abstracted inside the modules: time (a sleep, a backoff or the life of a token
ends at any moment), process numbers being reused, children that ignore SIGTERM,
and error returns that the callers ignore: of SQLite, except for the save of the
settings (`SaveFails`) and the read of a project whose event has come
(`Receive`), and of the file system, except for the sudoers file.
