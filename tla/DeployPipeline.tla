---------------------------- MODULE DeployPipeline ----------------------------
(***************************************************************************)
(* One project from a push to a verified deployment: the webhook, the      *)
(* deployment queue, FullDeployPipeline, RollbackToCommit and              *)
(* PostDeployHealthCheck (actions/executor.go), with the commit history    *)
(* and the status column they share.                                       *)
(*                                                                         *)
(* The queue is DeployQueue with a single project: deployFn is the thread  *)
(* below whose fn is "deploy".  Rollbacks asked for by an operator and     *)
(* health checks are goroutines outside the queue.  Every action is one    *)
(* access to shared state (a statement, a git command, a look at the       *)
(* process registry) with the local steps up to the next one.              *)
(*                                                                         *)
(* Commits are numbered in the order in which they were pushed.  Left out: *)
(* notifications, logs, the column lastCommitHash (written, but no         *)
(* decision reads it), the run mode "delegating" (its status               *)
(* "externally_managed" is counted as "running") and the life of the       *)
(* application after its start, which is ProcessManager's.                 *)
(***************************************************************************)
EXTENDS Naturals, Sequences

CONSTANTS
    Project,      \* the service directory
    None,         \* no pending request
    MaxCommits,   \* bound: commits pushed
    MaxRows,      \* bound: rows of the commit history
    MaxRequests,  \* bound: calls of EnqueueDeployment
    MaxManual,    \* bound: deployments asked for by hand
    MaxRollbacks, \* bound: rollbacks asked for by hand
    MaxStops,     \* bound: stops asked for by hand
    MaxCrashes,   \* bound: crashes of the orchestrator
    Reordering,   \* whether webhooks can overtake each other
    Healthy,      \* commits whose application passes its health check
    NoRunScript   \* commits without .cicd/run.sh

NoCommit == 0
Commits == 1 .. MaxCommits

ASSUME NoneAssumption == None \notin Nat

ASSUME BoundsAssumption ==
    /\ MaxCommits \in Nat \ {0} /\ MaxRequests \in Nat \ {0}
    /\ MaxRows \in Nat /\ MaxManual \in Nat /\ MaxRollbacks \in Nat
    /\ MaxStops \in Nat /\ MaxCrashes \in Nat

ASSUME BoundsSuffice ==
    /\ MaxRequests + 1 >= MaxCommits + MaxManual + MaxCrashes
    /\ MaxRows >= MaxRequests
    /\ Healthy \subseteq Commits /\ NoRunScript \subseteq Commits
    /\ Reordering \in BOOLEAN

VARIABLES
    isRunning, pending, workers, accepted, taken, finished, panics,
                  \* the queue, see DeployQueue
    asked,        \* asked[r]: the commit request r is for; NoCommit is the tip
    tip,          \* the newest commit of the watched branch
    hooks,        \* webhooks sent and not yet handled
    history,      \* the rows of commit_history, see CommitHistory
    status,       \* users.deploy_status
    head,         \* the commit checked out in codebase/
    app,          \* the commit run by the registered process, or NoCommit
    threads,      \* goroutines inside the functions of executor.go
    booting,      \* the fleet resurrection is still to enqueue this project
    attempted,    \* the newest commit a synchronisation was aimed at
    autoRollbacks,\* autoRollbacks[r]: automatic rollbacks request r led to
    rollbacks, stops, manuals, crashes \* used up bounds

Q == INSTANCE DeployQueue WITH Projects <- {Project}, MaxPanics <- 0
H == INSTANCE CommitHistory WITH Commits <- Commits \cup {NoCommit}

queue == <<isRunning, pending, workers, accepted, taken, finished, panics>>
bounds == <<rollbacks, stops, manuals, crashes>>
repo == <<asked, tip, hooks, booting>>
vars == <<queue, repo, history, status, head, app, threads, attempted, autoRollbacks, bounds>>

-----------------------------------------------------------------------------

\* The queue's requests, and the rollbacks asked for by hand after them.
Roots == 1 .. (MaxRequests + MaxRollbacks)

DeployAt == {"sync", "detect", "record", "install", "start", "launch", "publish"}
RollbackAt == {"rbbegin", "rbstop", "rbcheckout", "rbinstall", "rbstart", "rblaunch",
               "rbmark", "rbcurrent", "rbpublish"}
HealthAt == {"mode", "skip", "probe", "promote", "running", "unwell"}

\* fn: the function the goroutine was started for; at: its next effect
\* ("prev": look for a rollback target); hash: the commit it is about, which
\* is the target once it is inside RollbackToCommit.
Thread == [root  : Roots,
           fn    : {"deploy", "rollback", "health", "stop"},
           at    : DeployAt \cup RollbackAt \cup HealthAt \cup {"prev", "idle"},
           hash  : Commits \cup {NoCommit},
           depth : {0, 1}]

Goes(t, at) == threads' = (threads \ {t}) \cup {[t EXCEPT !.at = at]}

\* The function returns; a deployment hands control back to the queue.
Returns(t, spawned) ==
    /\ threads' = (threads \ {t}) \cup spawned
    /\ \/ /\ t.fn = "deploy"
          /\ \E w \in workers : w.req = t.root /\ Q!DeployReturns(w)
       \/ t.fn # "deploy" /\ UNCHANGED queue

HealthCheck(t, d) ==
    [root |-> t.root, fn |-> "health", at |-> "mode", hash |-> t.hash, depth |-> d]

Init ==
    /\ Q!Init
    /\ H!HistoryInit
    /\ asked = <<>> /\ tip = 1 /\ hooks = {} /\ booting = FALSE
    /\ status = "idle" /\ head = NoCommit /\ app = NoCommit
    /\ threads = {}
    /\ attempted = NoCommit
    /\ autoRollbacks = [r \in Roots |-> 0]
    /\ rollbacks = 0 /\ stops = 0 /\ manuals = 0 /\ crashes = 0

-----------------------------------------------------------------------------
(* Requests                                                                *)

Request(c) ==
    /\ Q!EnqueueDeployment(Project)
    /\ asked' = Append(asked, c)

\* A developer pushes a commit and the forge sends a webhook.
Push ==
    /\ tip < MaxCommits
    /\ tip' = tip + 1
    /\ hooks' = hooks \cup {tip + 1}
    /\ UNCHANGED <<queue, asked, booting, history, status, head, app, threads,
                   attempted, autoRollbacks, bounds>>

\* The handler of POST / for a project that is not pinned and has no MongoDB.
\* Fiber runs the handlers concurrently: the order of the pushes is not kept.
Webhook(c) ==
    /\ c \in hooks
    /\ Reordering \/ \A d \in hooks : c <= d
    /\ hooks' = hooks \ {c}
    /\ Request(c)
    /\ UNCHANGED <<tip, booting, history, status, head, app, threads, attempted,
                   autoRollbacks, bounds>>

\* POST /projects/:id/deploy, and the deployment of a new project.
ManualDeploy ==
    /\ manuals < MaxManual
    /\ manuals' = manuals + 1
    /\ Request(NoCommit)
    /\ UNCHANGED <<tip, hooks, booting, history, status, head, app, threads,
                   attempted, autoRollbacks, rollbacks, stops, crashes>>

-----------------------------------------------------------------------------
(* FullDeployPipeline                                                      *)

Deploying(r) ==
    /\ threads' = threads \cup
          {[root |-> r, fn |-> "deploy", at |-> "sync", hash |-> asked[r], depth |-> 0]}
    /\ status' = "deploying"
    /\ UNCHANGED <<repo, history, head, app, attempted, autoRollbacks, bounds>>

BeginDeploy(w) == Q!BeginDeploy(w) /\ Deploying(w.req)

PopPending(w) == Q!PopPending(w) /\ Deploying(pending[Project])

GoIdle(w) ==
    /\ Q!GoIdle(w)
    /\ UNCHANGED <<repo, history, status, head, app, threads, attempted, autoRollbacks, bounds>>

Newer(c) == attempted' = IF c > attempted THEN c ELSE attempted

Target(t) == IF t.hash = NoCommit THEN tip ELSE t.hash

\* SyncRepo checks out the commit asked for, or the tip of the branch; also
\* the tip when git cannot reset to the commit asked for.
SyncSucceeds(t) ==
    /\ t.at = "sync"
    /\ head' \in {Target(t), tip}
    /\ Newer(Target(t))
    /\ Goes(t, IF t.hash = NoCommit THEN "detect" ELSE "record")
    /\ UNCHANGED <<queue, repo, history, status, app, autoRollbacks, bounds>>

\* A variant that ends the goroutine without going back to the queue.
SyncPanics(t) ==
    /\ t.at = "sync"
    /\ Newer(Target(t))
    /\ status' = "failed"
    /\ threads' = threads \ {t}
    /\ UNCHANGED <<queue, repo, history, head, app, autoRollbacks, bounds>>

\* The disk is full or git cannot fetch.
SyncFails(t) ==
    /\ t.at = "sync"
    /\ Newer(Target(t))
    /\ status' = "failed"
    /\ Returns(t, {})
    /\ UNCHANGED <<repo, history, head, app, autoRollbacks, bounds>>

\* GetRepoHash, when no commit was asked for: what is checked out by now, or
\* no answer from git, and the deployment goes on with an empty hash.
DetectCommit(t) ==
    /\ t.at = "detect"
    /\ \E h \in {head, NoCommit} :
          threads' = (threads \ {t}) \cup {[t EXCEPT !.at = "record", !.hash = h]}
    /\ UNCHANGED <<queue, repo, history, status, head, app, attempted, autoRollbacks, bounds>>

\* A variant that records a deployment twice.
RecordTwice(t) ==
    /\ t.at = "record"
    /\ history' = H!Added(H!Added(history, t.hash), t.hash)
    /\ Goes(t, "install")
    /\ UNCHANGED <<queue, repo, status, head, app, attempted, autoRollbacks, bounds>>

\* AddCommitToHistory.
RecordCommit(t) ==
    /\ t.at = "record"
    /\ history' = H!Added(history, t.hash)
    /\ Goes(t, "install")
    /\ UNCHANGED <<queue, repo, status, head, app, attempted, autoRollbacks, bounds>>

\* RunDeployment up to StartAppProcess: install.sh succeeds or is skipped.
InstallSucceeds(t) ==
    /\ \/ t.at = "install" /\ Goes(t, "start")
       \/ t.at = "rbinstall" /\ Goes(t, "rbstart")
    /\ UNCHANGED <<queue, repo, history, status, head, app, attempted, autoRollbacks, bounds>>

\* install.sh fails or times out: RunDeployment returns the error.
InstallFails(t) ==
    /\ \/ t.at = "install" /\ Goes(t, "prev") /\ UNCHANGED queue
       \/ t.at = "rbinstall" /\ Returns(t, {})
    /\ status' = "failed"
    /\ UNCHANGED <<repo, history, head, app, attempted, autoRollbacks, bounds>>

\* StartAppProcess without run.sh only forgets what is registered.
StartNothing(t) ==
    /\ head \in NoRunScript
    /\ \/ t.at = "start" /\ Goes(t, "publish")
       \/ t.at = "rbstart" /\ Goes(t, "rbmark")
    /\ app' = NoCommit
    /\ UNCHANGED <<queue, repo, history, status, head, attempted, autoRollbacks, bounds>>

\* Otherwise it stops what is registered and waits for it to be gone.
StartStopsOld(t) ==
    /\ head \notin NoRunScript
    /\ \/ t.at = "start" /\ Goes(t, "launch")
       \/ t.at = "rbstart" /\ Goes(t, "rblaunch")
    /\ app' = NoCommit
    /\ UNCHANGED <<queue, repo, history, status, head, attempted, autoRollbacks, bounds>>

\* The code that is checked out by now is run and registered.
StartSucceeds(t) ==
    /\ \/ t.at = "launch" /\ Goes(t, "publish")
       \/ t.at = "rblaunch" /\ Goes(t, "rbmark")
    /\ app' = head
    /\ UNCHANGED <<queue, repo, history, status, head, attempted, autoRollbacks, bounds>>

\* The service user does not exist or bash cannot be started.
StartFails(t) ==
    /\ \/ t.at = "launch" /\ Goes(t, "prev") /\ UNCHANGED queue
       \/ t.at = "rblaunch" /\ Returns(t, {})
    /\ status' = "failed"
    /\ UNCHANGED <<repo, history, head, app, attempted, autoRollbacks, bounds>>

\* The deployment is done: its health check runs in a goroutine of its own.
Publish(t) ==
    /\ t.at = "publish"
    /\ Returns(t, {HealthCheck(t, 0)})
    /\ UNCHANGED <<repo, history, status, head, app, attempted, autoRollbacks, bounds>>

-----------------------------------------------------------------------------
(* RollbackToCommit                                                        *)

\* A variant of the next action that ignores the depth of the check.
RollBackAnyDepth(t) ==
    LET prev == H!PreviousCurrent(history)
    IN  /\ t.at = "prev"
        /\ prev # NoCommit /\ prev # t.hash
        /\ autoRollbacks' = [autoRollbacks EXCEPT ![t.root] = @ + 1]
        /\ threads' = (threads \ {t}) \cup {[t EXCEPT !.at = "rbbegin", !.hash = prev]}
        /\ UNCHANGED <<queue, repo, history, status, head, app, attempted, bounds>>

\* A build or a health check failed and another commit is current: roll back
\* to it in the same goroutine, without going through the queue.
RollBackAutomatically(t) ==
    LET prev == H!PreviousCurrent(history)
    IN  /\ t.at = "prev" /\ t.depth < 1
        /\ prev # NoCommit /\ prev # t.hash
        /\ autoRollbacks' = [autoRollbacks EXCEPT ![t.root] = @ + 1]
        /\ threads' = (threads \ {t}) \cup {[t EXCEPT !.at = "rbbegin", !.hash = prev]}
        /\ UNCHANGED <<queue, repo, history, status, head, app, attempted, bounds>>

\* There is nothing to roll back to, or this was the check of a rollback.
GiveUp(t) ==
    LET prev == H!PreviousCurrent(history)
    IN  /\ t.at = "prev"
        /\ t.depth >= 1 \/ prev \in {NoCommit, t.hash}
        /\ Returns(t, {})
        /\ UNCHANGED <<repo, history, status, head, app, attempted, autoRollbacks, bounds>>

\* POST /projects/:id/rollback starts a goroutine, whatever else is running, for
\* any commit, deployed before or not.
RollbackByHand(c) ==
    /\ rollbacks < MaxRollbacks
    /\ c <= tip
    /\ rollbacks' = rollbacks + 1
    /\ threads' = threads \cup
          {[root |-> MaxRequests + rollbacks + 1, fn |-> "rollback", at |-> "rbbegin",
            hash |-> c, depth |-> 0]}
    /\ UNCHANGED <<queue, repo, history, status, head, app, attempted, autoRollbacks,
                   stops, manuals, crashes>>

RollbackBegins(t) ==
    /\ t.at = "rbbegin"
    /\ status' = "deploying"
    /\ Goes(t, "rbstop")
    /\ UNCHANGED <<queue, repo, history, head, app, attempted, autoRollbacks, bounds>>

RollbackStops(t) ==
    /\ t.at = "rbstop"
    /\ app' = NoCommit
    /\ Goes(t, "rbcheckout")
    /\ UNCHANGED <<queue, repo, history, status, head, attempted, autoRollbacks, bounds>>

\* git checkout, whose error is ignored.
RollbackChecksOut(t) ==
    /\ t.at = "rbcheckout"
    /\ head' \in {t.hash, head}
    /\ Goes(t, "rbinstall")
    /\ UNCHANGED <<queue, repo, history, status, app, attempted, autoRollbacks, bounds>>

RollbackMarks(t) ==
    /\ t.at = "rbmark"
    /\ history' = H!RolledBack(history, t.hash)
    /\ Goes(t, "rbcurrent")
    /\ UNCHANGED <<queue, repo, status, head, app, attempted, autoRollbacks, bounds>>

RollbackSetsCurrent(t) ==
    /\ t.at = "rbcurrent"
    /\ history' = H!Promoted(history, t.hash)
    /\ Goes(t, "rbpublish")
    /\ UNCHANGED <<queue, repo, status, head, app, attempted, autoRollbacks, bounds>>

\* A variant that checks the rollback like a deployment.
RollbackPublishesShallow(t) ==
    /\ t.at = "rbpublish"
    /\ Returns(t, {HealthCheck(t, 0)})
    /\ UNCHANGED <<repo, history, status, head, app, attempted, autoRollbacks, bounds>>

RollbackPublishes(t) ==
    /\ t.at = "rbpublish"
    /\ Returns(t, {HealthCheck(t, 1)})
    /\ UNCHANGED <<repo, history, status, head, app, attempted, autoRollbacks, bounds>>

-----------------------------------------------------------------------------
(* PostDeployHealthCheck                                                   *)

\* Nothing is registered: an install-only project has no process to check.
FindNoProcess(t) ==
    /\ t.at = "mode"
    /\ app = NoCommit
    /\ Goes(t, "skip")
    /\ UNCHANGED <<queue, repo, history, status, head, app, attempted, autoRollbacks, bounds>>

\* A variant that forgets to leave "deploying".
SkipInstallOnlySilently(t) ==
    /\ t.at = "skip"
    /\ Returns(t, {})
    /\ UNCHANGED <<repo, history, status, head, app, attempted, autoRollbacks, bounds>>

SkipInstallOnly(t) ==
    /\ t.at = "skip"
    /\ status' = "installed"
    /\ Returns(t, {})
    /\ UNCHANGED <<repo, history, head, app, attempted, autoRollbacks, bounds>>

\* Something is registered: sleep 15 seconds.
WaitToStabilise(t) ==
    /\ t.at = "mode"
    /\ app # NoCommit
    /\ Goes(t, "probe")
    /\ UNCHANGED <<queue, repo, history, status, head, app, attempted, autoRollbacks, bounds>>

\* The check judges whatever is running by now.  When nothing is registered
\* any more, health.sh fails; without a health.sh GetProcessStatus believes
\* the status column.
HealthPasses(t) ==
    /\ t.at = "probe"
    /\ app \in Healthy \/ (app = NoCommit /\ status = "running")
    /\ Goes(t, "promote")
    /\ UNCHANGED <<queue, repo, history, status, head, app, attempted, autoRollbacks, bounds>>

HealthFails(t) ==
    /\ t.at = "probe"
    /\ app \notin Healthy
    /\ Goes(t, "unwell")
    /\ UNCHANGED <<queue, repo, history, status, head, app, attempted, autoRollbacks, bounds>>

Promote(t) ==
    /\ t.at = "promote"
    /\ history' = H!Promoted(history, t.hash)
    /\ Goes(t, "running")
    /\ UNCHANGED <<queue, repo, status, head, app, attempted, autoRollbacks, bounds>>

MarkRunning(t) ==
    /\ t.at = "running"
    /\ status' = "running"
    /\ Returns(t, {})
    /\ UNCHANGED <<repo, history, head, app, attempted, autoRollbacks, bounds>>

MarkFailed(t) ==
    /\ t.at = "unwell"
    /\ status' = "failed"
    /\ Goes(t, "prev")
    /\ UNCHANGED <<queue, repo, history, head, app, attempted, autoRollbacks, bounds>>

-----------------------------------------------------------------------------
(* POST /projects/:id/stop, and restarts of the orchestrator               *)

\* The handler stops the application ...
StopByHand ==
    /\ stops < MaxStops
    /\ stops' = stops + 1
    /\ ~ \E t \in threads : t.fn = "stop"
    /\ app' = NoCommit
    /\ threads' = threads \cup
          {[root |-> 1, fn |-> "stop", at |-> "idle", hash |-> NoCommit, depth |-> 0]}
    /\ UNCHANGED <<queue, repo, history, status, head, attempted, autoRollbacks,
                   rollbacks, manuals, crashes>>

\* ... and then sets the status.
StopSetsIdle(t) ==
    /\ t.at = "idle"
    /\ status' = "idle"
    /\ Returns(t, {})
    /\ UNCHANGED <<repo, history, head, app, attempted, autoRollbacks, bounds>>

\* The orchestrator dies, also by a panic of a goroutine that nobody recovers,
\* such as that of a rollback to a hash of less than eight characters: the
\* queue, the goroutines and the process registry are in memory, systemd kills
\* the applications with it, and webhooks sent meanwhile may be lost.  The
\* database and the checkout survive.
Crash ==
    /\ crashes < MaxCrashes
    /\ crashes' = crashes + 1
    /\ isRunning' = [isRunning EXCEPT ![Project] = FALSE]
    /\ pending' = [pending EXCEPT ![Project] = None]
    /\ workers' = {}
    /\ taken' = accepted /\ finished' = accepted
    /\ threads' = {}
    /\ app' = NoCommit
    /\ hooks' \in SUBSET hooks
    /\ booting' = TRUE
    /\ UNCHANGED <<accepted, panics, asked, tip, history, status, head, attempted,
                   autoRollbacks, rollbacks, stops, manuals>>

\* A variant that restarts without redeploying the fleet.
BootOnly ==
    /\ booting
    /\ booting' = FALSE
    /\ UNCHANGED <<queue, asked, tip, hooks, history, status, head, app, threads,
                   attempted, autoRollbacks, bounds>>

\* Fleet resurrection: main enqueues every project, for the branch tip.
Resurrect ==
    /\ booting
    /\ booting' = FALSE
    /\ Request(NoCommit)
    /\ UNCHANGED <<tip, hooks, history, status, head, app, threads, attempted,
                   autoRollbacks, bounds>>

-----------------------------------------------------------------------------

WorkerStep == \E w \in workers : BeginDeploy(w) \/ PopPending(w) \/ GoIdle(w)

ThreadStep(t) ==
    \/ SyncSucceeds(t) \/ SyncFails(t) \/ DetectCommit(t) \/ RecordCommit(t)
    \/ InstallSucceeds(t) \/ InstallFails(t)
    \/ StartNothing(t) \/ StartStopsOld(t) \/ StartSucceeds(t) \/ StartFails(t)
    \/ Publish(t)
    \/ RollBackAutomatically(t) \/ GiveUp(t)
    \/ RollbackBegins(t) \/ RollbackStops(t) \/ RollbackChecksOut(t)
    \/ RollbackMarks(t) \/ RollbackSetsCurrent(t) \/ RollbackPublishes(t)
    \/ FindNoProcess(t) \/ SkipInstallOnly(t) \/ WaitToStabilise(t)
    \/ HealthPasses(t) \/ HealthFails(t)
    \/ Promote(t) \/ MarkRunning(t) \/ MarkFailed(t)
    \/ StopSetsIdle(t)

\* What the orchestrator does by itself, once a request is there.
Progress ==
    \/ WorkerStep
    \/ \E t \in threads : ThreadStep(t)
    \/ \E c \in hooks : Webhook(c)
    \/ Resurrect

Next ==
    \/ Progress
    \/ Push \/ ManualDeploy \/ StopByHand \/ Crash
    \/ \E c \in Commits : RollbackByHand(c)

Spec == Init /\ [][Next]_vars

\* Goroutines are scheduled and their commands are under timeouts: something
\* that can make progress eventually does.  No fairness for a single
\* goroutine is needed, nor any for pushes, operators and crashes.
FairSpec == Spec /\ WF_vars(Progress)

-----------------------------------------------------------------------------
(* Properties                                                              *)

\* The values the variables can hold (executor.go:505-761).
TypeOK ==
    /\ Q!TypeOK /\ H!HistoryTypeOK
    /\ asked \in Seq(Commits \cup {NoCommit}) /\ Len(asked) = accepted[Project]
    /\ tip \in Commits /\ hooks \subseteq Commits /\ booting \in BOOLEAN
    /\ status \in {"idle", "deploying", "running", "installed", "failed"}
    /\ head \in 0 .. tip /\ app \in 0 .. tip /\ attempted \in 0 .. tip
    /\ threads \subseteq Thread
    /\ autoRollbacks \in [Roots -> Nat]

\* "depth parameter prevents infinite rollback loops" (executor.go:578): a
\* deployment leads to one automatic rollback at most, and a rollback asked
\* for by hand to none, whatever else is deployed meanwhile.
RollbackChainsAreShort ==
    \A r \in Roots : autoRollbacks[r] <= IF r <= MaxRequests THEN 1 ELSE 0

\* The status never stays "deploying" (executor.go:517, 716): some function
\* that is still running or still to run will write the outcome.
DeployingIsResolved == (status = "deploying") ~> (status # "deploying")

\* The queue is given deployFn that returns: in this composition the queue
\* keeps its specification, fairness included (queue.go:76).
QueueKeepsItsSpec == Q!FairSpec

\* A commit that was pushed, or a newer one, is eventually deployed or at
\* least tried, also across restarts (main.go:135-155), as long as webhooks
\* arrive in the order of the pushes.
PushedCommitsAreTried == \A c \in 2 .. MaxCommits : (tip >= c) ~> (attempted >= c)

=============================================================================
