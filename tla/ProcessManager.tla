---------------------------- MODULE ProcessManager ----------------------------
(***************************************************************************)
(* The life of the application of one project, actions/pm.go: the process  *)
(* registry, StartAppProcess, StopAppProcess and the watchdog goroutines.  *)
(*                                                                         *)
(* An instance is a ManagedProcess with the processes that its run.sh led  *)
(* to; instances are numbered in the order of their cmd.Start, which makes *)
(* the comparison of pointers in isCurrentProcess one of numbers.  A call  *)
(* is a goroutine inside StartAppProcess or StopAppProcess: a deployment   *)
(* or a rollback, an operator, or a watchdog that restarts.  Every access  *)
(* to the registry, to app.pid or to the processes is an action.           *)
(*                                                                         *)
(* Left out: time (a sleep ends at any moment), process numbers being      *)
(* reused, processes that ignore SIGTERM, and the stable-run reset of      *)
(* RestartCount, which is 0 whenever it would be reset.                    *)
(***************************************************************************)
EXTENDS Naturals, Sequences

CONSTANTS
    Scripts,     \* what run.sh may do, see Kind; "missing": there is none
    HealthFiles, \* whether a look for health.sh may find it: a set of Booleans
    MayFail,     \* whether a start may fail: no codebase, no user, no process
    MaxRestarts, \* maxRestarts (pm.go:63)
    MaxStarts,   \* bound: instances
    MaxDeploys,  \* bound: deployments and rollbacks that start the application
    MaxStops     \* bound: stops by an operator

\* "blocking": bash runs until it crashes or is killed; "background": it exits
\* with 0 and leaves a child in its group; "pidfile": it exits with 0, having
\* written the number of a daemon to $CICD_PID_FILE; "external": it exits with
\* 0 and leaves nothing that can be traced.
Kind == {"blocking", "background", "pidfile", "external"}

ASSUME ConstantsAssumption ==
    /\ Scripts \subseteq Kind \cup {"missing"}
    /\ HealthFiles \subseteq BOOLEAN /\ MayFail \in BOOLEAN
    /\ MaxRestarts \in Nat /\ MaxStarts \in Nat /\ MaxDeploys \in Nat /\ MaxStops \in Nat

VARIABLES
    inst,      \* the instances
    registry,  \* the registered instance, or 0
    pidFile,   \* .cicdlog/app.pid
    calls,     \* the goroutines inside StartAppProcess and StopAppProcess
    status,    \* users.deploy_status, as far as it is written here
    deploys, stops, \* used up bounds
    overlap,   \* two calls have been under way at the same time
    stale      \* a watchdog has overwritten the registration of another instance

vars == <<inst, registry, pidFile, calls, status, deploys, stops, overlap, stale>>

-----------------------------------------------------------------------------

\* Process numbers: the bash of an instance or its child.
NoPID == <<0, "none">>
Bash(i) == <<i, "bash">>
Child(i) == <<i, "child">>
PID == {NoPID} \cup {<<i, w>> : i \in 1 .. MaxStarts, w \in {"bash", "child"}}

isProcessAlive(pid) ==
    /\ pid # NoPID
    /\ IF pid[2] = "bash" THEN inst[pid[1]].bash = "up" ELSE inst[pid[1]].child

\* bash: "up", or how it exited; mode and ext: Mode and ExtPID; watch: where
\* the watchdog is, "stranded" and "failed" if its restart found no codebase or
\* failed later; parent: the instance whose watchdog started this one, or 0.
Instance ==
    [kind     : Kind,
     bash     : {"up", "zero", "nonzero"},
     child    : BOOLEAN,
     mode     : {"blocking", "background", "delegating"},
     ext      : PID,
     watch    : {"unborn", "wait", "settle", "adopt", "forget", "watch", "lost", "report",
                 "backoff", "restarting", "stranded", "failed", "done"},
     restarts : Nat,
     parent   : 0 .. MaxStarts]

NewInstance(k, parent) ==
    [kind |-> k, bash |-> "up", child |-> FALSE, mode |-> "blocking", ext |-> NoPID,
     watch |-> "unborn", restarts |-> 0, parent |-> parent]

\* id tells the calls of deployments and operators apart; by is the instance
\* whose watchdog calls, or 0; of is the old, later the new instance.
Call ==
    [id : 0 .. (MaxDeploys + MaxStops), by : 0 .. MaxStarts, fn : {"start", "stop"},
     at : {"load", "delete", "kill", "fallback", "remove", "launch", "store", "write", "idle"},
     of : 0 .. MaxStarts]

isCurrentProcess(i) == registry = i

Watches(i, w) == inst' = [inst EXCEPT ![i].watch = w]

Goes(c, at) == calls' = (calls \ {c}) \cup {[c EXCEPT !.at = at]}

\* The call returns; that of a watchdog ends the watchdog, at w.
EndsAt(c, insts, w) ==
    /\ calls' = calls \ {c}
    /\ inst' = IF c.by = 0 THEN insts ELSE [insts EXCEPT ![c.by].watch = w]

Ends(c, insts) == EndsAt(c, insts, "done")

Enters(c) ==
    /\ calls' = calls \cup {c}
    /\ overlap' = (overlap \/ calls # {})

Init ==
    /\ inst = <<>>
    /\ registry = 0
    /\ pidFile = NoPID
    /\ calls = {}
    /\ status = "idle"
    /\ deploys = 0 /\ stops = 0
    /\ overlap = FALSE /\ stale = FALSE

-----------------------------------------------------------------------------
(* Who calls: deployments, rollbacks and operators.                        *)

Deploy ==
    /\ deploys < MaxDeploys
    /\ deploys' = deploys + 1
    /\ status' = "deploying"
    /\ Enters([id |-> deploys' + stops, by |-> 0, fn |-> "start", at |-> "load", of |-> 0])
    /\ UNCHANGED <<inst, registry, pidFile, stops, stale>>

Stop ==
    /\ stops < MaxStops
    /\ stops' = stops + 1
    /\ Enters([id |-> deploys + stops', by |-> 0, fn |-> "stop", at |-> "load", of |-> 0])
    /\ UNCHANGED <<inst, registry, pidFile, status, deploys, stale>>

-----------------------------------------------------------------------------
(* StopAppProcess, alone or at the start of StartAppProcess                *)

\* The codebase is missing, as while SyncRepo clones anew: StartAppProcess
\* returns before it looks at the old application, which stays registered.
StartMissing(c) ==
    /\ c.at = "load" /\ c.fn = "start"
    /\ MayFail
    /\ EndsAt(c, inst, "stranded")
    /\ UNCHANGED <<registry, pidFile, status, deploys, stops, overlap, stale>>

\* Without run.sh StartAppProcess only forgets what is registered.
StartNothing(c) ==
    /\ c.at = "load" /\ c.fn = "start"
    /\ "missing" \in Scripts
    /\ registry' = 0
    /\ Ends(c, inst)
    /\ UNCHANGED <<pidFile, status, deploys, stops, overlap, stale>>

LoadOld(c) ==
    /\ c.at = "load"
    /\ calls' = (calls \ {c}) \cup
          {[c EXCEPT !.of = registry, !.at = IF registry = 0 THEN "fallback" ELSE "delete"]}
    /\ UNCHANGED <<inst, registry, pidFile, status, deploys, stops, overlap, stale>>

DeleteOld(c) ==
    /\ c.at = "delete"
    /\ registry' = 0
    /\ Goes(c, "kill")
    /\ UNCHANGED <<inst, pidFile, status, deploys, stops, overlap, stale>>

\* A signal comes before the kill, so how it exits is up to the process.
Killed(pid, how) ==
    IF ~isProcessAlive(pid) THEN inst
    ELSE IF pid[2] = "bash" THEN [inst EXCEPT ![pid[1]].bash = how]
    ELSE [inst EXCEPT ![pid[1]].child = FALSE]

\* killProcessGroup looks the group up by the number of its leader, which
\* fails once the watchdog has reaped the leader.
GroupKilled(i, how) ==
    IF inst[i].watch \notin {"unborn", "wait"} THEN inst
    ELSE [inst EXCEPT ![i].bash = IF @ = "up" THEN how ELSE @,
                      ![i].child = @ /\ inst[i].kind # "background"]

\* A variant that kills nothing.
LeaveOldRunning(c) ==
    /\ c.at = "kill"
    /\ Goes(c, "remove")
    /\ UNCHANGED <<inst, registry, pidFile, status, deploys, stops, overlap, stale>>

KillOld(c) ==
    /\ c.at = "kill"
    /\ \E how \in {"zero", "nonzero"} :
          inst' = IF inst[c.of].mode = "delegating" THEN Killed(inst[c.of].ext, how)
                  ELSE GroupKilled(c.of, how)
    /\ Goes(c, "remove")
    /\ UNCHANGED <<registry, pidFile, status, deploys, stops, overlap, stale>>

\* Nothing is registered: the process in app.pid is killed, if it lives.
KillByPIDFile(c) ==
    /\ c.at = "fallback"
    /\ \E how \in {"zero", "nonzero"} : inst' = Killed(pidFile, how)
    /\ Goes(c, "remove")
    /\ UNCHANGED <<registry, pidFile, status, deploys, stops, overlap, stale>>

RemovePIDFile(c) ==
    /\ c.at = "remove"
    /\ pidFile' = NoPID
    /\ Goes(c, IF c.fn = "stop" THEN "idle" ELSE "launch")
    /\ UNCHANGED <<inst, registry, status, deploys, stops, overlap, stale>>

\* The handler of a stop sets the status.
SetIdle(c) ==
    /\ c.at = "idle"
    /\ status' = "idle"
    /\ Ends(c, inst)
    /\ UNCHANGED <<registry, pidFile, deploys, stops, overlap, stale>>

-----------------------------------------------------------------------------
(* The rest of StartAppProcess                                             *)

Launch(c) ==
    /\ c.at = "launch"
    /\ Len(inst) < MaxStarts
    /\ \E k \in Scripts \ {"missing"} : inst' = Append(inst, NewInstance(k, c.by))
    /\ calls' = (calls \ {c}) \cup {[c EXCEPT !.at = "store", !.of = Len(inst')]}
    /\ UNCHANGED <<registry, pidFile, status, deploys, stops, overlap, stale>>

LaunchFails(c) ==
    /\ c.at = "launch"
    /\ MayFail
    /\ EndsAt(c, inst, "failed")
    /\ UNCHANGED <<registry, pidFile, status, deploys, stops, overlap, stale>>

Register(c) ==
    /\ c.at = "store"
    /\ registry' = c.of
    /\ Goes(c, "write")
    /\ UNCHANGED <<inst, pidFile, status, deploys, stops, overlap, stale>>

\* A variant that forgets the watchdog.
StartUnwatched(c) ==
    /\ c.at = "write"
    /\ pidFile' = Bash(c.of)
    /\ Ends(c, [inst EXCEPT ![c.of].watch = "done"])
    /\ UNCHANGED <<registry, status, deploys, stops, overlap, stale>>

\* writePIDFile, and the watchdog is started.
StartWatching(c) ==
    /\ c.at = "write"
    /\ pidFile' = Bash(c.of)
    /\ Ends(c, [inst EXCEPT ![c.of].watch = "wait"])
    /\ UNCHANGED <<registry, status, deploys, stops, overlap, stale>>

-----------------------------------------------------------------------------
(* What the application does by itself                                     *)

Crash(i) ==
    /\ inst[i].bash = "up" /\ inst[i].kind = "blocking"
    /\ inst' = [inst EXCEPT ![i].bash = "nonzero"]
    /\ UNCHANGED <<registry, pidFile, calls, status, deploys, stops, overlap, stale>>

Daemonise(i) ==
    /\ inst[i].bash = "up" /\ inst[i].kind \in {"background", "pidfile"}
    /\ ~inst[i].child
    /\ inst' = [inst EXCEPT ![i].child = TRUE]
    /\ pidFile' = IF inst[i].kind = "pidfile" THEN Child(i) ELSE pidFile
    /\ UNCHANGED <<registry, calls, status, deploys, stops, overlap, stale>>

ExitZero(i) ==
    /\ inst[i].bash = "up"
    /\ inst[i].child \/ inst[i].kind = "external"
    /\ inst' = [inst EXCEPT ![i].bash = "zero"]
    /\ UNCHANGED <<registry, pidFile, calls, status, deploys, stops, overlap, stale>>

ChildDies(i) ==
    /\ inst[i].child /\ inst[i].bash # "up"
    /\ inst' = [inst EXCEPT ![i].child = FALSE]
    /\ UNCHANGED <<registry, pidFile, calls, status, deploys, stops, overlap, stale>>

-----------------------------------------------------------------------------
(* monitorProcess                                                          *)

\* restartWithBackoff up to its sleep.
BacksOff(i) ==
    inst' = [inst EXCEPT ![i].restarts = @ + 1,
                         ![i].watch = IF inst[i].restarts + 1 > MaxRestarts THEN "done"
                                      ELSE "backoff"]

\* A variant that takes every exit for a stop.
SeeCrashQuietly(i) ==
    /\ inst[i].watch = "wait" /\ inst[i].bash = "nonzero"
    /\ isCurrentProcess(i)
    /\ Watches(i, "done")
    /\ UNCHANGED <<registry, pidFile, calls, status, deploys, stops, overlap, stale>>

SeeCrash(i) ==
    /\ inst[i].watch = "wait" /\ inst[i].bash = "nonzero"
    /\ isCurrentProcess(i)
    /\ BacksOff(i)
    /\ UNCHANGED <<registry, pidFile, calls, status, deploys, stops, overlap, stale>>

\* A newer deployment or a stop has replaced this instance.
SeeSuperseded(i) ==
    /\ inst[i].watch = "wait" /\ inst[i].bash = "nonzero"
    /\ ~isCurrentProcess(i)
    /\ Watches(i, "done")
    /\ UNCHANGED <<registry, pidFile, calls, status, deploys, stops, overlap, stale>>

\* Sleep a second, for forks to settle.
SeeExitZero(i) ==
    /\ inst[i].watch = "wait" /\ inst[i].bash = "zero"
    /\ Watches(i, "settle")
    /\ UNCHANGED <<registry, pidFile, calls, status, deploys, stops, overlap, stale>>

Delegates(i) ==
    pidFile # Bash(i) /\ isProcessAlive(pidFile) /\ isCurrentProcess(i)

\* getChildrenInGroup
GroupLives(i) == inst[i].kind = "background" /\ inst[i].child

FindTier3(i) ==
    /\ inst[i].watch = "settle"
    /\ Delegates(i)
    /\ inst' = [inst EXCEPT ![i].mode = "delegating", ![i].ext = pidFile, ![i].watch = "adopt"]
    /\ UNCHANGED <<registry, pidFile, calls, status, deploys, stops, overlap, stale>>

\* A variant with a mode that no switch knows.
FindTier2Misnamed(i) ==
    /\ inst[i].watch = "settle"
    /\ ~Delegates(i)
    /\ GroupLives(i) /\ isCurrentProcess(i)
    /\ inst' = [inst EXCEPT ![i].mode = "tier2", ![i].watch = "adopt"]
    /\ pidFile' = Child(i)
    /\ UNCHANGED <<registry, calls, status, deploys, stops, overlap, stale>>

FindTier2(i) ==
    /\ inst[i].watch = "settle"
    /\ ~Delegates(i)
    /\ GroupLives(i) /\ isCurrentProcess(i)
    /\ inst' = [inst EXCEPT ![i].mode = "background", ![i].watch = "adopt"]
    /\ pidFile' = Child(i)
    /\ UNCHANGED <<registry, calls, status, deploys, stops, overlap, stale>>

\* Tiers 2 and 3 do not apply; the instance may have been superseded.
Untraceable(i) ==
    /\ inst[i].watch = "settle"
    /\ ~Delegates(i)
    /\ ~(GroupLives(i) /\ isCurrentProcess(i))

\* health.sh is there: watch it, whichever instance is registered by now.
FindTier4(i) ==
    /\ Untraceable(i)
    /\ TRUE \in HealthFiles
    /\ inst' = [inst EXCEPT ![i].mode = "delegating", ![i].watch = "adopt"]
    /\ UNCHANGED <<registry, pidFile, calls, status, deploys, stops, overlap, stale>>

\* The watchdog writes the registry, whichever instance is in it.
Overwrites(i) == stale' = (stale \/ registry \notin {0, i})

\* Nothing to track: app.pid is removed, then the registration.
FindNothing(i) ==
    /\ Untraceable(i)
    /\ FALSE \in HealthFiles
    /\ pidFile' = NoPID
    /\ Watches(i, "forget")
    /\ UNCHANGED <<registry, calls, status, deploys, stops, overlap, stale>>

Forget(i) ==
    /\ inst[i].watch = "forget"
    /\ registry' = 0
    /\ Overwrites(i)
    /\ Watches(i, "done")
    /\ UNCHANGED <<pidFile, calls, status, deploys, stops, overlap>>

\* registry.Store, and the watcher of the tier is started.
Adopt(i) ==
    /\ inst[i].watch = "adopt"
    /\ registry' = i
    /\ Overwrites(i)
    /\ Watches(i, "watch")
    /\ UNCHANGED <<pidFile, calls, status, deploys, stops, overlap>>

-----------------------------------------------------------------------------
(* watchSinglePID, watchProcessGroup, watchHealthScript                    *)

\* A variant of the next action that never looks whether it is superseded.
WatchForever(i) ==
    /\ inst[i].watch = "watch"
    /\ ~isCurrentProcess(i)
    /\ UNCHANGED vars

WatchSuperseded(i) ==
    /\ inst[i].watch = "watch"
    /\ ~isCurrentProcess(i)
    /\ Watches(i, "done")
    /\ UNCHANGED <<registry, pidFile, calls, status, deploys, stops, overlap, stale>>

\* Without a process to look at, the watcher runs health.sh.
WatchesHealth(i) == inst[i].mode = "delegating" /\ inst[i].ext = NoPID

Lost(i) ==
    IF inst[i].mode = "background" THEN ~GroupLives(i) ELSE ~isProcessAlive(inst[i].ext)

WatchLost(i) ==
    /\ inst[i].watch = "watch"
    /\ isCurrentProcess(i)
    /\ ~WatchesHealth(i) /\ Lost(i)
    /\ Watches(i, "lost")
    /\ UNCHANGED <<registry, pidFile, calls, status, deploys, stops, overlap, stale>>

\* health.sh fails, or takes more than ten seconds.
HealthScriptFails(i) ==
    /\ inst[i].watch = "watch"
    /\ isCurrentProcess(i)
    /\ WatchesHealth(i)
    /\ Watches(i, "lost")
    /\ UNCHANGED <<registry, pidFile, calls, status, deploys, stops, overlap, stale>>

\* The watcher deletes the registration; that of health.sh then writes the
\* status.  Both end in restartWithBackoff.
Deregister(i) ==
    /\ inst[i].watch = "lost"
    /\ registry' = 0
    /\ Overwrites(i)
    /\ IF WatchesHealth(i) THEN Watches(i, "report") ELSE BacksOff(i)
    /\ UNCHANGED <<pidFile, calls, status, deploys, stops, overlap>>

ReportFailed(i) ==
    /\ inst[i].watch = "report"
    /\ status' = "failed"
    /\ BacksOff(i)
    /\ UNCHANGED <<registry, pidFile, calls, deploys, stops, overlap, stale>>

-----------------------------------------------------------------------------
(* restartWithBackoff after its sleep                                      *)

\* A variant that restarts and keeps on watching.
RestartAndStay(i) ==
    /\ inst[i].watch = "backoff"
    /\ isCurrentProcess(i)
    /\ Enters([id |-> 0, by |-> i, fn |-> "start", at |-> "load", of |-> 0])
    /\ UNCHANGED <<inst, registry, pidFile, status, deploys, stops, stale>>

Restart(i) ==
    /\ inst[i].watch = "backoff"
    /\ isCurrentProcess(i)
    /\ Watches(i, "restarting")
    /\ Enters([id |-> 0, by |-> i, fn |-> "start", at |-> "load", of |-> 0])
    /\ UNCHANGED <<registry, pidFile, status, deploys, stops, stale>>

DoNotRestart(i) ==
    /\ inst[i].watch = "backoff"
    /\ ~isCurrentProcess(i)
    /\ Watches(i, "done")
    /\ UNCHANGED <<registry, pidFile, calls, status, deploys, stops, overlap, stale>>

-----------------------------------------------------------------------------

CallStep(c) ==
    \/ StartMissing(c) \/ StartNothing(c) \/ LoadOld(c) \/ DeleteOld(c) \/ KillOld(c)
    \/ KillByPIDFile(c) \/ RemovePIDFile(c) \/ SetIdle(c)
    \/ Launch(c) \/ LaunchFails(c) \/ Register(c) \/ StartWatching(c)

WatchStep(i) ==
    \/ SeeCrash(i) \/ SeeSuperseded(i) \/ SeeExitZero(i)
    \/ FindTier3(i) \/ FindTier2(i) \/ FindTier4(i) \/ FindNothing(i) \/ Forget(i) \/ Adopt(i)
    \/ WatchSuperseded(i) \/ WatchLost(i) \/ Deregister(i) \/ ReportFailed(i)
    \/ Restart(i) \/ DoNotRestart(i)

AppStep(i) ==
    Crash(i) \/ Daemonise(i) \/ ExitZero(i) \/ ChildDies(i) \/ HealthScriptFails(i)

Next ==
    \/ Deploy \/ Stop
    \/ \E c \in calls : CallStep(c)
    \/ \E i \in DOMAIN inst : WatchStep(i) \/ AppStep(i)

Spec == Init /\ [][Next]_vars

\* Goroutines are scheduled and their sleeps end.  Nothing is assumed of the
\* application, of deployments or of operators.
FairSpec ==
    /\ Spec
    /\ WF_vars(\E c \in calls : CallStep(c))
    /\ \A i \in 1 .. MaxStarts : WF_vars(i \in DOMAIN inst /\ WatchStep(i))

-----------------------------------------------------------------------------
(* Properties                                                              *)

\* The variables hold what their Go declarations allow (pm.go:37-46).
TypeOK ==
    /\ inst \in Seq(Instance) /\ Len(inst) <= MaxStarts
    /\ registry \in 0 .. Len(inst)
    /\ pidFile \in PID
    /\ calls \subseteq Call
    /\ status \in {"idle", "deploying", "failed"}
    /\ deploys \in 0 .. MaxDeploys /\ stops \in 0 .. MaxStops
    /\ overlap \in BOOLEAN /\ stale \in BOOLEAN

\* What is registered is looked after (pm.go:162-167, 222-398): its watchdog
\* is there, about to start, or about to replace it, whatever deployments,
\* stops and other watchdogs do to the registry meanwhile.  The one exception
\* is a watchdog whose restart found no codebase: it ends and leaves its dead
\* instance registered ("stranded", pm.go:69-71, 426-428).
RegisteredIsWatched == registry # 0 => inst[registry].watch \notin {"failed", "done"}

\* A crash is answered by one restart (pm.go:242-252, 401-429): two
\* instances never come from the watchdog of the same one.
OneRestartPerInstance ==
    \A i, j \in DOMAIN inst :
        inst[i].parent # 0 /\ inst[i].parent = inst[j].parent => i = j

IsAt(i, w) == i \in DOMAIN inst /\ inst[i].watch = w

\* The watcher of an instance that was replaced comes to its end (pm.go:321,
\* 345, 380), so that redeploying does not pile up goroutines.
SupersededWatchersEnd ==
    \A i \in 1 .. MaxStarts : (IsAt(i, "watch") /\ registry # i) ~> IsAt(i, "done")

\* A call of somebody else is about to delete what is registered.
BeingReplaced(i) == \E c \in calls : c.at = "delete" /\ c.by # i

\* A foreground application that crashes while it is registered is started
\* again (pm.go:242-252, 401-429), unless another call replaces or stops it.
\* A restart that fails is not tried again, and a watchdog whose registration
\* was overwritten by an older one does not restart: both are excepted.
CrashIsAnswered ==
    \A i \in 1 .. (MaxStarts - 1) :
        (i \in DOMAIN inst /\ registry = i /\ inst[i].bash = "nonzero")
            ~> \/ Len(inst) > i \/ registry \notin {0, i} \/ BeingReplaced(i)
               \/ IsAt(i, "stranded") \/ IsAt(i, "failed")
               \/ stale

\* A foreground application that runs without being registered, so that
\* nothing will stop or restart it, stems from two calls that overlapped or
\* from a watchdog that overwrote the registration of a newer instance: apart
\* from that, calls one after the other leave none (pm.go:78-103, 174-219).
OrphansHaveCause ==
    Scripts = {"blocking"} /\ ~overlap /\ ~stale /\ calls = {}
        => \A i \in DOMAIN inst : inst[i].bash = "up" => registry = i

-----------------------------------------------------------------------------
(* What the documentation says and the code does not keep                  *)

\* "External process PID died. Triggering restart..." (pm.go:332), and "starts
\* crash backoff recovery" (docs/architecture.html:142): once a watcher has
\* seen that its application is gone, another instance is started.
LostIsRestarted ==
    \A i \in 1 .. (MaxStarts - 1) : IsAt(i, "lost") ~> (Len(inst) > i \/ stops > 0)

=============================================================================
