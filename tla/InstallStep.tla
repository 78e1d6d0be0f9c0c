------------------------------ MODULE InstallStep ------------------------------
(***************************************************************************)
(* The install phase of RunDeployment (actions/executor.go:347-487): the   *)
(* cache install.hash, the temporary sudoers file, the patched copy of     *)
(* install.sh and its run, for several projects that may share a service   *)
(* user.  Deployments of a project come one at a time from its queue;      *)
(* rollbacks are goroutines beside it.                                     *)
(*                                                                         *)
(* A hash is represented by the script it is the hash of.  Every access to *)
(* a shared file is an action, and so is every line of a running script,   *)
(* since sudo looks at the sudoers file when it is called.                 *)
(*                                                                         *)
(* Left out: the askpass helpers (they matter to sudo only where no        *)
(* sudoers entry is), the log, the health of what is started, that bash    *)
(* reads a long script piece by piece, and errors of the file system other *)
(* than those of the sudoers file.                                         *)
(***************************************************************************)
EXTENDS ScriptPatcher, FiniteSets

CONSTANTS
    Projects,     \* service directories
    Users,        \* service users
    Owner,        \* Owner[p]: the service user of project p
    Scripts,      \* the contents install.sh may have
    NoScript,     \* no such file; also the content of no file
    MayFail,      \* whether the sudoers file may fail to be written
    MaxThreads,   \* bound: deployments and rollbacks
    MaxAtOnce,    \* bound: those under way at the same time
    MaxEvents     \* bound: rollbacks, forced reinstalls and crashes together

ASSUME InstallAssumption ==
    /\ Owner \in [Projects -> Users]
    /\ Scripts \subseteq Seq(Line) /\ NoScript \notin Seq(Line)
    /\ MayFail \in BOOLEAN
    /\ MaxThreads \in Nat /\ MaxAtOnce \in Nat /\ MaxEvents \in Nat

Contents == Scripts \cup {NoScript}

VARIABLES
    checkout,  \* checkout[p]: install.sh in codebase/.cicd
    hash,      \* hash[p]: what .cicdlog/install.hash is the hash of
    patched,   \* patched[p]: .cicdlog/install_patched.sh
    sudoers,   \* users with a file in /etc/sudoers.d
    threads,   \* goroutines inside SyncRepo, RunDeployment or RollbackToCommit
    strays,    \* projects where processes go on whose thread has ended
    started, events, \* used up bounds
    env,       \* history: the script that left the environment as it is
    doubt,     \* history: projects whose install.hash may be out of date
    left       \* history: users whose sudoers file a crash has left behind

files == <<checkout, hash, patched, sudoers>>
bounds == <<started, events>>
vars == <<files, threads, strays, bounds, env, doubt, left>>

-----------------------------------------------------------------------------

\* read: the script whose hash the thread has read, if it installs; file: what
\* bash is given; code, line: the running script and its next line; status: of
\* its last command; clean: all of its commands have succeeded; granted: the
\* deferred removal of the sudoers file is registered; alone: no other thread,
\* and no stray, has worked on the project since this one has; sole: nor had
\* another the sudoers file of the user while this one had it.
Thread ==
    [id      : 1 .. MaxThreads,
     prj     : Projects,
     fn      : {"deploy", "rollback"},
     at      : {"clone", "compare", "wipe", "unhash", "decide", "grant", "patch", "open",
                "run", "record", "start", "clean", "revoke"},
     read    : Contents,
     file    : {"none", "original", "patched"},
     code    : {patchShellScript(s) : s \in Scripts} \cup Contents,
     line    : Nat,
     status  : BOOLEAN, clean : BOOLEAN,
     granted : BOOLEAN, alone : BOOLEAN, sole : BOOLEAN]

Counts == events < MaxEvents /\ events' = events + 1

Becomes(t, u) == threads' = (threads \ {t}) \cup {u}
Goes(t, at) == Becomes(t, [t EXCEPT !.at = at])

OthersIn(p) == {t \in threads : t.prj = p}

Undisturbed(p) == OthersIn(p) = {} /\ p \notin strays

\* A goroutine starts work on project p.
Starts(p, f, at) ==
    /\ started < MaxThreads /\ Cardinality(threads) < MaxAtOnce
    /\ started' = started + 1
    /\ threads' =
          {[t EXCEPT !.alone = @ /\ t.prj # p] : t \in threads} \cup
          {[id |-> started + 1, prj |-> p, fn |-> f, at |-> at, read |-> NoScript,
            file |-> "none", code |-> NoScript, line |-> 0, status |-> TRUE,
            clean |-> TRUE, granted |-> FALSE, alone |-> Undisturbed(p), sole |-> TRUE]}
    /\ doubt' = IF Undisturbed(p) /\ at # "clone" THEN doubt ELSE doubt \cup {p}

\* A thread that registered the removal of the sudoers file and is not there yet.
Holds(t) == t.granted
Holders(u) == {t \in threads : Holds(t) /\ Owner[t.prj] = u}

Init ==
    /\ checkout = [p \in Projects |-> NoScript]
    /\ hash = [p \in Projects |-> NoScript]
    /\ patched = [p \in Projects |-> NoScript]
    /\ sudoers = {} /\ threads = {} /\ strays = {}
    /\ started = 0 /\ events = 0
    /\ env = [p \in Projects |-> NoScript]
    /\ doubt = {} /\ left = {}

-----------------------------------------------------------------------------
(* Who calls RunDeployment                                                 *)

\* The queue runs one deployment of a project at a time.
NoDeployment(p) == \A t \in OthersIn(p) : t.fn # "deploy"

\* A deployment whose synchronisation resets the repository to some commit.
Deploy(p) ==
    /\ NoDeployment(p)
    /\ Starts(p, "deploy", "decide")
    /\ \E s \in Contents : checkout' = [checkout EXCEPT ![p] = s]
    /\ UNCHANGED <<hash, patched, sudoers, strays, events, env, left>>

\* One that finds no codebase/.git, since somebody has removed it: SyncRepo
\* removes the rest before it clones, and install.hash stays.
DeployAnew(p) ==
    /\ NoDeployment(p)
    /\ Counts
    /\ Starts(p, "deploy", "clone")
    /\ checkout' = [checkout EXCEPT ![p] = NoScript]
    /\ env' = [env EXCEPT ![p] = NoScript]
    /\ UNCHANGED <<hash, patched, sudoers, strays, left>>

Clone(t) ==
    /\ t.at = "clone"
    /\ \E s \in Contents : checkout' = [checkout EXCEPT ![t.prj] = s]
    /\ Goes(t, "decide")
    /\ UNCHANGED <<hash, patched, sudoers, bounds, strays, env, doubt, left>>

CloneFails(t) ==
    /\ t.at = "clone"
    /\ threads' = threads \ {t}
    /\ UNCHANGED <<files, bounds, strays, env, doubt, left>>

\* RollbackToCommit up to its git checkout, whose error is ignored.
Rollback(p) ==
    /\ Counts
    /\ Starts(p, "rollback", "compare")
    /\ \E s \in Contents : checkout' = [checkout EXCEPT ![p] = s]
    /\ UNCHANGED <<hash, patched, sudoers, strays, env, left>>

\* "Only clean if install.sh differs."
RollbackCompares(t) ==
    /\ t.at = "compare"
    /\ Goes(t, IF hash[t.prj] = checkout[t.prj] THEN "decide" ELSE "wipe")
    /\ UNCHANGED <<files, bounds, strays, env, doubt, left>>

\* git clean -fdx
RollbackCleans(t) ==
    /\ t.at = "wipe"
    /\ env' = [env EXCEPT ![t.prj] = NoScript]
    /\ Goes(t, "unhash")
    /\ UNCHANGED <<files, bounds, strays, doubt, left>>

\* A variant that keeps the hash.
RollbackKeepsHash(t) ==
    /\ t.at = "unhash"
    /\ Goes(t, "decide")
    /\ UNCHANGED <<files, bounds, strays, env, doubt, left>>

\* "Force reinstall."
RollbackForgets(t) ==
    /\ t.at = "unhash"
    /\ hash' = [hash EXCEPT ![t.prj] = NoScript]
    /\ Goes(t, "decide")
    /\ UNCHANGED <<checkout, patched, sudoers, bounds, strays, env, doubt, left>>

\* POST /projects/:id/reinstall, and cicd reinstall.
Reinstall(p) ==
    /\ Counts
    /\ hash' = [hash EXCEPT ![p] = NoScript]
    /\ UNCHANGED <<checkout, patched, sudoers, threads, strays, started, env, doubt, left>>

-----------------------------------------------------------------------------
(* RunDeployment up to the start of bash                                   *)

NoInstall(t) ==
    /\ t.at = "decide"
    /\ checkout[t.prj] = NoScript
    /\ Goes(t, "start")
    /\ UNCHANGED <<files, bounds, strays, env, doubt, left>>

SkipInstall(t) ==
    /\ t.at = "decide"
    /\ checkout[t.prj] # NoScript
    /\ hash[t.prj] = checkout[t.prj] /\ t.fn = "deploy"
    /\ Goes(t, "start")
    /\ UNCHANGED <<files, bounds, strays, env, doubt, left>>

\* cfg.SkipInstallHash is set in rollbacks.
NeedInstall(t) ==
    /\ t.at = "decide"
    /\ checkout[t.prj] # NoScript
    /\ hash[t.prj] # checkout[t.prj] \/ t.fn = "rollback"
    /\ Becomes(t, [t EXCEPT !.read = checkout[t.prj], !.at = "grant"])
    /\ UNCHANGED <<files, bounds, strays, env, doubt, left>>

\* A variant that names the sudoers file after the service.
GrantService(t) ==
    /\ t.at = "grant"
    /\ sudoers' = sudoers \cup {t.prj}
    /\ Becomes(t, [t EXCEPT !.granted = TRUE, !.at = "patch"])
    /\ UNCHANGED <<checkout, hash, patched, bounds, strays, env, doubt, left>>

\* A variant that leaves the file unwritten.
GrantNothing(t) ==
    /\ t.at = "grant"
    /\ Becomes(t, [t EXCEPT !.granted = TRUE, !.at = "patch"])
    /\ UNCHANGED <<files, bounds, strays, env, doubt, left>>

Grant(t) ==
    LET u == Owner[t.prj] IN
    /\ t.at = "grant"
    /\ sudoers' = sudoers \cup {u}
    /\ threads' =
          {[h EXCEPT !.sole = @ /\ h \notin Holders(u)] : h \in threads \ {t}} \cup
          {[t EXCEPT !.granted = TRUE, !.sole = Holders(u) = {}, !.at = "patch"]}
    /\ UNCHANGED <<checkout, hash, patched, bounds, strays, env, doubt, left>>

\* The error is logged and the script is run all the same.
GrantFails(t) ==
    /\ t.at = "grant"
    /\ MayFail
    /\ Goes(t, "patch")
    /\ UNCHANGED <<files, bounds, strays, env, doubt, left>>

\* install.sh is read again; the copy is written if it would be different.
Patch(t) ==
    LET s == checkout[t.prj]
        differs == IF s = NoScript THEN FALSE ELSE patchShellScript(s) # s
    IN
    /\ t.at = "patch"
    /\ Becomes(t, [t EXCEPT !.file = IF differs THEN "patched" ELSE "original", !.at = "open"])
    /\ patched' = IF differs THEN [patched EXCEPT ![t.prj] = patchShellScript(s)] ELSE patched
    /\ UNCHANGED <<checkout, hash, sudoers, bounds, strays, env, doubt, left>>

-----------------------------------------------------------------------------
(* The run of install.sh                                                   *)

Given(t) == IF t.file = "patched" THEN patched[t.prj] ELSE checkout[t.prj]

OpenScript(t) ==
    /\ t.at = "open"
    /\ Given(t) # NoScript
    /\ Becomes(t, [t EXCEPT !.code = Given(t), !.line = 1, !.at = "run"])
    /\ env' = [env EXCEPT ![t.prj] = NoScript]
    /\ UNCHANGED <<files, bounds, strays, doubt, left>>

\* Another thread has removed the file meanwhile.
OpenFails(t) ==
    /\ t.at = "open"
    /\ Given(t) = NoScript
    /\ Goes(t, "clean")
    /\ UNCHANGED <<files, bounds, strays, env, doubt, left>>

Running(t) == t.at = "run" /\ t.line <= Len(t.code)

\* A line that succeeds; sudo needs the sudoers file.
LineSucceeds(t) ==
    LET l == t.code[t.line] IN
    /\ Running(t)
    /\ isSudoCommandLine(l) => Owner[t.prj] \in sudoers
    /\ Becomes(t, [t EXCEPT !.line = @ + 1,
                            !.status = @ \/ l \in Commands \cup {"errexit", "strict"}])
    /\ UNCHANGED <<files, bounds, strays, env, doubt, left>>

\* A line that fails, and bash goes on.
LineIsPassedOver(t) ==
    /\ Running(t)
    /\ t.code[t.line] \in Commands
    /\ ~InForce(t.code, t.line) \/ HidesFailure(t.code, t.line)
    /\ Becomes(t, [t EXCEPT !.line = @ + 1, !.clean = FALSE,
                            !.status = HidesFailure(t.code, t.line)])
    /\ UNCHANGED <<files, bounds, strays, env, doubt, left>>

\* What RunDeployment is left with when install.sh has failed.
Failed(t) ==
    [t EXCEPT !.code = NoScript, !.line = 0, !.status = TRUE, !.clean = TRUE, !.at = "clean"]

\* A hash that this run should have replaced, or confirms, stays behind.
Fails(t) ==
    /\ Becomes(t, Failed(t))
    /\ doubt' = doubt \cup {t.prj}
    /\ UNCHANGED <<files, bounds, strays, env, left>>

\* A line that fails under set -e.
LineStops(t) ==
    /\ Running(t)
    /\ t.code[t.line] \in Commands
    /\ InForce(t.code, t.line) /\ ~HidesFailure(t.code, t.line)
    /\ Fails(t)

\* The context kills bash, and what bash has started goes on.
Timeout(t) ==
    /\ Running(t)
    /\ Becomes(t, [Failed(t) EXCEPT !.alone = FALSE])
    /\ doubt' = doubt \cup {t.prj}
    /\ strays' = strays \cup {t.prj}
    /\ UNCHANGED <<files, bounds, env, left>>

\* What was left of install.sh goes on, or ends.
StraysWork(p) ==
    /\ p \in strays
    /\ env' = [env EXCEPT ![p] = NoScript]
    /\ strays' \in {strays, strays \ {p}}
    /\ UNCHANGED <<files, threads, bounds, doubt, left>>

\* bash exits with the status of its last command.
ExitNonzero(t) ==
    /\ t.at = "run" /\ t.line > Len(t.code)
    /\ ~t.status
    /\ Fails(t)

ExitZero(t) ==
    /\ t.at = "run" /\ t.line > Len(t.code)
    /\ t.status
    /\ Goes(t, "record")
    /\ env' = [env EXCEPT ![t.prj] = IF t.alone THEN t.read ELSE NoScript]
    /\ UNCHANGED <<files, bounds, strays, doubt, left>>

-----------------------------------------------------------------------------
(* The rest of RunDeployment                                               *)

\* The hash that is written is the one read at the beginning.
Record(t) ==
    /\ t.at = "record"
    /\ hash' = [hash EXCEPT ![t.prj] = t.read]
    /\ doubt' = IF t.alone THEN doubt \ {t.prj} ELSE doubt \cup {t.prj}
    /\ Becomes(t, [t EXCEPT !.code = NoScript, !.line = 0, !.clean = TRUE, !.at = "start"])
    /\ UNCHANGED <<checkout, patched, sudoers, bounds, strays, env, left>>

\* StartAppProcess returns, with or without an error, and so does RunDeployment.
Start(t) ==
    /\ t.at = "start"
    /\ IF t.read = NoScript THEN threads' = threads \ {t} ELSE Goes(t, "clean")
    /\ UNCHANGED <<files, bounds, strays, env, doubt, left>>

\* Deferred calls run last first.
RemovePatched(t) ==
    /\ t.at = "clean"
    /\ patched' = IF t.file = "patched" THEN [patched EXCEPT ![t.prj] = NoScript] ELSE patched
    /\ IF t.granted THEN Goes(t, "revoke") ELSE threads' = threads \ {t}
    /\ UNCHANGED <<checkout, hash, sudoers, bounds, strays, env, doubt, left>>

\* A variant that forgets the deferred call.
RevokeNothing(t) ==
    /\ t.at = "revoke"
    /\ threads' = threads \ {t}
    /\ UNCHANGED <<files, bounds, strays, env, doubt, left>>

Revoke(t) ==
    /\ t.at = "revoke"
    /\ sudoers' = sudoers \ {Owner[t.prj]}
    /\ left' = left \ {Owner[t.prj]}
    /\ threads' = threads \ {t}
    /\ UNCHANGED <<checkout, hash, patched, bounds, strays, env, doubt>>

ProjectsAt(S) == {t.prj : t \in {u \in threads : u.at \in S}}

\* The orchestrator dies; deferred calls do not run.  Under systemd each
\* install.sh and git clean dies with it, otherwise they go on.
Crash ==
    /\ threads # {}
    /\ Counts
    /\ threads' = {}
    /\ left' = sudoers
    /\ strays' \in {{}, strays \cup ProjectsAt({"wipe", "run"})}
    /\ doubt' = doubt \cup ProjectsAt({"wipe", "unhash", "run", "record"})
    /\ UNCHANGED <<files, started, env>>

-----------------------------------------------------------------------------

ThreadStep(t) ==
    \/ Clone(t) \/ CloneFails(t)
    \/ RollbackCompares(t) \/ RollbackCleans(t) \/ RollbackForgets(t)
    \/ NoInstall(t) \/ SkipInstall(t) \/ NeedInstall(t)
    \/ Grant(t) \/ GrantFails(t) \/ Patch(t) \/ OpenScript(t) \/ OpenFails(t)
    \/ LineSucceeds(t) \/ LineIsPassedOver(t) \/ LineStops(t) \/ Timeout(t)
    \/ ExitNonzero(t) \/ ExitZero(t) \/ Record(t) \/ Start(t)
    \/ RemovePatched(t) \/ Revoke(t)

Next ==
    \/ \E p \in Projects :
          Deploy(p) \/ DeployAnew(p) \/ Rollback(p) \/ Reinstall(p) \/ StraysWork(p)
    \/ \E t \in threads : ThreadStep(t)
    \/ Crash

Spec == Init /\ [][Next]_vars

-----------------------------------------------------------------------------
(* Properties                                                              *)

\* The files hold scripts, and threads are where RunDeployment can be.
TypeOK ==
    /\ checkout \in [Projects -> Contents]
    /\ hash \in [Projects -> Contents]
    /\ env \in [Projects -> Contents]
    /\ patched \in [Projects -> {patchShellScript(s) : s \in Scripts} \cup {NoScript}]
    /\ sudoers \subseteq Users /\ left \subseteq Users
    /\ doubt \subseteq Projects /\ strays \subseteq Projects
    /\ threads \subseteq Thread
    /\ started \in 0 .. MaxThreads /\ events \in 0 .. MaxEvents

\* A recorded hash means that this script has left the environment as it is
\* (executor.go:372, 480, 540-543), so that skipping it is right: whatever
\* rollbacks, reinstalls and failures came before.  It is not so between a
\* change of the environment and the write to install.hash that goes with it.
\* And four things put it in doubt, until the next install that works alone:
\* an overlap of two threads of the project or of one with what a timeout or a
\* crash has left running (456-472); an install that failed; a crash inside
\* an install, or from git clean to the removal of the hash (542-543); and the
\* clone of a repository whose .git somebody has removed (269).
RecordedMeansInstalled ==
    \A p \in Projects :
        /\ hash[p] # NoScript /\ p \notin doubt
        /\ \A t \in OthersIn(p) : t.at \notin {"unhash", "run", "record"}
        => env[p] = hash[p]

\* When install.sh counts as done, every command in it has succeeded
\* (patchInstallScript.go:16-18): the flag is injected where it takes effect,
\* except in scripts that hide failures from it.
FailuresAreReported ==
    \A t \in threads : t.at = "record" /\ t.alone /\ ~Lax(t.read) => t.clean

\* The sudoers file is there only while a thread that will remove it is
\* inside RunDeployment (executor.go:377-381), or a crash has left it.
SudoIsTemporary ==
    \A u \in sudoers : Holders(u) # {} \/ u \in left

\* As long as no other project of the user has installed at the same time, a
\* thread has the privileges it was granted until it gives them back.
GrantsAreKept ==
    \A t \in threads : Holds(t) /\ t.sole => Owner[t.prj] \in sudoers

=============================================================================
