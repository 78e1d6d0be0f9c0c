------------------------- MODULE ProcessManagerProofs -------------------------
(***************************************************************************)
(* Theorems about ProcessManager for every set of scripts and all bounds:  *)
(* any number of instances, deployments and stops.                         *)
(***************************************************************************)
EXTENDS ProcessManager, TLAPS

-----------------------------------------------------------------------------
(* The inductive invariant                                                 *)

\* A watchdog that has ended for good.
Over == {"stranded", "failed", "done"}

\* The watchdog of the instance has not asked for a restart yet.
Fresh == {"unborn", "wait", "settle", "adopt", "forget", "watch", "lost", "report"}

\* A call from LoadOld on works on instances that exist; one that has launched
\* an instance is the only one to start its watchdog.  The watchdog that calls
\* waits for its call, has been deregistered, and has no successor before the
\* launch.
CallInv(c) ==
    /\ c.at \in {"delete", "kill"} => c.of \in DOMAIN inst
    /\ c.at \in {"store", "write"} => c.of \in DOMAIN inst /\ inst[c.of].watch = "unborn"
    /\ c.by # 0 =>
        /\ c.by \in DOMAIN inst /\ inst[c.by].watch = "restarting"
        /\ c.at \notin {"load", "delete"} => registry # c.by
        /\ c.at \notin {"store", "write"} => \A i \in DOMAIN inst : inst[i].parent # c.by

CallsInv == \A c \in calls : CallInv(c)

\* Two calls are never of the same watchdog or for the same new instance.
CallsDiffer ==
    \A c, d \in calls :
        \/ c = d
        \/ /\ c.by = 0 \/ c.by # d.by
           /\ c.at \in {"store", "write"} /\ d.at \in {"store", "write"} => c.of # d.of

InstInv ==
    \A i \in DOMAIN inst :
        /\ inst[i].watch \in Fresh => inst[i].restarts = 0
        /\ inst[i].parent # 0 =>
            /\ inst[i].parent \in DOMAIN inst
            /\ inst[inst[i].parent].watch \in {"restarting"} \cup Over

StartInv == CallsInv /\ CallsDiffer /\ InstInv /\ OneRestartPerInstance

-----------------------------------------------------------------------------
(* Instances                                                               *)

LEMMA Instances ==
    ASSUME TypeOK
    PROVE  /\ Len(inst) \in Nat /\ DOMAIN inst = 1 .. Len(inst) /\ Len(inst) <= MaxStarts
           /\ MaxStarts \in Nat /\ MaxRestarts \in Nat /\ MaxDeploys \in Nat /\ MaxStops \in Nat
           /\ \A i \in DOMAIN inst :
                /\ inst[i] \in Instance /\ i \in 1 .. MaxStarts
                /\ Bash(i) \in PID /\ Child(i) \in PID
           /\ NoPID \in PID
<1>1. /\ Len(inst) \in Nat /\ DOMAIN inst = 1 .. Len(inst) /\ Len(inst) <= MaxStarts
      /\ MaxStarts \in Nat /\ MaxRestarts \in Nat /\ MaxDeploys \in Nat /\ MaxStops \in Nat
    BY ConstantsAssumption DEF TypeOK
<1>2. ASSUME NEW i \in DOMAIN inst
      PROVE  inst[i] \in Instance /\ i \in 1 .. MaxStarts /\ Bash(i) \in PID /\ Child(i) \in PID
    <2>1. inst[i] \in Instance /\ i \in 1 .. MaxStarts
        BY <1>1 DEF TypeOK
    <2> QED
        BY <2>1 DEF Bash, Child, PID
<1> QED
    BY <1>1, <1>2 DEF PID

\* What a change of one instance leaves.
LEMMA Changing ==
    ASSUME TypeOK, NEW i \in DOMAIN inst, NEW r \in Instance
    PROVE  LET s == [inst EXCEPT ![i] = r]
           IN /\ s \in Seq(Instance) /\ Len(s) = Len(inst) /\ DOMAIN s = DOMAIN inst
              /\ s[i] = r /\ \A j \in DOMAIN inst \ {i} : s[j] = inst[j]
<1> DEFINE s == [inst EXCEPT ![i] = r]
<1>1. inst \in Seq(Instance) /\ DOMAIN inst = 1 .. Len(inst)
    BY Instances DEF TypeOK
<1>2. s \in Seq(Instance) /\ Len(s) = Len(inst) /\ DOMAIN s = DOMAIN inst
    BY <1>1
<1>3. s[i] = r /\ \A j \in DOMAIN inst \ {i} : s[j] = inst[j]
    BY <1>1
<1> QED
    BY <1>2, <1>3

\* The instances are as before, except for their processes.
SameButProcesses(s) ==
    /\ s \in Seq(Instance) /\ Len(s) = Len(inst) /\ DOMAIN s = DOMAIN inst
    /\ \A j \in DOMAIN inst :
        /\ s[j].watch = inst[j].watch
        /\ s[j].restarts = inst[j].restarts
        /\ s[j].parent = inst[j].parent

LEMMA SameProcesses ==
    ASSUME TypeOK PROVE SameButProcesses(inst)
BY DEF SameButProcesses, TypeOK

LEMMA Exiting ==
    ASSUME TypeOK, NEW i \in DOMAIN inst, NEW b \in {"up", "zero", "nonzero"}, NEW k \in BOOLEAN
    PROVE  /\ SameButProcesses([inst EXCEPT ![i].bash = b])
           /\ SameButProcesses([inst EXCEPT ![i].child = k])
           /\ SameButProcesses([inst EXCEPT ![i].bash = b, ![i].child = k])
<1>1. inst[i] \in Instance
    BY Instances
<1> DEFINE q == [inst[i] EXCEPT !.bash = b]
           r == [inst[i] EXCEPT !.child = k]
           t == [q EXCEPT !.child = k]
<1>2. q \in Instance /\ q.watch = inst[i].watch /\ q.restarts = inst[i].restarts
      /\ q.parent = inst[i].parent
    BY <1>1 DEF Instance
<1>3. r \in Instance /\ r.watch = inst[i].watch /\ r.restarts = inst[i].restarts
      /\ r.parent = inst[i].parent
    BY <1>1 DEF Instance
<1>4. t \in Instance /\ t.watch = q.watch /\ t.restarts = q.restarts /\ t.parent = q.parent
    BY <1>2 DEF Instance
<1>5. /\ [inst EXCEPT ![i].bash = b] = [inst EXCEPT ![i] = q]
      /\ [inst EXCEPT ![i].child = k] = [inst EXCEPT ![i] = r]
    BY Instances
<1>6. [inst EXCEPT ![i].bash = b, ![i].child = k] = [inst EXCEPT ![i] = t]
    BY Instances
<1> HIDE DEF q, r, t
<1>7. ASSUME NEW u \in Instance, u.watch = inst[i].watch, u.restarts = inst[i].restarts,
             u.parent = inst[i].parent
      PROVE  SameButProcesses([inst EXCEPT ![i] = u])
    BY <1>7, Changing DEF SameButProcesses
<1> QED
    BY <1>2, <1>3, <1>4, <1>5, <1>6, <1>7

LEMMA Killing ==
    ASSUME TypeOK, NEW p \in PID, NEW how \in {"zero", "nonzero"}
    PROVE  SameButProcesses(Killed(p, how))
<1>1. CASE ~isProcessAlive(p)
    BY <1>1, SameProcesses DEF Killed
<1>2. CASE isProcessAlive(p) /\ p[1] \notin DOMAIN inst
    <2>1. /\ [inst EXCEPT ![p[1]].bash = how] = inst
          /\ [inst EXCEPT ![p[1]].child = FALSE] = inst
        BY <1>2, Instances DEF TypeOK
    <2> QED
        BY <2>1, SameProcesses DEF Killed
<1>3. CASE isProcessAlive(p) /\ p[1] \in DOMAIN inst
    BY <1>3, Exiting DEF Killed
<1> QED
    BY <1>1, <1>2, <1>3

LEMMA GroupKilling ==
    ASSUME TypeOK, NEW i \in DOMAIN inst, NEW how \in {"zero", "nonzero"}
    PROVE  SameButProcesses(GroupKilled(i, how))
<1> DEFINE b == IF inst[i].bash = "up" THEN how ELSE inst[i].bash
           k == inst[i].child /\ inst[i].kind # "background"
<1>1. inst[i] \in Instance
    BY Instances
<1>2. b \in {"up", "zero", "nonzero"}
    BY <1>1 DEF Instance
<1>3. k \in BOOLEAN
    OBVIOUS
<1>4. CASE inst[i].watch \notin {"unborn", "wait"}
    BY <1>4, SameProcesses DEF GroupKilled
<1>5. CASE inst[i].watch \in {"unborn", "wait"}
    <2>1. GroupKilled(i, how) = [inst EXCEPT ![i].bash = b, ![i].child = k]
        BY <1>1, <1>5, Instances DEF GroupKilled
    <2> HIDE DEF b, k
    <2> QED
        BY <1>2, <1>3, <2>1, Exiting
<1> QED
    BY <1>4, <1>5


-----------------------------------------------------------------------------
(* What a step does                                                        *)

\* Instance r is instance i but for what its watchdog knows.
SameRun(r, i) ==
    /\ r.kind = inst[i].kind /\ r.bash = inst[i].bash
    /\ r.child = inst[i].child /\ r.parent = inst[i].parent

\* The watchdog of instance i makes it r, and may change the registration.
Watched(i, r) ==
    /\ inst' = [inst EXCEPT ![i] = r]
    /\ r \in Instance /\ SameRun(r, i)
    /\ inst[i].watch \notin {"unborn", "restarting"} \cup Over
    /\ inst[i].watch = "wait" => inst[i].bash # "up"
    /\ r.watch \notin {"unborn", "restarting", "stranded", "failed"}
    /\ r.watch \in Fresh => inst[i].watch \in Fresh /\ r.restarts = inst[i].restarts
    /\ calls' = calls
    /\ registry' \in {registry, 0} \/ (registry' = i /\ r.watch # "done")
    /\ r.watch = "done" =>
          registry' # i \/ (inst[i].watch \in Fresh /\ inst[i].restarts + 1 > MaxRestarts)
    /\ stale' \in BOOLEAN /\ (stale => stale')
    /\ registry' = registry \/ registry \in {0, i} \/ stale'
    /\ pidFile' \in PID
    /\ status' \in {"idle", "deploying", "failed"}
    /\ UNCHANGED <<deploys, stops, overlap>>

LEMMA Watching ==
    ASSUME TypeOK, NEW i \in DOMAIN inst, NEW w \in {"wait", "settle", "adopt", "forget", "watch", "lost", "report", "done"},
           Watches(i, w)
    PROVE  \E r \in Instance :
              /\ inst' = [inst EXCEPT ![i] = r]
              /\ SameRun(r, i) /\ r.watch = w /\ r.restarts = inst[i].restarts
<1> DEFINE r == [inst[i] EXCEPT !.watch = w]
<1>1. inst[i] \in Instance
    BY Instances
<1>2. r \in Instance /\ SameRun(r, i) /\ r.watch = w /\ r.restarts = inst[i].restarts
    BY <1>1 DEF Instance, SameRun
<1>3. inst' = [inst EXCEPT ![i] = r]
    BY Instances DEF Watches
<1> QED
    BY <1>2, <1>3

LEMMA BackingOff ==
    ASSUME TypeOK, NEW i \in DOMAIN inst, BacksOff(i)
    PROVE  \E r \in Instance :
              /\ inst' = [inst EXCEPT ![i] = r]
              /\ SameRun(r, i) /\ r.watch \in {"backoff", "done"}
              /\ r.watch = "done" => inst[i].restarts + 1 > MaxRestarts
<1> DEFINE w == IF inst[i].restarts + 1 > MaxRestarts THEN "done" ELSE "backoff"
           n == inst[i].restarts + 1
<1>1. inst[i] \in Instance
    BY Instances
<1>2. /\ n \in Nat /\ w \in {"backoff", "done"}
      /\ w = "done" => inst[i].restarts + 1 > MaxRestarts
    BY <1>1 DEF Instance
<1>3. inst' = [inst EXCEPT ![i].restarts = n, ![i].watch = w]
    BY <1>1, Instances DEF BacksOff
<1> HIDE DEF n, w
<1> DEFINE q == [inst[i] EXCEPT !.restarts = n]
           r == [q EXCEPT !.watch = w]
<1>4. q \in Instance /\ SameRun(q, i)
    BY <1>1, <1>2 DEF Instance, SameRun
<1>5. r \in Instance /\ SameRun(r, i) /\ r.watch = w
    BY <1>2, <1>4 DEF Instance, SameRun
<1>6. inst' = [inst EXCEPT ![i] = r]
    BY <1>3, Instances
<1> HIDE DEF r
<1> QED
    BY <1>2, <1>5, <1>6

\* A watchdog that finds the mode of an instance.
LEMMA Adopting ==
    ASSUME TypeOK, NEW i \in DOMAIN inst, NEW m \in {"background", "delegating"},
           inst' = [inst EXCEPT ![i].mode = m, ![i].watch = "adopt"]
    PROVE  \E r \in Instance :
              /\ inst' = [inst EXCEPT ![i] = r]
              /\ SameRun(r, i) /\ r.watch = "adopt" /\ r.restarts = inst[i].restarts
<1> DEFINE q == [inst[i] EXCEPT !.mode = m]
           r == [q EXCEPT !.watch = "adopt"]
<1>1. inst[i] \in Instance
    BY Instances
<1>2. q \in Instance /\ SameRun(q, i) /\ q.restarts = inst[i].restarts
    BY <1>1 DEF Instance, SameRun
<1>3. r \in Instance /\ SameRun(r, i) /\ r.restarts = q.restarts /\ r.watch = "adopt"
    BY <1>2 DEF Instance, SameRun
<1>4. inst' = [inst EXCEPT ![i] = r]
    BY Instances
<1> HIDE DEF q, r
<1> QED
    BY <1>2, <1>3, <1>4

LEMMA AdoptingPID ==
    ASSUME TypeOK, NEW i \in DOMAIN inst, NEW p \in PID,
           inst' = [inst EXCEPT ![i].mode = "delegating", ![i].ext = p, ![i].watch = "adopt"]
    PROVE  \E r \in Instance :
              /\ inst' = [inst EXCEPT ![i] = r]
              /\ SameRun(r, i) /\ r.watch = "adopt" /\ r.restarts = inst[i].restarts
<1> DEFINE q == [inst[i] EXCEPT !.mode = "delegating"]
           t == [q EXCEPT !.ext = p]
           r == [t EXCEPT !.watch = "adopt"]
<1>1. inst[i] \in Instance
    BY Instances
<1>2. q \in Instance /\ SameRun(q, i) /\ q.restarts = inst[i].restarts
    BY <1>1 DEF Instance, SameRun
<1>3. t \in Instance /\ SameRun(t, i) /\ t.restarts = q.restarts
    BY <1>2 DEF Instance, SameRun
<1>4. r \in Instance /\ SameRun(r, i) /\ r.restarts = t.restarts /\ r.watch = "adopt"
    BY <1>3 DEF Instance, SameRun
<1>5. inst' = [inst EXCEPT ![i] = r]
    BY Instances
<1> HIDE DEF q, r, t
<1> QED
    BY <1>2, <1>3, <1>4, <1>5

LEMMA WatchStepIs ==
    ASSUME TypeOK, NEW i \in DOMAIN inst, WatchStep(i), ~Restart(i)
    PROVE  \E r \in Instance : Watched(i, r)
<1>1. pidFile \in PID /\ status \in {"idle", "deploying", "failed"} /\ stale \in BOOLEAN
    BY DEF TypeOK
<1>2. CASE SeeCrash(i)
    <2>1. PICK r \in Instance :
              /\ inst' = [inst EXCEPT ![i] = r]
              /\ SameRun(r, i) /\ r.watch \in {"backoff", "done"}
              /\ r.watch = "done" => inst[i].restarts + 1 > MaxRestarts
        BY <1>2, BackingOff DEF SeeCrash
    <2> QED
        BY <1>1, <1>2, <2>1 DEF SeeCrash, Watched, Fresh, Over
<1>3. CASE SeeSuperseded(i) \/ WatchSuperseded(i) \/ DoNotRestart(i)
    <2>1. PICK r \in Instance :
              /\ inst' = [inst EXCEPT ![i] = r]
              /\ SameRun(r, i) /\ r.watch = "done" /\ r.restarts = inst[i].restarts
        BY <1>3, Watching DEF SeeSuperseded, WatchSuperseded, DoNotRestart
    <2> QED
        BY <1>1, <1>3, <2>1
        DEF SeeSuperseded, WatchSuperseded, DoNotRestart, Watched, Fresh, Over, isCurrentProcess
<1>4. CASE SeeExitZero(i)
    <2>1. PICK r \in Instance :
              /\ inst' = [inst EXCEPT ![i] = r]
              /\ SameRun(r, i) /\ r.watch = "settle" /\ r.restarts = inst[i].restarts
        BY <1>4, Watching DEF SeeExitZero
    <2> QED
        BY <1>1, <1>4, <2>1 DEF SeeExitZero, Watched, Fresh, Over
<1>5. CASE FindTier3(i) \/ FindTier2(i) \/ FindTier4(i)
    <2>1. PICK r \in Instance :
              /\ inst' = [inst EXCEPT ![i] = r]
              /\ SameRun(r, i) /\ r.watch = "adopt" /\ r.restarts = inst[i].restarts
        <3>1. CASE FindTier3(i)
            BY <1>1, <3>1, AdoptingPID DEF FindTier3
        <3>2. CASE FindTier2(i) \/ FindTier4(i)
            BY <3>2, Adopting DEF FindTier2, FindTier4
        <3> QED
            BY <1>5, <3>1, <3>2
    <2>2. pidFile' \in PID
        BY <1>1, <1>5, Instances DEF FindTier3, FindTier2, FindTier4
    <2>3. /\ inst[i].watch = "settle"
          /\ UNCHANGED <<registry, calls, status, deploys, stops, overlap, stale>>
        BY <1>5 DEF FindTier3, FindTier2, FindTier4, Untraceable
    <2> QED
        BY <1>1, <2>1, <2>2, <2>3 DEF Watched, Fresh, Over
<1>6. CASE FindNothing(i)
    <2>1. PICK r \in Instance :
              /\ inst' = [inst EXCEPT ![i] = r]
              /\ SameRun(r, i) /\ r.watch = "forget" /\ r.restarts = inst[i].restarts
        BY <1>6, Watching DEF FindNothing
    <2> QED
        BY <1>1, <1>6, <2>1, Instances DEF FindNothing, Untraceable, Watched, Fresh, Over
<1>10. CASE Forget(i)
    <2>1. PICK r \in Instance :
              /\ inst' = [inst EXCEPT ![i] = r]
              /\ SameRun(r, i) /\ r.watch = "done" /\ r.restarts = inst[i].restarts
        BY <1>10, Watching DEF Forget
    <2>2. i # 0
        BY Instances
    <2> QED
        BY <1>1, <1>10, <2>1, <2>2 DEF Forget, Overwrites, Watched, Fresh, Over
<1>7. CASE Adopt(i)
    <2>1. PICK r \in Instance :
              /\ inst' = [inst EXCEPT ![i] = r]
              /\ SameRun(r, i) /\ r.watch = "watch" /\ r.restarts = inst[i].restarts
        BY <1>7, Watching DEF Adopt
    <2> QED
        BY <1>1, <1>7, <2>1 DEF Adopt, Overwrites, Watched, Fresh, Over
<1>8. CASE WatchLost(i)
    <2>1. PICK r \in Instance :
              /\ inst' = [inst EXCEPT ![i] = r]
              /\ SameRun(r, i) /\ r.watch = "lost" /\ r.restarts = inst[i].restarts
        BY <1>8, Watching DEF WatchLost
    <2> QED
        BY <1>1, <1>8, <2>1 DEF WatchLost, Watched, Fresh, Over
<1>9. CASE Deregister(i)
    <2>1. CASE WatchesHealth(i)
        <3>1. PICK r \in Instance :
                  /\ inst' = [inst EXCEPT ![i] = r]
                  /\ SameRun(r, i) /\ r.watch = "report" /\ r.restarts = inst[i].restarts
            BY <1>9, <2>1, Watching DEF Deregister
        <3> QED
            BY <1>1, <1>9, <3>1 DEF Deregister, Overwrites, Watched, Fresh, Over
    <2>2. CASE ~WatchesHealth(i)
        <3>1. PICK r \in Instance :
                  /\ inst' = [inst EXCEPT ![i] = r]
                  /\ SameRun(r, i) /\ r.watch \in {"backoff", "done"}
                  /\ r.watch = "done" => inst[i].restarts + 1 > MaxRestarts
            BY <1>9, <2>2, BackingOff DEF Deregister
        <3> QED
            BY <1>1, <1>9, <3>1 DEF Deregister, Overwrites, Watched, Fresh, Over
    <2> QED
        BY <2>1, <2>2
<1>11. CASE ReportFailed(i)
    <2>1. PICK r \in Instance :
              /\ inst' = [inst EXCEPT ![i] = r]
              /\ SameRun(r, i) /\ r.watch \in {"backoff", "done"}
              /\ r.watch = "done" => inst[i].restarts + 1 > MaxRestarts
        BY <1>11, BackingOff DEF ReportFailed
    <2> QED
        BY <1>1, <1>11, <2>1 DEF ReportFailed, Watched, Fresh, Over
<1> QED
    BY <1>2, <1>3, <1>4, <1>5, <1>6, <1>7, <1>8, <1>9, <1>10, <1>11 DEF WatchStep

LEMMA HealthScriptFailing ==
    ASSUME TypeOK, NEW i \in DOMAIN inst, HealthScriptFails(i)
    PROVE  \E r \in Instance : Watched(i, r)
<1>1. PICK r \in Instance :
          /\ inst' = [inst EXCEPT ![i] = r]
          /\ SameRun(r, i) /\ r.watch = "lost" /\ r.restarts = inst[i].restarts
    BY Watching DEF HealthScriptFails
<1> QED
    BY <1>1 DEF HealthScriptFails, Watched, Fresh, Over, TypeOK

\* The application changes its own processes.
Runs ==
    /\ SameButProcesses(inst')
    /\ calls' = calls /\ registry' = registry /\ pidFile' \in PID
    /\ UNCHANGED <<status, deploys, stops, overlap, stale>>

LEMMA AppStepIs ==
    ASSUME TypeOK, NEW i \in DOMAIN inst, AppStep(i), ~HealthScriptFails(i)
    PROVE  Runs
<1>1. pidFile \in PID
    BY DEF TypeOK
<1>2. CASE Crash(i)
    BY <1>1, <1>2, Exiting DEF Crash, Runs
<1>3. CASE Daemonise(i)
    BY <1>1, <1>3, Exiting, Instances DEF Daemonise, Runs
<1>4. CASE ExitZero(i)
    BY <1>1, <1>4, Exiting DEF ExitZero, Runs
<1>5. CASE ChildDies(i)
    BY <1>1, <1>5, Exiting DEF ChildDies, Runs
<1> QED
    BY <1>2, <1>3, <1>4, <1>5 DEF AppStep

\* Call c goes on as d.
GoesOn(c, d) ==
    /\ SameButProcesses(inst')
    /\ calls' = (calls \ {c}) \cup {d}
    /\ d \in Call /\ d.id = c.id /\ d.by = c.by
    /\ d.at # "load" /\ (c.at = "load" => d.at \in {"delete", "fallback"})
    /\ d.at = "delete" => c.at = "load" /\ d.of = registry /\ d.of # 0
    /\ d.at = "kill" => c.at = "delete" /\ d.of = c.of /\ registry' = 0
    /\ c.at = "delete" => d.at = "kill"
    /\ d.at = "fallback" => c.at = "load" /\ registry = 0
    /\ d.at \in {"store", "write"} => c.at = "store" /\ d.of = c.of
    /\ c.at \in {"store", "write"} => d.at = "write"
    /\ registry' \in {registry, 0} \/ (registry' = c.of /\ c.at = "store")
    /\ pidFile' \in PID
    /\ UNCHANGED <<status, deploys, stops, overlap, stale>>

LEMMA CallGoesOn ==
    ASSUME TypeOK, CallsInv, NEW c \in calls,
           \/ LoadOld(c) \/ DeleteOld(c) \/ KillOld(c) \/ KillByPIDFile(c)
           \/ RemovePIDFile(c) \/ Register(c)
    PROVE  \E d \in Call : GoesOn(c, d)
<1>1. /\ c \in Call /\ pidFile \in PID /\ registry \in 0 .. MaxStarts
      /\ SameButProcesses(inst)
    BY Instances, SameProcesses DEF TypeOK
<1>2. \A at \in {"kill", "remove", "idle", "launch", "write"} :
          /\ [c EXCEPT !.at = at] \in Call /\ [c EXCEPT !.at = at].at = at
          /\ [c EXCEPT !.at = at].by = c.by /\ [c EXCEPT !.at = at].id = c.id
          /\ [c EXCEPT !.at = at].of = c.of
    BY <1>1 DEF Call
<1>3. CASE LoadOld(c)
    <2> DEFINE at == IF registry = 0 THEN "fallback" ELSE "delete"
    <2>1. /\ at \in {"fallback", "delete"} /\ (at = "fallback" => registry = 0)
          /\ at = "delete" => registry # 0
        OBVIOUS
    <2>2. calls' = (calls \ {c}) \cup {[c EXCEPT !.of = registry, !.at = at]}
        BY <1>3 DEF LoadOld
    <2> HIDE DEF at
    <2> DEFINE d == [c EXCEPT !.of = registry, !.at = at]
    <2>3. /\ d \in Call /\ d.id = c.id /\ d.by = c.by /\ d.of = registry /\ d.at = at
        BY <1>1, <2>1 DEF Call
    <2> HIDE DEF d
    <2>4. calls' = (calls \ {c}) \cup {d}
        BY <2>2 DEF d
    <2> QED
        BY <1>1, <1>3, <2>1, <2>3, <2>4 DEF LoadOld, GoesOn
<1>4. CASE DeleteOld(c)
    <2> DEFINE d == [c EXCEPT !.at = "kill"]
    <2>1. d \in Call /\ d.id = c.id /\ d.by = c.by /\ d.of = c.of /\ d.at = "kill"
        BY <1>2
    <2>2. calls' = (calls \ {c}) \cup {d}
        BY <1>4 DEF DeleteOld, Goes
    <2> HIDE DEF d
    <2> QED
        BY <1>1, <1>4, <2>1, <2>2 DEF DeleteOld, GoesOn
<1>5. CASE KillOld(c)
    <2> DEFINE d == [c EXCEPT !.at = "remove"]
    <2>1. d \in Call /\ d.id = c.id /\ d.by = c.by /\ d.of = c.of /\ d.at = "remove"
        BY <1>2
    <2>2. calls' = (calls \ {c}) \cup {d}
        BY <1>5 DEF KillOld, Goes
    <2>3. c.of \in DOMAIN inst
        BY <1>5 DEF KillOld, CallsInv, CallInv
    <2>4. inst[c.of].ext \in PID
        BY <2>3, Instances DEF Instance
    <2>5. SameButProcesses(inst')
        BY <1>5, <2>3, <2>4, Killing, GroupKilling DEF KillOld
    <2> HIDE DEF d
    <2> QED
        BY <1>1, <1>5, <2>1, <2>2, <2>5 DEF KillOld, GoesOn
<1>6. CASE KillByPIDFile(c)
    <2> DEFINE d == [c EXCEPT !.at = "remove"]
    <2>1. d \in Call /\ d.id = c.id /\ d.by = c.by /\ d.of = c.of /\ d.at = "remove"
        BY <1>2
    <2>2. calls' = (calls \ {c}) \cup {d}
        BY <1>6 DEF KillByPIDFile, Goes
    <2>3. SameButProcesses(inst')
        BY <1>1, <1>6, Killing DEF KillByPIDFile
    <2> HIDE DEF d
    <2> QED
        BY <1>1, <1>6, <2>1, <2>2, <2>3 DEF KillByPIDFile, GoesOn
<1>7. CASE RemovePIDFile(c)
    <2>1. PICK at \in {"idle", "launch"} : Goes(c, at)
        BY <1>7 DEF RemovePIDFile
    <2> DEFINE d == [c EXCEPT !.at = at]
    <2>2. d \in Call /\ d.id = c.id /\ d.by = c.by /\ d.of = c.of /\ d.at = at
        BY <1>2
    <2>3. calls' = (calls \ {c}) \cup {d}
        BY <2>1 DEF Goes
    <2> HIDE DEF d
    <2> QED
        BY <1>1, <1>7, <2>2, <2>3, Instances DEF RemovePIDFile, GoesOn
<1>8. CASE Register(c)
    <2> DEFINE d == [c EXCEPT !.at = "write"]
    <2>1. d \in Call /\ d.id = c.id /\ d.by = c.by /\ d.of = c.of /\ d.at = "write"
        BY <1>2
    <2>2. calls' = (calls \ {c}) \cup {d}
        BY <1>8 DEF Register, Goes
    <2> HIDE DEF d
    <2> QED
        BY <1>1, <1>8, <2>1, <2>2 DEF Register, GoesOn
<1> QED
    BY <1>3, <1>4, <1>5, <1>6, <1>7, <1>8


-----------------------------------------------------------------------------
(* Types                                                                   *)

\* Call c returns; the instances s are those before the watchdog that called ends.
Returns(c, s) ==
    /\ \E w \in Over :
        /\ EndsAt(c, s, w)
        /\ w # "stranded" /\ c.at \in {"load", "delete"} => registry' = 0
    /\ s \in Seq(Instance) /\ Len(s) = Len(inst)
    /\ registry' \in {registry, 0}
    /\ pidFile' \in PID
    /\ status' \in {"idle", "deploying", "failed"}
    /\ UNCHANGED <<deploys, stops, overlap, stale>>

\* The calls that end without a new instance.
EndsEmpty(c) == StartMissing(c) \/ StartNothing(c) \/ SetIdle(c) \/ LaunchFails(c)

LEMMA Returning ==
    ASSUME TypeOK, NEW c \in calls, EndsEmpty(c)
    PROVE  Returns(c, inst)
<1>1. /\ inst \in Seq(Instance) /\ pidFile \in PID
      /\ status \in {"idle", "deploying", "failed"}
    BY DEF TypeOK
<1>2. "stranded" \in Over /\ "failed" \in Over /\ "done" \in Over
    BY DEF Over
<1>3. CASE StartMissing(c)
    BY <1>1, <1>2, <1>3 DEF StartMissing, Returns
<1>4. CASE StartNothing(c)
    BY <1>1, <1>2, <1>4 DEF StartNothing, Ends, Returns
<1>5. CASE SetIdle(c)
    BY <1>1, <1>2, <1>5 DEF SetIdle, Ends, Returns
<1>6. CASE LaunchFails(c)
    BY <1>1, <1>2, <1>6 DEF LaunchFails, Returns
<1> QED
    BY <1>3, <1>4, <1>5, <1>6 DEF EndsEmpty

LEMMA WatchingStarts ==
    ASSUME TypeOK, CallsInv, NEW c \in calls, StartWatching(c)
    PROVE  /\ Returns(c, [inst EXCEPT ![c.of].watch = "wait"])
           /\ c.of \in DOMAIN inst /\ c.at = "write"
           /\ registry' = registry
           /\ \E r \in Instance :
                /\ [inst EXCEPT ![c.of].watch = "wait"] = [inst EXCEPT ![c.of] = r]
                /\ r.watch = "wait" /\ r.restarts = inst[c.of].restarts
                /\ r.parent = inst[c.of].parent
<1>1. c.at = "write" /\ c.of \in DOMAIN inst /\ inst[c.of] \in Instance
    BY Instances DEF StartWatching, CallsInv, CallInv
<1> DEFINE r == [inst[c.of] EXCEPT !.watch = "wait"]
           s == [inst EXCEPT ![c.of].watch = "wait"]
<1>2. /\ r \in Instance /\ r.watch = "wait" /\ r.restarts = inst[c.of].restarts
      /\ r.parent = inst[c.of].parent
    BY <1>1 DEF Instance
<1>3. s = [inst EXCEPT ![c.of] = r]
    BY Instances
<1> HIDE DEF r
<1>4. s \in Seq(Instance) /\ Len(s) = Len(inst)
    BY <1>1, <1>2, <1>3, Changing
<1>5. Ends(c, s) /\ registry' = registry
    BY DEF StartWatching
<1> HIDE DEF s
<1>6. Returns(c, s)
    BY <1>1, <1>4, <1>5, Instances DEF Returns, Ends, Over, StartWatching, TypeOK
<1> QED
    BY <1>1, <1>2, <1>3, <1>5, <1>6 DEF s

\* A deployment, an operator or a watchdog calls.
Calls(i, d) ==
    /\ Enters(d)
    /\ d \in Call /\ d.by = i /\ d.at = "load"
    /\ status' \in {"idle", "deploying", "failed"}
    /\ deploys' \in 0 .. MaxDeploys /\ stops' \in 0 .. MaxStops
    /\ UNCHANGED <<registry, pidFile, stale>>

LEMMA Calling ==
    ASSUME TypeOK
    PROVE  /\ Deploy \/ Stop => inst' = inst /\ \E d \in Call : Calls(0, d)
           /\ \A i \in DOMAIN inst : Restart(i) =>
                /\ inst[i].watch = "backoff"
                /\ \E d \in Call : Calls(i, d)
                /\ \E r \in Instance :
                      /\ inst' = [inst EXCEPT ![i] = r]
                      /\ r.parent = inst[i].parent /\ r.watch = "restarting"
                      /\ r.restarts = inst[i].restarts
<1>1. /\ deploys \in 0 .. MaxDeploys /\ stops \in 0 .. MaxStops
      /\ status \in {"idle", "deploying", "failed"}
      /\ MaxDeploys \in Nat /\ MaxStops \in Nat /\ MaxStarts \in Nat
    BY Instances DEF TypeOK
<1>2. ASSUME Deploy PROVE inst' = inst /\ \E d \in Call : Calls(0, d)
    <2>1. deploys' + stops \in 0 .. (MaxDeploys + MaxStops) /\ deploys' \in 0 .. MaxDeploys
        BY <1>1, <1>2 DEF Deploy
    <2>2. PICK n \in 0 .. (MaxDeploys + MaxStops) : n = deploys' + stops
        BY <2>1
    <2>3. /\ calls' = calls \cup {[id |-> n, by |-> 0, fn |-> "start", at |-> "load", of |-> 0]}
          /\ overlap' = (overlap \/ calls # {})
        BY <1>2, <2>2 DEF Deploy, Enters
    <2>4. /\ status' = "deploying" /\ stops' = stops /\ inst' = inst
          /\ UNCHANGED <<registry, pidFile, stale>>
        BY <1>2 DEF Deploy
    <2>5. /\ deploys' \in 0 .. MaxDeploys /\ stops' \in 0 .. MaxStops
          /\ status' \in {"idle", "deploying", "failed"}
        BY <1>1, <2>1, <2>4
    <2> DEFINE d == [id |-> n, by |-> 0, fn |-> "start", at |-> "load", of |-> 0]
    <2>6. d \in Call /\ d.by = 0 /\ d.at = "load"
        BY <1>1 DEF Call
    <2>7. calls' = calls \cup {d}
        BY <2>3
    <2> HIDE DEF d
    <2>8. Calls(0, d)
        BY <2>3, <2>4, <2>5, <2>6, <2>7 DEF Calls, Enters
    <2> QED
        BY <2>4, <2>6, <2>8
<1>3. ASSUME Stop PROVE inst' = inst /\ \E d \in Call : Calls(0, d)
    <2>1. deploys + stops' \in 0 .. (MaxDeploys + MaxStops) /\ stops' \in 0 .. MaxStops
        BY <1>1, <1>3 DEF Stop
    <2>2. PICK n \in 0 .. (MaxDeploys + MaxStops) : n = deploys + stops'
        BY <2>1
    <2>3. /\ calls' = calls \cup {[id |-> n, by |-> 0, fn |-> "stop", at |-> "load", of |-> 0]}
          /\ overlap' = (overlap \/ calls # {})
        BY <1>3, <2>2 DEF Stop, Enters
    <2>4. /\ status' = status /\ deploys' = deploys /\ inst' = inst
          /\ UNCHANGED <<registry, pidFile, stale>>
        BY <1>3 DEF Stop
    <2>5. /\ deploys' \in 0 .. MaxDeploys /\ stops' \in 0 .. MaxStops
          /\ status' \in {"idle", "deploying", "failed"}
        BY <1>1, <2>1, <2>4
    <2> DEFINE d == [id |-> n, by |-> 0, fn |-> "stop", at |-> "load", of |-> 0]
    <2>6. d \in Call /\ d.by = 0 /\ d.at = "load"
        BY <1>1 DEF Call
    <2>7. calls' = calls \cup {d}
        BY <2>3
    <2> HIDE DEF d
    <2>8. Calls(0, d)
        BY <2>3, <2>4, <2>5, <2>6, <2>7 DEF Calls, Enters
    <2> QED
        BY <2>4, <2>6, <2>8
<1>4. ASSUME NEW i \in DOMAIN inst, Restart(i)
      PROVE  /\ inst[i].watch = "backoff"
             /\ \E d \in Call : Calls(i, d)
             /\ \E r \in Instance :
                    /\ inst' = [inst EXCEPT ![i] = r]
                    /\ r.parent = inst[i].parent /\ r.watch = "restarting"
                    /\ r.restarts = inst[i].restarts
    <2> DEFINE d == [id |-> 0, by |-> i, fn |-> "start", at |-> "load", of |-> 0]
               r == [inst[i] EXCEPT !.watch = "restarting"]
    <2>1. d \in Call /\ d.by = i /\ d.at = "load"
        BY <1>1, Instances DEF Call
    <2>2. Enters(d)
        BY <1>4 DEF Restart
    <2>3. r \in Instance /\ r.parent = inst[i].parent /\ r.watch = "restarting"
          /\ r.restarts = inst[i].restarts
        BY Instances DEF Instance
    <2>4. inst' = [inst EXCEPT ![i] = r]
        BY <1>4, Instances DEF Restart, Watches
    <2> HIDE DEF d, r
    <2>5. Calls(i, d)
        BY <1>1, <1>4, <2>1, <2>2 DEF Restart, Calls
    <2> QED
        BY <1>4, <2>1, <2>3, <2>4, <2>5 DEF Restart
<1> QED
    BY <1>2, <1>3, <1>4

\* The new instance of a call.
LEMMA Launching ==
    ASSUME TypeOK, NEW c \in calls, Launch(c)
    PROVE  /\ inst' \in Seq(Instance) /\ Len(inst') = Len(inst) + 1 /\ Len(inst') <= MaxStarts
           /\ DOMAIN inst' = 1 .. (Len(inst) + 1)
           /\ \A i \in DOMAIN inst : inst'[i] = inst[i]
           /\ inst'[Len(inst')].watch = "unborn" /\ inst'[Len(inst')].restarts = 0
           /\ inst'[Len(inst')].parent = c.by
           /\ \E d \in Call :
                /\ calls' = (calls \ {c}) \cup {d}
                /\ d.by = c.by /\ d.id = c.id /\ d.at = "store" /\ d.of = Len(inst')
<1>1. /\ c \in Call /\ inst \in Seq(Instance) /\ Len(inst) \in Nat /\ MaxStarts \in Nat
      /\ DOMAIN inst = 1 .. Len(inst)
    BY Instances DEF TypeOK
<1>2. PICK k \in Scripts \ {"missing"} : inst' = Append(inst, NewInstance(k, c.by))
    BY DEF Launch
<1> DEFINE r == NewInstance(k, c.by)
<1>3. /\ r \in Instance /\ r.watch = "unborn" /\ r.restarts = 0 /\ r.parent = c.by
    <2>1. k \in Kind /\ c.by \in 0 .. MaxStarts /\ NoPID \in PID
        BY <1>1, ConstantsAssumption DEF Call, PID
    <2> QED
        BY <2>1 DEF NewInstance, Instance
<1>4. inst' = Append(inst, r)
    BY <1>2
<1> HIDE DEF r
<1>5. /\ inst' \in Seq(Instance) /\ Len(inst') = Len(inst) + 1
      /\ DOMAIN inst' = 1 .. (Len(inst) + 1)
      /\ \A i \in DOMAIN inst : inst'[i] = inst[i]
      /\ inst'[Len(inst) + 1] = r
    BY <1>1, <1>3, <1>4
<1>6. Len(inst') <= MaxStarts /\ Len(inst') \in 0 .. MaxStarts
    BY <1>1, <1>5 DEF Launch
<1> DEFINE n == Len(inst')
<1>7. n \in 0 .. MaxStarts
    BY <1>6
<1>8. calls' = (calls \ {c}) \cup {[c EXCEPT !.at = "store", !.of = n]}
    BY DEF Launch
<1> HIDE DEF n
<1> DEFINE d == [c EXCEPT !.at = "store", !.of = n]
<1>9. d \in Call /\ d.by = c.by /\ d.id = c.id /\ d.at = "store" /\ d.of = n
    BY <1>1, <1>7 DEF Call
<1>10. calls' = (calls \ {c}) \cup {d}
    BY <1>8
<1> HIDE DEF d
<1>11. \E e \in Call :
          /\ calls' = (calls \ {c}) \cup {e}
          /\ e.by = c.by /\ e.id = c.id /\ e.at = "store" /\ e.of = Len(inst')
    BY <1>9, <1>10 DEF n
<1>12. inst'[Len(inst')] = r
    BY <1>5
<1> QED
    BY <1>3, <1>5, <1>6, <1>11, <1>12

LEMMA InitTypeOK == Init => TypeOK
<1> SUFFICES ASSUME Init PROVE TypeOK
    OBVIOUS
<1>1. inst \in Seq(Instance) /\ Len(inst) = 0
    BY DEF Init
<1>2. pidFile \in PID
    BY DEF Init, PID
<1>3. /\ registry = 0 /\ calls = {} /\ status = "idle" /\ deploys = 0 /\ stops = 0
      /\ overlap = FALSE /\ stale = FALSE
    BY DEF Init
<1>4. /\ Len(inst) <= MaxStarts /\ registry \in 0 .. Len(inst)
      /\ deploys \in 0 .. MaxDeploys /\ stops \in 0 .. MaxStops
    BY <1>1, <1>3, ConstantsAssumption
<1>5. calls \subseteq Call /\ overlap \in BOOLEAN /\ stale \in BOOLEAN
      /\ status \in {"idle", "deploying", "failed"}
    BY <1>3
<1> QED
    BY <1>1, <1>2, <1>4, <1>5 DEF TypeOK

LEMMA NextTypeOK == TypeOK /\ CallsInv /\ [Next]_vars => TypeOK'
<1> SUFFICES ASSUME TypeOK, CallsInv, [Next]_vars PROVE TypeOK'
    OBVIOUS
<1>1. /\ Len(inst) \in Nat /\ MaxStarts \in Nat /\ DOMAIN inst = 1 .. Len(inst)
      /\ registry \in 0 .. Len(inst) /\ calls \subseteq Call
    BY Instances DEF TypeOK
<1>2. CASE UNCHANGED vars
    BY <1>2 DEF vars, TypeOK
<1>3. CASE Deploy \/ Stop
    <2>1. inst' = inst /\ \E d \in Call : Calls(0, d)
        BY <1>3, Calling
    <2> QED
        BY <2>1 DEF Calls, Enters, TypeOK
<1>4. ASSUME NEW c \in calls, CallStep(c) PROVE TypeOK'
    <2>1. CASE EndsEmpty(c) \/ StartWatching(c)
        <3>1. PICK s : Returns(c, s)
            BY <2>1, Returning, WatchingStarts
        <3>2. c \in Call
            BY <1>1
        <3>3. inst' \in Seq(Instance) /\ Len(inst') = Len(inst)
            <4>1. PICK w \in Over : EndsAt(c, s, w)
                BY <3>1 DEF Returns
            <4>2. s \in Seq(Instance) /\ Len(s) = Len(inst) /\ DOMAIN s = 1 .. Len(inst)
                BY <3>1 DEF Returns
            <4>3. CASE c.by = 0
                BY <4>1, <4>2, <4>3 DEF EndsAt
            <4>4. CASE c.by # 0
                <5>1. inst' = [s EXCEPT ![c.by].watch = w]
                    BY <4>1, <4>4 DEF EndsAt
                <5>2. inst' = [j \in 1 .. Len(inst) |->
                          IF j = c.by THEN [s[j] EXCEPT !.watch = w] ELSE s[j]]
                    BY <4>2, <5>1
                <5>3. \A j \in 1 .. Len(inst) :
                          s[j] \in Instance /\ [s[j] EXCEPT !.watch = w] \in Instance
                    <6>1. ASSUME NEW q \in Instance PROVE [q EXCEPT !.watch = w] \in Instance
                        BY <4>1 DEF Instance, Over
                    <6> QED
                        BY <4>2, <6>1
                <5> QED
                    BY <1>1, <5>2, <5>3
            <4> QED
                BY <4>3, <4>4
        <3>4. /\ registry' \in 0 .. Len(inst') /\ pidFile' \in PID /\ calls' \subseteq calls
              /\ status' \in {"idle", "deploying", "failed"}
              /\ UNCHANGED <<deploys, stops, overlap, stale>>
            BY <1>1, <3>1, <3>3 DEF Returns, EndsAt
        <3> QED
            BY <3>3, <3>4 DEF TypeOK
    <2>2. CASE Launch(c)
        <3>1. /\ inst' \in Seq(Instance) /\ Len(inst') = Len(inst) + 1 /\ Len(inst') <= MaxStarts
              /\ calls' \subseteq Call
            BY <1>1, <2>2, Launching
        <3>2. UNCHANGED <<registry, pidFile, status, deploys, stops, overlap, stale>>
            BY <2>2 DEF Launch
        <3> QED
            BY <1>1, <3>1, <3>2 DEF TypeOK
    <2>3. CASE ~(Launch(c) \/ EndsEmpty(c) \/ StartWatching(c))
        <3>1. PICK d \in Call : GoesOn(c, d)
            BY <1>4, <2>3, CallGoesOn DEF CallStep, EndsEmpty
        <3>2. c.at = "store" => c.of \in 0 .. Len(inst)
            BY <1>1 DEF CallsInv, CallInv
        <3> QED
            BY <1>1, <3>1, <3>2 DEF GoesOn, SameButProcesses, TypeOK
    <2> QED
        BY <2>1, <2>2, <2>3
<1>5. ASSUME NEW i \in DOMAIN inst, WatchStep(i) \/ AppStep(i) PROVE TypeOK'
    <2>1. ASSUME NEW r \in Instance, Watched(i, r) PROVE TypeOK'
        <3>1. inst' \in Seq(Instance) /\ Len(inst') = Len(inst)
            BY <2>1, Changing DEF Watched
        <3> QED
            BY <1>1, <2>1, <3>1 DEF Watched, TypeOK
    <2>2. CASE WatchStep(i) /\ ~Restart(i)
        BY <2>1, <2>2, WatchStepIs
    <2>3. CASE HealthScriptFails(i)
        BY <2>1, <2>3, HealthScriptFailing
    <2>4. CASE AppStep(i) /\ ~HealthScriptFails(i)
        <3>1. Runs
            BY <2>4, AppStepIs
        <3> QED
            BY <1>1, <3>1 DEF Runs, SameButProcesses, TypeOK
    <2>5. CASE Restart(i)
        <3>1. PICK r \in Instance : inst' = [inst EXCEPT ![i] = r]
            BY <2>5, Calling
        <3>2. inst' \in Seq(Instance) /\ Len(inst') = Len(inst)
            BY <3>1, Changing
        <3>3. PICK d \in Call : Calls(i, d)
            BY <2>5, Calling
        <3> QED
            BY <1>1, <3>2, <3>3 DEF Calls, Enters, TypeOK
    <2> QED
        BY <1>5, <2>2, <2>3, <2>4, <2>5
<1> QED
    BY <1>2, <1>3, <1>4, <1>5 DEF Next


-----------------------------------------------------------------------------
(* Starting instances                                                      *)

LEMMA InitStartInv == Init => StartInv
<1> SUFFICES ASSUME Init PROVE StartInv
    OBVIOUS
<1>1. DOMAIN inst = {} /\ calls = {}
    BY DEF Init
<1> QED
    BY <1>1 DEF StartInv, CallsInv, CallsDiffer, InstInv, OneRestartPerInstance

LEMMA WatchedKeepsStartInv ==
    ASSUME TypeOK, StartInv, NEW i \in DOMAIN inst, NEW r \in Instance, Watched(i, r)
    PROVE  StartInv'
<1>1. /\ DOMAIN inst' = DOMAIN inst /\ inst'[i] = r
      /\ \A j \in DOMAIN inst \ {i} : inst'[j] = inst[j]
    BY Changing DEF Watched
<1>2. /\ r.parent = inst[i].parent /\ calls' = calls
      /\ inst[i].watch \notin {"unborn", "restarting"} \cup Over
      /\ r.watch \notin {"unborn", "restarting"}
      /\ r.watch \in Fresh => inst[i].watch \in Fresh /\ r.restarts = inst[i].restarts
      /\ registry' \in {registry, 0, i} /\ i # 0
    BY Instances DEF Watched, SameRun
<1>3. \A j \in DOMAIN inst : inst'[j].parent = inst[j].parent
    BY <1>1, <1>2
<1>4. OneRestartPerInstance'
    BY <1>1, <1>3 DEF StartInv, OneRestartPerInstance
<1>5. CallsDiffer'
    BY <1>2 DEF StartInv, CallsDiffer
<1>6. ASSUME NEW c \in calls PROVE CallInv(c)'
    <2>1. CallInv(c)
        BY DEF StartInv, CallsInv
    <2> QED
        BY <1>1, <1>2, <1>3, <2>1 DEF CallInv
<1>7. InstInv'
    <2>1. ASSUME NEW j \in DOMAIN inst
          PROVE  inst'[j].watch \in Fresh => inst'[j].restarts = 0
        BY <1>1, <1>2 DEF StartInv, InstInv, Fresh
    <2>2. ASSUME NEW j \in DOMAIN inst, inst[j].parent # 0
          PROVE  /\ inst[j].parent \in DOMAIN inst
                 /\ inst'[inst[j].parent].watch \in {"restarting"} \cup Over
        BY <1>1, <1>2, <2>2 DEF StartInv, InstInv
    <2> QED
        BY <1>1, <1>3, <2>1, <2>2 DEF InstInv
<1> QED
    BY <1>2, <1>4, <1>5, <1>6, <1>7 DEF StartInv, CallsInv

\* What happens to the processes alone disturbs nothing.
LEMMA ProcessesKeepInstInv ==
    ASSUME TypeOK, StartInv, SameButProcesses(inst')
    PROVE  InstInv' /\ OneRestartPerInstance'
BY DEF StartInv, InstInv, OneRestartPerInstance, SameButProcesses

LEMMA RunsKeepsStartInv == TypeOK /\ StartInv /\ Runs => StartInv'
<1> SUFFICES ASSUME TypeOK, StartInv, Runs PROVE StartInv'
    OBVIOUS
<1>1. InstInv' /\ OneRestartPerInstance'
    BY ProcessesKeepInstInv DEF Runs
<1>2. CallsDiffer'
    BY DEF StartInv, CallsDiffer, Runs
<1>3. ASSUME NEW c \in calls PROVE CallInv(c)'
    BY DEF StartInv, CallsInv, CallInv, Runs, SameButProcesses
<1> QED
    BY <1>1, <1>2, <1>3 DEF StartInv, CallsInv, Runs

LEMMA GoesOnKeepsStartInv ==
    ASSUME TypeOK, StartInv, NEW c \in calls, NEW d \in Call, GoesOn(c, d)
    PROVE  StartInv'
<1>1. /\ DOMAIN inst' = DOMAIN inst
      /\ \A j \in DOMAIN inst :
            inst'[j].watch = inst[j].watch /\ inst'[j].parent = inst[j].parent
    BY DEF GoesOn, SameButProcesses
<1>2. /\ calls' = (calls \ {c}) \cup {d} /\ d.by = c.by
      /\ d.at \in {"store", "write"} => c.at = "store" /\ d.of = c.of
      /\ registry' \in {registry, 0} \/ (registry' = c.of /\ c.at = "store")
    BY DEF GoesOn
<1>3. CallInv(c) /\ registry \in 0 .. Len(inst) /\ DOMAIN inst = 1 .. Len(inst)
    BY Instances DEF StartInv, CallsInv, TypeOK
<1>4. InstInv' /\ OneRestartPerInstance'
    BY ProcessesKeepInstInv DEF GoesOn
<1>5. CallsDiffer'
    BY <1>2 DEF StartInv, CallsDiffer
<1>6. ASSUME NEW e \in calls \ {c} PROVE CallInv(e)'
    <2>1. CallInv(e)
        BY DEF StartInv, CallsInv
    <2>2. e.by # 0 /\ registry' = c.of /\ c.at = "store" => registry' # e.by
        BY <1>3, <2>1 DEF CallInv
    <2> QED
        BY <1>1, <1>2, <2>1, <2>2 DEF CallInv
<1>7. CallInv(d)'
    <2>1. d.at \in {"delete", "kill"} => d.of \in DOMAIN inst
        BY <1>3 DEF GoesOn, CallInv
    <2>2. d.at \in {"store", "write"} => d.of \in DOMAIN inst /\ inst[d.of].watch = "unborn"
        BY <1>2, <1>3 DEF CallInv
    <2>3. CASE d.by # 0
        <3>1. d.by \in DOMAIN inst /\ inst[d.by].watch = "restarting"
            BY <1>2, <1>3, <2>3 DEF CallInv
        <3>2. d.at \notin {"load", "delete"} => registry' # d.by
            <4>1. c.at \notin {"load", "delete"} => registry # d.by
                BY <1>2, <1>3, <2>3 DEF CallInv
            <4>2. registry' = c.of /\ c.at = "store" => registry' # d.by
                BY <1>3, <3>1 DEF CallInv
            <4>3. c.at = "load" => d.at \in {"delete", "fallback"}
                BY DEF GoesOn
            <4>4. d.at = "fallback" => registry = 0
                BY DEF GoesOn
            <4> QED
                BY <1>2, <2>3, <4>1, <4>2, <4>3, <4>4 DEF GoesOn
        <3>3. d.at \notin {"store", "write"} => \A j \in DOMAIN inst : inst[j].parent # d.by
            BY <1>2, <1>3, <2>3 DEF GoesOn, CallInv
        <3> QED
            BY <1>1, <2>1, <2>2, <3>1, <3>2, <3>3 DEF CallInv
    <2> QED
        BY <1>1, <2>1, <2>2, <2>3 DEF CallInv
<1> QED
    BY <1>2, <1>4, <1>5, <1>6, <1>7 DEF StartInv, CallsInv

LEMMA LaunchKeepsStartInv ==
    ASSUME TypeOK, StartInv, NEW c \in calls, Launch(c)
    PROVE  StartInv'
<1> DEFINE n == Len(inst) + 1
<1>1. /\ DOMAIN inst' = 1 .. n /\ Len(inst') = n
      /\ \A i \in DOMAIN inst : inst'[i] = inst[i]
      /\ inst'[n].watch = "unborn" /\ inst'[n].restarts = 0 /\ inst'[n].parent = c.by
    BY Launching
<1>2. PICK d \in Call :
          /\ calls' = (calls \ {c}) \cup {d}
          /\ d.by = c.by /\ d.at = "store" /\ d.of = n
    BY <1>1, Launching
<1>3. CallInv(c) /\ registry' = registry /\ c.at = "launch"
    BY DEF StartInv, CallsInv, Launch
<1>4. n \in Nat /\ DOMAIN inst = 1 .. Len(inst) /\ Len(inst) \in Nat
    BY Instances
<1>5. n \notin DOMAIN inst /\ DOMAIN inst' = DOMAIN inst \cup {n}
    BY <1>1, <1>4
<1> HIDE DEF n
<1>6. CallsDiffer'
    <2>1. ASSUME NEW e \in calls, e.at \in {"store", "write"} PROVE e.of # n
        BY <1>5, <2>1 DEF StartInv, CallsInv, CallInv
    <2> QED
        BY <1>2, <2>1 DEF StartInv, CallsDiffer
<1>7. ASSUME NEW e \in calls \ {c} PROVE CallInv(e)'
    <2>1. CallInv(e) /\ (c.by = 0 \/ e.by # c.by)
        BY DEF StartInv, CallsInv, CallsDiffer
    <2> QED
        BY <1>1, <1>3, <1>5, <2>1 DEF CallInv
<1>8. CallInv(d)'
    BY <1>1, <1>2, <1>3, <1>5 DEF CallInv
<1>9. InstInv'
    <2>1. ASSUME NEW i \in DOMAIN inst'
          PROVE  inst'[i].watch \in Fresh => inst'[i].restarts = 0
        BY <1>1, <1>5 DEF StartInv, InstInv
    <2>2. ASSUME NEW i \in DOMAIN inst', inst'[i].parent # 0
          PROVE  /\ inst'[i].parent \in DOMAIN inst
                 /\ inst[inst'[i].parent].watch \in {"restarting"} \cup Over
        BY <1>1, <1>3, <1>5, <2>2 DEF StartInv, InstInv, CallInv, Over
    <2> QED
        BY <1>1, <1>5, <2>1, <2>2 DEF InstInv
<1>10. OneRestartPerInstance'
    <2>1. ASSUME NEW i \in DOMAIN inst, c.by # 0 PROVE inst[i].parent # c.by
        BY <1>3, <2>1 DEF CallInv
    <2> QED
        BY <1>1, <1>5, <2>1 DEF StartInv, OneRestartPerInstance
<1> QED
    BY <1>2, <1>6, <1>7, <1>8, <1>9, <1>10 DEF StartInv, CallsInv

\* The watchdog of one new instance may start, and the one that called ends.
LEMMA ReturnsKeepsStartInv ==
    ASSUME TypeOK, StartInv, NEW c \in calls,
           calls' = calls \ {c},
           DOMAIN inst' = DOMAIN inst,
           \A j \in DOMAIN inst :
              inst'[j].parent = inst[j].parent /\ inst'[j].restarts = inst[j].restarts,
           \A j \in DOMAIN inst :
              \/ inst'[j].watch = inst[j].watch
              \/ j = c.by /\ c.by # 0 /\ inst'[j].watch \in Over
              \/ j = c.of /\ c.at = "write" /\ inst'[j].watch = "wait",
           registry' \in {registry, 0}
    PROVE  StartInv'
<1>1. CallInv(c)
    BY DEF StartInv, CallsInv
<1>2. CallsDiffer'
    BY DEF StartInv, CallsDiffer
<1>3. OneRestartPerInstance'
    BY DEF StartInv, OneRestartPerInstance
<1>4. ASSUME NEW e \in calls \ {c} PROVE CallInv(e)'
    <2>1. /\ CallInv(e) /\ (c.by = 0 \/ e.by # c.by)
          /\ c.at \in {"store", "write"} /\ e.at \in {"store", "write"} => e.of # c.of
        BY DEF StartInv, CallsInv, CallsDiffer
    <2>2. e.at \in {"store", "write"} => inst'[e.of].watch = "unborn"
        BY <1>1, <2>1 DEF CallInv
    <2>3. e.by # 0 => inst'[e.by].watch = "restarting"
        BY <1>1, <2>1 DEF CallInv
    <2> QED
        BY <2>1, <2>2, <2>3 DEF CallInv
<1>5. InstInv'
    <2>1. ASSUME NEW j \in DOMAIN inst
          PROVE  inst'[j].watch \in Fresh => inst'[j].restarts = 0
        BY <1>1 DEF StartInv, InstInv, CallInv, Fresh, Over
    <2>2. ASSUME NEW j \in DOMAIN inst, inst[j].parent # 0
          PROVE  /\ inst[j].parent \in DOMAIN inst
                 /\ inst'[inst[j].parent].watch \in {"restarting"} \cup Over
        BY <1>1, <2>2 DEF StartInv, InstInv, CallInv, Over
    <2> QED
        BY <2>1, <2>2 DEF InstInv
<1> QED
    BY <1>2, <1>3, <1>4, <1>5 DEF StartInv, CallsInv

\* What a return leaves of the instances.
LEMMA ReturnIs ==
    ASSUME TypeOK, StartInv, NEW c \in calls,
           EndsEmpty(c) \/ StartWatching(c)
    PROVE  /\ calls' = calls \ {c}
           /\ DOMAIN inst' = DOMAIN inst
           /\ \A j \in DOMAIN inst :
                inst'[j].parent = inst[j].parent /\ inst'[j].restarts = inst[j].restarts
           /\ \A j \in DOMAIN inst :
                \/ inst'[j].watch = inst[j].watch
                \/ j = c.by /\ c.by # 0 /\ inst'[j].watch \in Over
                \/ j = c.of /\ c.at = "write" /\ inst'[j].watch = "wait"
           /\ registry' \in {registry, 0}
           /\ \/ c.at \notin {"load", "delete"}
              \/ registry' = 0
              \/ c.by # 0 => inst'[c.by].watch = "stranded"
<1> DEFINE Kept(s) ==
        /\ s \in Seq(Instance) /\ Len(s) = Len(inst) /\ DOMAIN s = DOMAIN inst
        /\ \A j \in DOMAIN inst :
            s[j].parent = inst[j].parent /\ s[j].restarts = inst[j].restarts
        /\ \A j \in DOMAIN inst :
            \/ s[j].watch = inst[j].watch
            \/ j = c.of /\ c.at = "write" /\ s[j].watch = "wait"
<1>1. /\ CallsInv /\ DOMAIN inst = 1 .. Len(inst) /\ inst \in Seq(Instance)
      /\ \A j \in DOMAIN inst : inst[j] \in Instance
    BY Instances DEF StartInv, TypeOK
<1>2. PICK s : Kept(s) /\ Returns(c, s)
    <2>1. CASE EndsEmpty(c)
        <3>1. Returns(c, inst)
            BY <2>1, Returning
        <3>2. Kept(inst)
            BY <1>1
        <3> QED
            BY <3>1, <3>2
    <2>2. CASE StartWatching(c)
        <3> DEFINE t == [inst EXCEPT ![c.of].watch = "wait"]
        <3>1. Returns(c, t) /\ c.at = "write"
            BY <1>1, <2>2, WatchingStarts
        <3>2. PICK r \in Instance :
                  /\ t = [inst EXCEPT ![c.of] = r]
                  /\ r.watch = "wait" /\ r.restarts = inst[c.of].restarts
                  /\ r.parent = inst[c.of].parent
            BY <1>1, <2>2, WatchingStarts
        <3>3. c.of \in DOMAIN inst
            BY <1>1, <2>2, WatchingStarts
        <3> HIDE DEF t
        <3>4. /\ t \in Seq(Instance) /\ Len(t) = Len(inst) /\ DOMAIN t = DOMAIN inst
              /\ t[c.of] = r /\ \A j \in DOMAIN inst \ {c.of} : t[j] = inst[j]
            BY <3>2, <3>3, Changing
        <3>5. Kept(t)
            BY <3>1, <3>2, <3>4
        <3> QED
            BY <3>1, <3>5
    <2> QED
        BY <2>1, <2>2
<1>3. PICK w \in Over :
          /\ inst' = IF c.by = 0 THEN s ELSE [s EXCEPT ![c.by].watch = w]
          /\ w # "stranded" /\ c.at \in {"load", "delete"} => registry' = 0
          /\ calls' = calls \ {c} /\ registry' \in {registry, 0}
    BY <1>2 DEF Returns, EndsAt
<1>4. CASE c.by = 0
    BY <1>2, <1>3, <1>4
<1>5. CASE c.by # 0
    <2>1. c.by \in DOMAIN s /\ s[c.by] \in Instance
        BY <1>1, <1>2, <1>5 DEF CallsInv, CallInv
    <2> DEFINE q == [s[c.by] EXCEPT !.watch = w]
    <2>2. q.watch = w /\ q.parent = s[c.by].parent /\ q.restarts = s[c.by].restarts
        BY <2>1 DEF Instance
    <2>3. inst' = [s EXCEPT ![c.by] = q]
        BY <1>3, <1>5
    <2> HIDE DEF q
    <2>4. /\ DOMAIN inst' = DOMAIN inst /\ inst'[c.by] = q
          /\ \A j \in DOMAIN inst \ {c.by} : inst'[j] = s[j]
        BY <1>1, <1>2, <2>1, <2>3
    <2> QED
        BY <1>2, <1>3, <1>5, <2>1, <2>2, <2>4
<1> QED
    BY <1>4, <1>5

\* A new call is of a watchdog that has not called before, or of nobody.
LEMMA CallsKeepsStartInv ==
    ASSUME TypeOK, StartInv, NEW i \in Nat, NEW d \in Call, Calls(i, d),
           \/ i = 0 /\ inst' = inst
           \/ /\ i \in DOMAIN inst /\ inst[i].watch = "backoff"
              /\ \E r \in Instance :
                    /\ inst' = [inst EXCEPT ![i] = r]
                    /\ r.parent = inst[i].parent /\ r.watch = "restarting"
                    /\ r.restarts = inst[i].restarts
    PROVE  StartInv'
<1>1. /\ DOMAIN inst' = DOMAIN inst
      /\ \A j \in DOMAIN inst \ {i} : inst'[j] = inst[j]
      /\ i \in DOMAIN inst \/ (i = 0 /\ 0 \notin DOMAIN inst)
      /\ i \in DOMAIN inst =>
            /\ inst[i].watch = "backoff" /\ inst'[i].watch = "restarting"
            /\ inst'[i].parent = inst[i].parent
    <2>1. CASE i = 0 /\ inst' = inst
        BY <2>1, Instances
    <2>2. CASE i \in DOMAIN inst /\ inst[i].watch = "backoff"
               /\ \E r \in Instance :
                    /\ inst' = [inst EXCEPT ![i] = r]
                    /\ r.parent = inst[i].parent /\ r.watch = "restarting"
                    /\ r.restarts = inst[i].restarts
        <3>1. PICK r \in Instance :
                  /\ inst' = [inst EXCEPT ![i] = r]
                  /\ r.parent = inst[i].parent /\ r.watch = "restarting"
            BY <2>2
        <3> QED
            BY <2>2, <3>1, Changing
    <2> QED
        BY <2>1, <2>2
<1>2. calls' = calls \cup {d} /\ d.by = i /\ d.at = "load" /\ registry' = registry
    BY DEF Calls, Enters
<1>3. \A j \in DOMAIN inst : inst'[j].parent = inst[j].parent
    BY <1>1
<1>4. OneRestartPerInstance'
    BY <1>1, <1>3 DEF StartInv, OneRestartPerInstance
<1>5. ASSUME NEW e \in calls PROVE CallInv(e)' /\ (i # 0 => e.by # i)
    <2>1. CallInv(e)
        BY DEF StartInv, CallsInv
    <2>2. i # 0 => e.by # i
        BY <1>1, <2>1 DEF CallInv
    <2>3. e.at \in {"store", "write"} => inst'[e.of].watch = "unborn"
        BY <1>1, <2>1 DEF CallInv
    <2>4. e.by # 0 => inst'[e.by].watch = "restarting"
        BY <1>1, <2>1, <2>2 DEF CallInv
    <2>5. e.by # 0 /\ e.at \notin {"store", "write"} => \A j \in DOMAIN inst' : inst'[j].parent # e.by
        BY <1>1, <1>3, <2>1 DEF CallInv
    <2>6. e.at \in {"delete", "kill", "store", "write"} => e.of \in DOMAIN inst'
        BY <1>1, <2>1 DEF CallInv
    <2>7. e.by # 0 => e.by \in DOMAIN inst' /\ (e.at \notin {"load", "delete"} => registry' # e.by)
        BY <1>1, <1>2, <2>1 DEF CallInv
    <2>8. CallInv(e)'
        BY <2>3, <2>4, <2>5, <2>6, <2>7 DEF CallInv
    <2> QED
        BY <2>2, <2>8
<1>6. CallInv(d)'
    <2>1. i # 0 => \A j \in DOMAIN inst : inst[j].parent # i
        BY <1>1 DEF StartInv, InstInv, Over
    <2> QED
        BY <1>1, <1>2, <1>3, <2>1 DEF CallInv
<1>7. CallsDiffer'
    BY <1>2, <1>5 DEF StartInv, CallsDiffer
<1>8. InstInv'
    <2>1. ASSUME NEW j \in DOMAIN inst
          PROVE  inst'[j].watch \in Fresh => inst'[j].restarts = 0
        BY <1>1 DEF StartInv, InstInv, Fresh
    <2>2. ASSUME NEW j \in DOMAIN inst, inst[j].parent # 0
          PROVE  /\ inst[j].parent \in DOMAIN inst
                 /\ inst'[inst[j].parent].watch \in {"restarting"} \cup Over
        BY <1>1, <2>2 DEF StartInv, InstInv
    <2> QED
        BY <1>1, <1>3, <2>1, <2>2 DEF InstInv
<1> QED
    BY <1>2, <1>4, <1>5, <1>6, <1>7, <1>8 DEF StartInv, CallsInv

LEMMA NextStartInv == TypeOK /\ StartInv /\ [Next]_vars => StartInv'
<1> SUFFICES ASSUME TypeOK, StartInv, [Next]_vars PROVE StartInv'
    OBVIOUS
<1>1. CASE UNCHANGED vars
    BY <1>1
    DEF vars, StartInv, CallsInv, CallInv, CallsDiffer, InstInv, OneRestartPerInstance
<1>2. CASE Deploy \/ Stop
    <2>1. inst' = inst /\ \E d \in Call : Calls(0, d)
        BY <1>2, Calling
    <2> QED
        BY <2>1, CallsKeepsStartInv
<1>3. ASSUME NEW c \in calls, CallStep(c) PROVE StartInv'
    <2>1. CASE EndsEmpty(c) \/ StartWatching(c)
        BY <2>1, ReturnIs, ReturnsKeepsStartInv
    <2>2. CASE Launch(c)
        BY <2>2, LaunchKeepsStartInv
    <2>3. CASE ~(Launch(c) \/ EndsEmpty(c) \/ StartWatching(c))
        <3>1. CallsInv
            BY DEF StartInv
        <3>2. PICK d \in Call : GoesOn(c, d)
            BY <1>3, <2>3, <3>1, CallGoesOn DEF CallStep, EndsEmpty
        <3> QED
            BY <3>2, GoesOnKeepsStartInv
    <2> QED
        BY <2>1, <2>2, <2>3
<1>4. ASSUME NEW i \in DOMAIN inst, WatchStep(i) \/ AppStep(i) PROVE StartInv'
    <2>1. CASE WatchStep(i) /\ ~Restart(i)
        BY <2>1, WatchStepIs, WatchedKeepsStartInv
    <2>2. CASE HealthScriptFails(i)
        BY <2>2, HealthScriptFailing, WatchedKeepsStartInv
    <2>3. CASE AppStep(i) /\ ~HealthScriptFails(i)
        BY <2>3, AppStepIs, RunsKeepsStartInv
    <2>4. CASE Restart(i)
        <3>1. i \in Nat
            BY Instances
        <3>2. PICK d \in Call : Calls(i, d)
            BY <2>4, Calling
        <3>3. /\ inst[i].watch = "backoff"
              /\ \E r \in Instance :
                    /\ inst' = [inst EXCEPT ![i] = r]
                    /\ r.parent = inst[i].parent /\ r.watch = "restarting"
                    /\ r.restarts = inst[i].restarts
            BY <2>4, Calling
        <3> QED
            BY <3>1, <3>2, <3>3, CallsKeepsStartInv
    <2> QED
        BY <1>4, <2>1, <2>2, <2>3, <2>4
<1> QED
    BY <1>1, <1>2, <1>3, <1>4 DEF Next

-----------------------------------------------------------------------------
(* What is registered                                                      *)

LEMMA NextRegisteredIsWatched ==
    ASSUME MaxRestarts >= 1, TypeOK, StartInv, RegisteredIsWatched, [Next]_vars
    PROVE  RegisteredIsWatched'
<1>1. registry \in 0 .. Len(inst) /\ DOMAIN inst = 1 .. Len(inst) /\ MaxRestarts \in Nat
    BY Instances DEF TypeOK
<1>2. CASE UNCHANGED vars
    BY <1>2 DEF vars, RegisteredIsWatched
<1>3. CASE Deploy \/ Stop
    BY <1>3 DEF Deploy, Stop, RegisteredIsWatched
<1>4. ASSUME NEW c \in calls, CallStep(c) PROVE RegisteredIsWatched'
    <2>1. CallInv(c)
        BY DEF StartInv, CallsInv
    <2>2. CASE EndsEmpty(c) \/ StartWatching(c)
        <3>1. /\ DOMAIN inst' = DOMAIN inst
              /\ \A j \in DOMAIN inst :
                    \/ inst'[j].watch = inst[j].watch
                    \/ j = c.by /\ c.by # 0 /\ inst'[j].watch \in Over
                    \/ j = c.of /\ c.at = "write" /\ inst'[j].watch = "wait"
              /\ registry' \in {registry, 0}
              /\ \/ c.at \notin {"load", "delete"}
                 \/ registry' = 0
                 \/ c.by # 0 => inst'[c.by].watch = "stranded"
            BY <2>2, ReturnIs
        <3>2. CASE registry' = 0
            BY <3>2 DEF RegisteredIsWatched
        <3>3. CASE registry' = registry /\ registry # 0 /\ registry # c.by
            BY <1>1, <3>1, <3>3 DEF RegisteredIsWatched
        <3>4. CASE registry' = registry /\ registry # 0 /\ registry = c.by
            <4>1. inst'[c.by].watch = "stranded"
                BY <2>1, <3>1, <3>4 DEF CallInv
            <4> QED
                BY <3>4, <4>1 DEF RegisteredIsWatched
        <3> QED
            BY <3>1, <3>2, <3>3, <3>4
    <2>3. CASE Launch(c)
        <3>1. /\ \A i \in DOMAIN inst : inst'[i] = inst[i]
              /\ registry' = registry
            BY <2>3, Launching DEF Launch
        <3> QED
            BY <1>1, <3>1 DEF RegisteredIsWatched
    <2>4. CASE ~(Launch(c) \/ EndsEmpty(c) \/ StartWatching(c))
        <3>1. CallsInv
            BY DEF StartInv
        <3>2. PICK d \in Call : GoesOn(c, d)
            BY <1>4, <2>4, <3>1, CallGoesOn DEF CallStep, EndsEmpty
        <3>3. c.at = "store" => c.of \in DOMAIN inst /\ inst[c.of].watch = "unborn"
            BY <2>1 DEF CallInv
        <3> QED
            BY <1>1, <3>2, <3>3 DEF GoesOn, SameButProcesses, RegisteredIsWatched
    <2> QED
        BY <2>2, <2>3, <2>4
<1>5. ASSUME NEW i \in DOMAIN inst, WatchStep(i) \/ AppStep(i) PROVE RegisteredIsWatched'
    <2>1. ASSUME NEW r \in Instance, Watched(i, r) PROVE RegisteredIsWatched'
        <3>1. /\ inst'[i] = r /\ \A j \in DOMAIN inst \ {i} : inst'[j] = inst[j]
            BY <2>1, Changing DEF Watched
        <3>2. ~(inst[i].watch \in Fresh /\ inst[i].restarts + 1 > MaxRestarts)
            BY <1>1 DEF StartInv, InstInv
        <3>3. registry' = i => r.watch \notin {"failed", "done"}
            BY <2>1, <3>2 DEF Watched
        <3>4. registry' \in {registry, 0, i}
            BY <2>1 DEF Watched
        <3> QED
            BY <1>1, <3>1, <3>3, <3>4 DEF RegisteredIsWatched
    <2>2. CASE WatchStep(i) /\ ~Restart(i)
        BY <2>1, <2>2, WatchStepIs
    <2>3. CASE HealthScriptFails(i)
        BY <2>1, <2>3, HealthScriptFailing
    <2>4. CASE AppStep(i) /\ ~HealthScriptFails(i)
        <3>1. Runs
            BY <2>4, AppStepIs
        <3> QED
            BY <1>1, <3>1 DEF Runs, SameButProcesses, RegisteredIsWatched
    <2>5. CASE Restart(i)
        <3>1. PICK r \in Instance : inst' = [inst EXCEPT ![i] = r] /\ r.watch = "restarting"
            BY <2>5, Calling
        <3>2. registry' = registry
            BY <2>5 DEF Restart
        <3>3. inst'[i] = r /\ \A j \in DOMAIN inst \ {i} : inst'[j] = inst[j]
            BY <3>1, Changing
        <3> QED
            BY <1>1, <3>1, <3>2, <3>3 DEF RegisteredIsWatched
    <2> QED
        BY <1>5, <2>2, <2>3, <2>4, <2>5
<1> QED
    BY <1>2, <1>3, <1>4, <1>5 DEF Next

-----------------------------------------------------------------------------
(* Foreground applications                                                 *)

\* An instance of a run.sh that stays in the foreground: its bash is up only
\* while its watchdog waits for it or is about to.
Plain(r) ==
    /\ r \in Instance
    /\ r.kind = "blocking" /\ r.child = FALSE
    /\ r.bash = "up" => r.watch \in {"unborn", "wait"} /\ r.mode = "blocking"

AllPlain == \A i \in DOMAIN inst : Plain(inst[i])

\* The instance that may be up while call c is under way, the only one.
Expected(c) ==
    IF c.at = "load" THEN {registry}
    ELSE IF c.at \in {"delete", "kill", "store", "write"} THEN {c.of}
    ELSE {}

Up == {i \in DOMAIN inst : inst[i].bash = "up"}

\* As long as calls do not overlap, one call at a time replaces what is up.
OneByOne ==
    /\ \A c, d \in calls : c = d
    /\ calls = {} => Up \subseteq {registry}
    /\ \A c \in calls : Up \subseteq Expected(c) /\ (c.at = "write" => registry = c.of)

ForegroundInv == AllPlain /\ (~overlap /\ ~stale => OneByOne)

\* The instances s are as plain as they were, and none of them came up.
Calm(s) ==
    /\ DOMAIN s = DOMAIN inst
    /\ \A j \in DOMAIN inst : Plain(s[j]) /\ (s[j].bash = "up" => inst[j].bash = "up")

LEMMA CalmChange ==
    ASSUME NEW s, Calm(s), NEW i \in DOMAIN inst, NEW r, Plain(r), r.bash = "up" => s[i].bash = "up"
    PROVE  Calm([s EXCEPT ![i] = r])
BY DEF Calm

LEMMA PlainExit ==
    ASSUME NEW r, Plain(r), NEW how \in {"zero", "nonzero"}
    PROVE  /\ Plain([r EXCEPT !.bash = how])
           /\ [r EXCEPT !.bash = how].bash = how
BY DEF Plain, Instance

\* The watchdog of one instance of a calm table starts, or goes on if it is down.
LEMMA CalmWatch ==
    ASSUME NEW s, Calm(s), NEW i \in DOMAIN inst, NEW w \in {"wait", "restarting"} \cup Over,
           s[i].bash = "up" => w = "wait"
    PROVE  Calm([s EXCEPT ![i].watch = w])
<1> DEFINE r == [s[i] EXCEPT !.watch = w]
<1>1. Plain(s[i])
    BY DEF Calm
<1>2. Plain(r) /\ r.bash = s[i].bash
    BY <1>1 DEF Plain, Instance, Over
<1>3. [s EXCEPT ![i].watch = w] = [s EXCEPT ![i] = r]
    BY DEF Calm
<1> HIDE DEF r
<1> QED
    BY <1>2, <1>3, CalmChange

LEMMA CalmExit ==
    ASSUME AllPlain, NEW i \in DOMAIN inst, NEW how \in {"zero", "nonzero"}
    PROVE  /\ Calm([inst EXCEPT ![i].bash = how])
           /\ [inst EXCEPT ![i].bash = how][i].bash = how
<1> DEFINE r == [inst[i] EXCEPT !.bash = how]
<1>1. Plain(inst[i]) /\ Calm(inst)
    BY DEF Calm, AllPlain
<1>2. Plain(r) /\ r.bash = how
    BY <1>1, PlainExit
<1>3. [inst EXCEPT ![i].bash = how] = [inst EXCEPT ![i] = r]
    OBVIOUS
<1> HIDE DEF r
<1>4. Calm([inst EXCEPT ![i] = r])
    BY <1>1, <1>2, CalmChange
<1>5. [inst EXCEPT ![i] = r][i] = r
    OBVIOUS
<1> QED
    BY <1>2, <1>3, <1>4, <1>5

LEMMA CalmKilled ==
    ASSUME TypeOK, AllPlain, NEW p \in PID, NEW how \in {"zero", "nonzero"}
    PROVE  Calm(Killed(p, how))
<1>1. Calm(inst)
    BY DEF Calm, AllPlain
<1>2. CASE ~isProcessAlive(p)
    BY <1>1, <1>2 DEF Killed
<1>3. CASE isProcessAlive(p) /\ p[1] \notin DOMAIN inst
    <2>1. /\ [inst EXCEPT ![p[1]].bash = how] = inst
          /\ [inst EXCEPT ![p[1]].child = FALSE] = inst
        BY <1>3, Instances DEF TypeOK
    <2> QED
        BY <1>1, <2>1 DEF Killed
<1>4. CASE isProcessAlive(p) /\ p[1] \in DOMAIN inst
    <2>1. p[2] = "bash"
        BY <1>4 DEF isProcessAlive, AllPlain, Plain
    <2> QED
        BY <1>4, <2>1, CalmExit DEF Killed
<1> QED
    BY <1>2, <1>3, <1>4

LEMMA CalmGroupKilled ==
    ASSUME TypeOK, AllPlain, NEW i \in DOMAIN inst, NEW how \in {"zero", "nonzero"}
    PROVE  Calm(GroupKilled(i, how)) /\ GroupKilled(i, how)[i].bash # "up"
<1>1. Plain(inst[i]) /\ Calm(inst)
    BY DEF Calm, AllPlain
<1>2. CASE inst[i].watch \notin {"unborn", "wait"}
    BY <1>1, <1>2 DEF GroupKilled, Plain
<1>3. CASE inst[i].watch \in {"unborn", "wait"}
    <2> DEFINE b == IF inst[i].bash = "up" THEN how ELSE inst[i].bash
               k == inst[i].child /\ inst[i].kind # "background"
               q == [inst[i] EXCEPT !.bash = b]
               r == [q EXCEPT !.child = k]
    <2>1. GroupKilled(i, how) = [inst EXCEPT ![i].bash = b, ![i].child = k]
        BY <1>1, <1>3 DEF GroupKilled
    <2>2. k = FALSE /\ b \in {"zero", "nonzero"}
        BY <1>1 DEF Plain, Instance
    <2> HIDE DEF b, k
    <2>3. Plain(q) /\ q.bash # "up"
        BY <1>1, <2>2, PlainExit
    <2>4. r = q
        BY <2>2, <2>3 DEF Plain, Instance
    <2>5. [inst EXCEPT ![i].bash = b, ![i].child = k] = [inst EXCEPT ![i] = r]
        OBVIOUS
    <2> HIDE DEF q, r
    <2>6. Calm([inst EXCEPT ![i] = r]) /\ [inst EXCEPT ![i] = r][i] = r
        BY <1>1, <2>3, <2>4, CalmChange
    <2> QED
        BY <2>1, <2>3, <2>4, <2>5, <2>6
<1> QED
    BY <1>2, <1>3

LEMMA CalmEnds ==
    ASSUME TypeOK, CallsInv, AllPlain, NEW c \in calls, NEW s, Calm(s), NEW w \in Over, EndsAt(c, s, w)
    PROVE  Calm(inst') /\ calls' = calls \ {c}
<1>1. calls' = calls \ {c} /\ inst' = IF c.by = 0 THEN s ELSE [s EXCEPT ![c.by].watch = w]
    BY DEF EndsAt
<1>2. CASE c.by = 0
    BY <1>1, <1>2
<1>3. CASE c.by # 0
    <2>1. c.by \in DOMAIN inst /\ inst[c.by].watch = "restarting"
        BY <1>3 DEF CallsInv, CallInv
    <2>2. inst[c.by].bash # "up" /\ s[c.by].bash # "up"
        BY <2>1 DEF AllPlain, Plain, Calm
    <2>3. Calm([s EXCEPT ![c.by].watch = w])
        BY <2>1, <2>2, CalmWatch
    <2> QED
        BY <1>1, <1>3, <2>3
<1> QED
    BY <1>2, <1>3

\* A step that launches nothing and leaves the calls and the registry alone.
LEMMA CalmStays ==
    ASSUME ForegroundInv, Calm(inst'), calls' = calls, registry' = registry,
           overlap' = overlap, stale' = stale
    PROVE  ForegroundInv'
<1>1. AllPlain' /\ Up' \subseteq Up
    BY DEF Calm, AllPlain, Up
<1>2. \A c : Expected(c)' = Expected(c)
    BY DEF Expected
<1> QED
    BY <1>1, <1>2 DEF ForegroundInv, OneByOne

\* A watchdog that acts has seen its instance end; it disturbs the registration
\* of its own instance, or it is stale.
LEMMA WatchedStays ==
    ASSUME TypeOK, CallsInv, ForegroundInv, NEW i \in DOMAIN inst, NEW r, Watched(i, r)
    PROVE  ForegroundInv'
<1>1. /\ inst' = [inst EXCEPT ![i] = r] /\ r \in Instance /\ SameRun(r, i)
      /\ inst[i].watch \notin {"unborn", "restarting"} \cup Over
      /\ inst[i].watch = "wait" => inst[i].bash # "up"
      /\ calls' = calls /\ overlap' = overlap /\ (stale => stale')
      /\ registry' \in {registry, 0, i}
      /\ registry' = registry \/ registry \in {0, i} \/ stale'
    BY DEF Watched
<1>2. AllPlain /\ Calm(inst) /\ Plain(inst[i]) /\ i # 0 /\ 0 \notin DOMAIN inst
    BY Instances DEF ForegroundInv, AllPlain, Calm
<1>3. inst[i].bash # "up" /\ r.bash # "up" /\ Plain(r)
    BY <1>1, <1>2 DEF Plain, SameRun
<1>4. Calm(inst')
    BY <1>1, <1>2, <1>3, CalmChange
<1>5. AllPlain' /\ Up' \subseteq Up /\ i \notin Up
    BY <1>3, <1>4 DEF Calm, AllPlain, Up
<1>6. CASE overlap \/ stale'
    BY <1>1, <1>5, <1>6 DEF ForegroundInv
<1>7. CASE ~overlap /\ ~stale'
    <2>1. OneByOne
        BY <1>1, <1>7 DEF ForegroundInv
    <2>2. calls = {} => Up' \subseteq {registry'}
        BY <1>1, <1>2, <1>5, <1>7, <2>1 DEF OneByOne, Up
    <2>3. ASSUME NEW c \in calls
          PROVE  Up' \subseteq Expected(c)' /\ (c.at = "write" => registry' = c.of)
        <3>1. Up \subseteq Expected(c) /\ (c.at = "write" => registry = c.of)
            BY <2>1 DEF OneByOne
        <3>2. c.at = "write" => c.of \notin {0, i}
            BY <1>1, <1>2 DEF CallsInv, CallInv
        <3>3. c.at = "write" => registry' = c.of
            BY <1>1, <1>7, <3>1, <3>2
        <3>4. CASE c.at = "load"
            <4>1. Up \subseteq {registry}
                BY <3>1, <3>4 DEF Expected
            <4>4. Expected(c)' = {registry'}
                BY <3>4 DEF Expected
            <4>2. CASE registry' = registry
                BY <1>5, <3>3, <4>1, <4>2, <4>4
            <4>3. CASE registry' # registry
                <5>1. registry \in {0, i}
                    BY <1>1, <1>7, <4>3
                <5>2. 0 \notin Up
                    BY <1>2 DEF Up
                <5>3. Up = {}
                    BY <1>5, <4>1, <5>1, <5>2
                <5> QED
                    BY <1>5, <3>3, <5>3
            <4> QED
                BY <4>2, <4>3
        <3>5. CASE c.at # "load"
            <4>1. Expected(c)' = Expected(c)
                BY <3>5 DEF Expected
            <4> QED
                BY <1>5, <3>1, <3>3, <4>1
        <3> QED
            BY <3>3, <3>4, <3>5
    <2> QED
        BY <1>1, <1>5, <2>1, <2>2, <2>3 DEF ForegroundInv, OneByOne
<1> QED
    BY <1>6, <1>7 DEF TypeOK

\* A call comes to its next position.
LEMMA CalmGoesOn ==
    ASSUME ForegroundInv, Calm(inst'), NEW c \in calls, NEW d, calls' = (calls \ {c}) \cup {d},
           overlap' = overlap, stale' = stale,
           OneByOne => Up' \subseteq Expected(d)' /\ (d.at = "write" => registry' = d.of)
    PROVE  ForegroundInv'
<1>1. AllPlain'
    BY DEF Calm, AllPlain
<1>2. OneByOne => calls' = {d}
    BY DEF OneByOne
<1> QED
    BY <1>1, <1>2 DEF ForegroundInv, OneByOne

LEMMA ForegroundCall ==
    ASSUME Scripts = {"blocking"}, TypeOK, CallsInv, ForegroundInv, NEW c \in calls, CallStep(c)
    PROVE  ForegroundInv'
<1>1. /\ AllPlain /\ Calm(inst) /\ c \in Call /\ DOMAIN inst = 1 .. Len(inst) /\ Len(inst) \in Nat
      /\ (~overlap /\ ~stale => OneByOne) /\ registry \in 0 .. MaxStarts
    BY Instances DEF ForegroundInv, AllPlain, Calm, TypeOK
<1>2. OneByOne => Up \subseteq Expected(c) /\ (c.at = "write" => registry = c.of)
    BY DEF OneByOne
<1>3. \A at \in {"kill", "remove", "idle", "launch", "write"} :
          [c EXCEPT !.at = at].at = at /\ [c EXCEPT !.at = at].of = c.of
    BY <1>1 DEF Call
<1>4. ASSUME Calm(inst') PROVE Up' \subseteq Up
    BY <1>4 DEF Calm, Up
<1>5. CASE StartMissing(c)
    <2>1. EndsAt(c, inst, "stranded") /\ c.at = "load" /\ overlap' = overlap /\ stale' = stale
          /\ registry' = registry /\ "stranded" \in Over
        BY <1>5 DEF StartMissing, Over
    <2>2. Calm(inst') /\ calls' = calls \ {c}
        BY <1>1, <2>1, CalmEnds
    <2>3. OneByOne => Up' \subseteq {registry'} /\ calls' = {}
        BY <1>2, <1>4, <2>1, <2>2 DEF Expected, OneByOne
    <2> QED
        BY <1>1, <2>1, <2>2, <2>3 DEF ForegroundInv, OneByOne, Calm, AllPlain
<1>15. CASE StartNothing(c)
    BY <1>15 DEF StartNothing
<1>6. CASE LoadOld(c)
    <2>1. PICK at, d : at = (IF registry = 0 THEN "fallback" ELSE "delete")
                       /\ d = [c EXCEPT !.of = registry, !.at = at]
        OBVIOUS
    <2>2. d.at = at /\ d.of = registry
        BY <1>1, <2>1 DEF Call
    <2>3. calls' = (calls \ {c}) \cup {d} /\ c.at = "load"
          /\ inst' = inst /\ registry' = registry /\ overlap' = overlap /\ stale' = stale
        BY <1>6, <2>1 DEF LoadOld
    <2>4. OneByOne => Up' \subseteq Expected(d)'
        <3>1. Up' = Up
            BY <2>3 DEF Up
        <3>2. OneByOne => Up \subseteq {registry}
            BY <1>2, <2>3 DEF Expected
        <3>3. 0 \notin Up
            BY <1>1 DEF Up
        <3> QED
            BY <2>1, <2>2, <2>3, <3>1, <3>2, <3>3 DEF Expected
    <2>5. d.at # "write" /\ Calm(inst')
        BY <1>1, <2>1, <2>2, <2>3
    <2> QED
        BY <2>3, <2>4, <2>5, CalmGoesOn
<1>7. CASE DeleteOld(c)
    <2> DEFINE d == [c EXCEPT !.at = "kill"]
    <2>1. d.at = "kill" /\ d.of = c.of /\ calls' = (calls \ {c}) \cup {d} /\ c.at = "delete"
          /\ inst' = inst /\ overlap' = overlap /\ stale' = stale
        BY <1>3, <1>7 DEF DeleteOld, Goes
    <2> HIDE DEF d
    <2>2. OneByOne => Up' \subseteq Expected(d)'
        BY <1>2, <2>1 DEF Expected, Up
    <2> QED
        BY <1>1, <2>1, <2>2, CalmGoesOn
<1>8. CASE KillOld(c)
    <2> DEFINE d == [c EXCEPT !.at = "remove"]
    <2>0. c.at = "kill" /\ c.of \in DOMAIN inst
        BY <1>8 DEF KillOld, CallsInv, CallInv
    <2>1. d.at = "remove" /\ calls' = (calls \ {c}) \cup {d} /\ overlap' = overlap /\ stale' = stale
        BY <1>3, <1>8 DEF KillOld, Goes
    <2>2. PICK how \in {"zero", "nonzero"} :
              inst' = IF inst[c.of].mode = "delegating" THEN Killed(inst[c.of].ext, how)
                      ELSE GroupKilled(c.of, how)
        BY <1>8 DEF KillOld
    <2>3. Calm(inst') /\ inst'[c.of].bash # "up"
        <3>1. CASE inst[c.of].mode = "delegating"
            <4>1. inst[c.of].ext \in PID /\ inst[c.of].bash # "up"
                BY <1>1, <2>0, <3>1 DEF AllPlain, Plain, Instance
            <4>2. Calm(inst')
                BY <1>1, <2>2, <3>1, <4>1, CalmKilled
            <4> QED
                BY <2>0, <4>1, <4>2 DEF Calm
        <3>2. CASE inst[c.of].mode # "delegating"
            BY <1>1, <2>0, <2>2, <3>2, CalmGroupKilled
        <3> QED
            BY <3>1, <3>2
    <2> HIDE DEF d
    <2>4. OneByOne => Up' \subseteq {}
        BY <1>2, <1>4, <2>0, <2>3 DEF Expected, Up
    <2> QED
        BY <2>1, <2>3, <2>4, CalmGoesOn
<1>9. CASE KillByPIDFile(c)
    <2> DEFINE d == [c EXCEPT !.at = "remove"]
    <2>1. d.at = "remove" /\ calls' = (calls \ {c}) \cup {d} /\ overlap' = overlap /\ stale' = stale
          /\ c.at = "fallback" /\ \E how \in {"zero", "nonzero"} : inst' = Killed(pidFile, how)
        BY <1>3, <1>9 DEF KillByPIDFile, Goes
    <2>2. Calm(inst')
        BY <1>1, <2>1, CalmKilled DEF TypeOK
    <2> HIDE DEF d
    <2>3. OneByOne => Up' \subseteq {}
        BY <1>2, <1>4, <2>1, <2>2 DEF Expected
    <2> QED
        BY <2>1, <2>2, <2>3, CalmGoesOn
<1>10. CASE RemovePIDFile(c)
    <2> DEFINE at == IF c.fn = "stop" THEN "idle" ELSE "launch"
               d == [c EXCEPT !.at = at]
    <2>1. at \in {"idle", "launch"}
        OBVIOUS
    <2>2. calls' = (calls \ {c}) \cup {d} /\ c.at = "remove" /\ inst' = inst /\ overlap' = overlap /\ stale' = stale
        BY <1>10 DEF RemovePIDFile, Goes
    <2> HIDE DEF at
    <2>3. d.at \in {"idle", "launch"}
        BY <1>3, <2>1
    <2> HIDE DEF d
    <2>4. OneByOne => Up' \subseteq {}
        BY <1>2, <2>2 DEF Expected, Up
    <2> QED
        BY <1>1, <2>2, <2>3, <2>4, CalmGoesOn
<1>11. CASE SetIdle(c) \/ LaunchFails(c)
    <2>1. /\ \E w \in Over : EndsAt(c, inst, w)
          /\ c.at \in {"idle", "launch"} /\ overlap' = overlap /\ stale' = stale
        BY <1>11 DEF SetIdle, LaunchFails, Ends, Over
    <2>2. Calm(inst') /\ calls' = calls \ {c}
        BY <1>1, <2>1, CalmEnds
    <2>3. OneByOne => Up' = {} /\ calls' = {}
        BY <1>2, <1>4, <2>1, <2>2 DEF Expected, OneByOne
    <2> QED
        BY <1>1, <2>1, <2>2, <2>3 DEF ForegroundInv, OneByOne, Calm, AllPlain
<1>12. CASE Launch(c)
    <2>1. PICK k \in Scripts \ {"missing"} : inst' = Append(inst, NewInstance(k, c.by))
        BY <1>12 DEF Launch
    <2>2. PICK r, n, d : r = NewInstance(k, c.by) /\ n = Len(inst')
                         /\ d = [c EXCEPT !.at = "store", !.of = n]
        OBVIOUS
    <2>3. Plain(r)
        <3>1. k = "blocking" /\ c.by \in 0 .. MaxStarts /\ NoPID \in PID
            BY <1>1 DEF Call, PID
        <3> QED
            BY <2>2, <3>1 DEF NewInstance, Plain, Instance, Kind
    <2>4. inst' = Append(inst, r)
        BY <2>1, <2>2
    <2>5. calls' = (calls \ {c}) \cup {d} /\ c.at = "launch" /\ overlap' = overlap /\ stale' = stale
        BY <1>12, <2>2 DEF Launch
    <2>6. d.at = "store" /\ d.of = n
        BY <1>1, <2>2 DEF Call
    <2>7. /\ DOMAIN inst' = 1 .. (Len(inst) + 1) /\ n = Len(inst) + 1 /\ inst'[n] = r
          /\ \A i \in DOMAIN inst : inst'[i] = inst[i]
        BY <1>1, <2>2, <2>4 DEF TypeOK
    <2>8. AllPlain'
        BY <1>1, <2>3, <2>7 DEF AllPlain
    <2>9. OneByOne => Up = {} /\ calls' = {d}
        BY <1>2, <2>5 DEF Expected, OneByOne
    <2>10. Up = {} => Up' \subseteq {n}
        BY <1>1, <2>7 DEF Up
    <2>11. Expected(d)' = {n} /\ d.at # "write"
        BY <2>6 DEF Expected
    <2> QED
        BY <1>1, <2>5, <2>8, <2>9, <2>10, <2>11 DEF ForegroundInv, OneByOne
<1>13. CASE Register(c)
    <2> DEFINE d == [c EXCEPT !.at = "write"]
    <2>1. d.at = "write" /\ d.of = c.of /\ calls' = (calls \ {c}) \cup {d} /\ c.at = "store"
          /\ inst' = inst /\ overlap' = overlap /\ stale' = stale /\ registry' = c.of
        BY <1>3, <1>13 DEF Register, Goes
    <2> HIDE DEF d
    <2>2. OneByOne => Up' \subseteq Expected(d)'
        BY <1>2, <2>1 DEF Expected, Up
    <2> QED
        BY <1>1, <2>1, <2>2, CalmGoesOn
<1>14. CASE StartWatching(c)
    <2> DEFINE s == [inst EXCEPT ![c.of].watch = "wait"]
    <2>1. c.at = "write" /\ c.of \in DOMAIN inst
        BY <1>14 DEF StartWatching, CallsInv, CallInv
    <2>2. Calm(s)
        BY <1>1, <2>1, CalmWatch
    <2>3. /\ EndsAt(c, s, "done") /\ "done" \in Over
          /\ overlap' = overlap /\ stale' = stale /\ registry' = registry
        BY <1>14 DEF StartWatching, Ends, Over
    <2> HIDE DEF s
    <2>4. Calm(inst') /\ calls' = calls \ {c}
        BY <1>1, <2>2, <2>3, CalmEnds
    <2>5. OneByOne => Up' \subseteq {registry'} /\ calls' = {}
        BY <1>2, <1>4, <2>1, <2>3, <2>4 DEF Expected, OneByOne
    <2> QED
        BY <1>1, <2>3, <2>4, <2>5 DEF ForegroundInv, OneByOne, Calm, AllPlain
<1> QED
    BY <1>5, <1>6, <1>7, <1>8, <1>9, <1>10, <1>11, <1>12, <1>13, <1>14, <1>15 DEF CallStep

LEMMA ForegroundEnters ==
    ASSUME TypeOK, ForegroundInv, Calm(inst'), NEW d, Enters(d), d.at = "load", registry' = registry,
           stale' = stale
    PROVE  ForegroundInv'
<1>1. AllPlain' /\ Up' \subseteq Up
    BY DEF Calm, AllPlain, Up
<1>2. ~overlap' /\ ~stale' => calls' = {d} /\ Up \subseteq {registry}
    BY DEF Enters, ForegroundInv, OneByOne, TypeOK
<1> QED
    BY <1>1, <1>2 DEF ForegroundInv, OneByOne, Expected

LEMMA ForegroundStep ==
    ASSUME Scripts = {"blocking"}, TypeOK, CallsInv, ForegroundInv, [Next]_vars
    PROVE  ForegroundInv'
<1>1. AllPlain /\ Calm(inst)
    BY DEF ForegroundInv, AllPlain, Calm
<1>2. CASE UNCHANGED vars
    BY <1>1, <1>2, CalmStays DEF vars
<1>3. CASE Deploy
    <2>1. PICK d : d = [id |-> deploys' + stops, by |-> 0, fn |-> "start", at |-> "load", of |-> 0]
        OBVIOUS
    <2>2. Enters(d) /\ inst' = inst /\ registry' = registry /\ d.at = "load" /\ stale' = stale
        BY <1>3, <2>1 DEF Deploy
    <2> QED
        BY <1>1, <2>2, ForegroundEnters
<1>4. CASE Stop
    <2>1. PICK d : d = [id |-> deploys + stops', by |-> 0, fn |-> "stop", at |-> "load", of |-> 0]
        OBVIOUS
    <2>2. Enters(d) /\ inst' = inst /\ registry' = registry /\ d.at = "load" /\ stale' = stale
        BY <1>4, <2>1 DEF Stop
    <2> QED
        BY <1>1, <2>2, ForegroundEnters
<1>5. ASSUME NEW c \in calls, CallStep(c) PROVE ForegroundInv'
    BY <1>5, ForegroundCall
<1>6. ASSUME NEW i \in DOMAIN inst, WatchStep(i) \/ AppStep(i) PROVE ForegroundInv'
    <2>1. Plain(inst[i]) /\ inst[i] \in Instance
        BY <1>1 DEF AllPlain, Plain
    <2>2. CASE WatchStep(i) /\ ~Restart(i)
        BY <2>2, WatchStepIs, WatchedStays
    <2>3. CASE HealthScriptFails(i)
        BY <2>3, HealthScriptFailing, WatchedStays
    <2>4. CASE Restart(i)
        <3>1. inst' = [inst EXCEPT ![i].watch = "restarting"] /\ inst[i].bash # "up"
            BY <2>1, <2>4 DEF Restart, Watches, Plain
        <3>2. Calm(inst')
            BY <1>1, <3>1, CalmWatch
        <3> DEFINE d == [id |-> 0, by |-> i, fn |-> "start", at |-> "load", of |-> 0]
        <3>3. Enters(d) /\ registry' = registry /\ d.at = "load" /\ stale' = stale
            BY <2>4 DEF Restart
        <3> HIDE DEF d
        <3> QED
            BY <3>2, <3>3, ForegroundEnters
    <2>5. CASE Crash(i)
        <3>1. Calm(inst')
            BY <1>1, <2>5, CalmExit DEF Crash
        <3> QED
            BY <2>5, <3>1, CalmStays DEF Crash
    <2>6. ~(Daemonise(i) \/ ExitZero(i) \/ ChildDies(i))
        BY <2>1 DEF Plain, Daemonise, ExitZero, ChildDies
    <2> QED
        BY <1>6, <2>2, <2>3, <2>4, <2>5, <2>6 DEF AppStep
<1> QED
    BY <1>2, <1>3, <1>4, <1>5, <1>6 DEF Next

-----------------------------------------------------------------------------

\* The variables hold what their Go declarations allow (pm.go:37-46), for
\* every set of scripts and all bounds.
THEOREM TypeCorrect == Spec => []TypeOK
<1>1. Init => TypeOK /\ StartInv
    BY InitTypeOK, InitStartInv
<1>2. TypeOK /\ StartInv /\ [Next]_vars => (TypeOK /\ StartInv)'
    BY NextTypeOK, NextStartInv DEF StartInv
<1> QED
    BY <1>1, <1>2, PTL DEF Spec

\* However many instances, deployments and stops there are and however they
\* overlap: the watchdog of an instance starts at most one other instance
\* (pm.go:242-252, 401-429).
THEOREM CrashesRestartOnce == Spec => []OneRestartPerInstance
<1>1. Init => TypeOK /\ StartInv
    BY InitTypeOK, InitStartInv
<1>2. TypeOK /\ StartInv /\ [Next]_vars => (TypeOK /\ StartInv)'
    BY NextTypeOK, NextStartInv DEF StartInv
<1>3. StartInv => OneRestartPerInstance
    BY DEF StartInv
<1> QED
    BY <1>1, <1>2, <1>3, PTL DEF Spec

\* As long as one restart is allowed (maxRestarts is 10, pm.go:63), the
\* registered instance has a watchdog that has not ended, or is about to get
\* one (pm.go:162-167, 222-398); a restart that found no codebase
\* (pm.go:69-71) is all that can end it before.
THEOREM RegisteredHasWatchdog ==
    ASSUME MaxRestarts >= 1 PROVE Spec => []RegisteredIsWatched
<1>1. Init => TypeOK /\ StartInv /\ RegisteredIsWatched
    BY InitTypeOK, InitStartInv DEF Init, RegisteredIsWatched
<1>2. TypeOK /\ StartInv /\ RegisteredIsWatched /\ [Next]_vars
        => (TypeOK /\ StartInv /\ RegisteredIsWatched)'
    BY NextTypeOK, NextStartInv, NextRegisteredIsWatched DEF StartInv
<1> QED
    BY <1>1, <1>2, PTL DEF Spec

\* When run.sh stays in the foreground, no application is left behind that is
\* up without being registered (pm.go:78-103, 174-219), however many
\* instances, crashes, restarts and stops there are and however they exit when
\* they are told to: unless two calls overlapped, or the watchdog of an older
\* instance has overwritten a registration.
THEOREM OrphansStemFromRaces == Spec => []OrphansHaveCause
<1>1. CASE Scripts = {"blocking"}
    <2>1. Init => TypeOK /\ StartInv /\ ForegroundInv
        <3>1. Init => TypeOK /\ StartInv
            BY InitTypeOK, InitStartInv
        <3>2. Init => ForegroundInv
            BY DEF Init, ForegroundInv, AllPlain, OneByOne, Up
        <3> QED
            BY <3>1, <3>2
    <2>2. TypeOK /\ StartInv /\ ForegroundInv /\ [Next]_vars => (TypeOK /\ StartInv /\ ForegroundInv)'
        BY <1>1, NextTypeOK, NextStartInv, ForegroundStep DEF StartInv
    <2>3. ForegroundInv => OrphansHaveCause
        BY DEF ForegroundInv, OneByOne, Up, OrphansHaveCause
    <2> QED
        BY <2>1, <2>2, <2>3, PTL DEF Spec
<1>2. CASE Scripts # {"blocking"}
    <2>1. OrphansHaveCause
        BY <1>2 DEF OrphansHaveCause
    <2> QED
        BY <2>1, PTL
<1> QED
    BY <1>1, <1>2


=============================================================================
