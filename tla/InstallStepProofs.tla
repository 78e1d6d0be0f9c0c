-------------------------- MODULE InstallStepProofs --------------------------
(***************************************************************************)
(* Theorems about InstallStep for any projects, any sharing of service     *)
(* users, any scripts and all bounds (TLC checks two projects of one user  *)
(* and two scripts).                                                       *)
(***************************************************************************)
EXTENDS InstallStep, TLAPS

-----------------------------------------------------------------------------
(* Types                                                                   *)

\* Where a thread that needs install.sh is until its install is recorded.
Installing == {"grant", "patch", "open", "run", "record"}

\* Who installs, or was granted sudo, has read a script; who is to remove the
\* sudoers file was granted it.
WellFormed(t) ==
    /\ t.at \in Installing => t.read \in Scripts
    /\ t.granted => t.read \in Scripts
    /\ t.at = "revoke" => t.granted
    /\ t.at = "clone" => ~t.granted

TypeInv == TypeOK /\ \A t \in threads : WellFormed(t)

\* What a step of t other than Grant makes of t: what it is and what it holds
\* stay, and it is alone only if it was.
Follows(t, u) ==
    /\ u \in Thread /\ WellFormed(u)
    /\ u.prj = t.prj /\ u.fn = t.fn /\ (u.alone => t.alone)
    /\ u.granted = t.granted /\ u.sole = t.sole

LEMMA NoScriptIsNoScript == NoScript \notin Scripts
    BY InstallAssumption

LEMMA InitTypeInv == Init => TypeInv
<1> SUFFICES ASSUME Init PROVE TypeInv
    OBVIOUS
<1>1. NoScript \in Contents /\ NoScript \in {patchShellScript(s) : s \in Scripts} \cup {NoScript}
    BY DEF Contents
<1>2. 0 \in 0 .. MaxThreads /\ 0 \in 0 .. MaxEvents
    BY InstallAssumption
<1> QED
    BY <1>1, <1>2 DEF Init, TypeInv, TypeOK

\* A step of thread t changes t alone, and a thread that holds a sudoers file
\* leaves only when it removes it.
LEMMA Moving ==
    ASSUME TypeInv, NEW t \in threads, ThreadStep(t), ~Grant(t)
    PROVE  \/ \E u : Follows(t, u) /\ Becomes(t, u)
           \/ threads' = threads \ {t} /\ (t.granted => Revoke(t))
<1>1. t \in Thread /\ WellFormed(t)
    BY DEF TypeInv, TypeOK
<1>2. /\ checkout[t.prj] \in Contents
      /\ patched[t.prj] \in {patchShellScript(s) : s \in Scripts} \cup {NoScript}
    BY <1>1 DEF TypeInv, TypeOK, Thread
\* Steps that only move on.
<1>3. ASSUME NEW at \in {"wipe", "unhash", "decide", "start", "patch", "clean", "revoke", "record"},
             at \in Installing => t.at \in Installing, at = "revoke" => t.granted, Goes(t, at)
      PROVE  \E u : Follows(t, u) /\ Becomes(t, u)
    <2> DEFINE u == [t EXCEPT !.at = at]
    <2>1. Follows(t, u)
        BY <1>1, <1>3 DEF Thread, Follows, WellFormed
    <2> QED
        BY <1>3, <2>1 DEF Goes
<1>4. CASE Clone(t) \/ CloneFails(t) \/ RollbackCleans(t) \/ RollbackForgets(t)
    <2>1. t.at = "clone" => ~t.granted
        BY <1>1 DEF WellFormed
    <2> QED
        BY <1>3, <1>4, <2>1 DEF Clone, CloneFails, RollbackCleans, RollbackForgets, Installing
<1>19. CASE RollbackCompares(t)
    <2>1. Goes(t, "decide") \/ Goes(t, "wipe")
        BY <1>19 DEF RollbackCompares
    <2> QED
        BY <1>3, <2>1 DEF Installing
<1>5. CASE NoInstall(t) \/ SkipInstall(t)
    BY <1>3, <1>5 DEF NoInstall, SkipInstall, Installing
<1>6. CASE NeedInstall(t)
    <2> DEFINE u == [t EXCEPT !.read = checkout[t.prj], !.at = "grant"]
    <2>1. checkout[t.prj] \in Scripts
        BY <1>2, <1>6 DEF NeedInstall, Contents
    <2>2. Follows(t, u)
        BY <1>1, <2>1 DEF Thread, Follows, WellFormed, Contents
    <2> QED
        BY <1>6, <2>2 DEF NeedInstall
<1>7. CASE GrantFails(t)
    BY <1>3, <1>7 DEF GrantFails, Installing
<1>8. CASE Patch(t)
    <2>1. PICK f \in {"original", "patched"} : Becomes(t, [t EXCEPT !.file = f, !.at = "open"])
        BY <1>8 DEF Patch
    <2>2. Follows(t, [t EXCEPT !.file = f, !.at = "open"])
        BY <1>1, <1>8 DEF Thread, Follows, WellFormed, Patch, Installing
    <2> QED
        BY <2>1, <2>2
<1>9. CASE OpenScript(t)
    <2> DEFINE u == [t EXCEPT !.code = Given(t), !.line = 1, !.at = "run"]
    <2>1. Given(t) \in {patchShellScript(s) : s \in Scripts} \cup Contents
        BY <1>2 DEF Given, Contents
    <2>2. Follows(t, u)
        BY <1>1, <1>9, <2>1 DEF Thread, Follows, WellFormed, OpenScript, Installing
    <2> QED
        BY <1>9, <2>2 DEF OpenScript
<1>10. CASE OpenFails(t)
    BY <1>3, <1>10 DEF OpenFails, Installing
<1>11. CASE LineSucceeds(t)
    <2>0. ASSUME NEW x, NEW y PROVE (x \/ y) \in BOOLEAN
        OBVIOUS
    <2>1. PICK b \in BOOLEAN, n \in Nat : Becomes(t, [t EXCEPT !.line = n, !.status = b])
        <3> DEFINE d == t.status \/ t.code[t.line] \in Commands \cup {"errexit", "strict"}
        <3>1. d \in BOOLEAN
            BY <2>0
        <3>2. Becomes(t, [t EXCEPT !.line = @ + 1, !.status = d])
            BY <1>11 DEF LineSucceeds
        <3>3. t.line + 1 \in Nat
            BY <1>1 DEF Thread
        <3> QED
            BY <3>1, <3>2, <3>3
    <2> DEFINE u == [t EXCEPT !.line = n, !.status = b]
    <2>2. /\ u \in Thread /\ u.prj = t.prj /\ u.fn = t.fn /\ u.alone = t.alone
          /\ u.granted = t.granted /\ u.sole = t.sole /\ u.at = t.at /\ u.read = t.read
        BY <1>1 DEF Thread
    <2>3. Becomes(t, u)
        BY <2>1
    <2> HIDE DEF u
    <2> QED
        BY <1>1, <2>2, <2>3 DEF Follows, WellFormed
<1>12. CASE LineIsPassedOver(t)
    <2>1. PICK b \in BOOLEAN, n \in Nat : Becomes(t, [t EXCEPT !.line = n, !.clean = FALSE, !.status = b])
        <3> DEFINE d == HidesFailure(t.code, t.line)
        <3>1. d \in BOOLEAN
            BY DEF HidesFailure
        <3>2. Becomes(t, [t EXCEPT !.line = @ + 1, !.clean = FALSE, !.status = d])
            BY <1>12 DEF LineIsPassedOver
        <3>3. t.line + 1 \in Nat
            BY <1>1 DEF Thread
        <3> QED
            BY <3>1, <3>2, <3>3
    <2> DEFINE u == [t EXCEPT !.line = n, !.clean = FALSE, !.status = b]
    <2>2. /\ u \in Thread /\ u.prj = t.prj /\ u.fn = t.fn /\ u.alone = t.alone
          /\ u.granted = t.granted /\ u.sole = t.sole /\ u.at = t.at /\ u.read = t.read
        BY <1>1 DEF Thread
    <2>3. Becomes(t, u)
        BY <2>1
    <2> HIDE DEF u
    <2> QED
        BY <1>1, <2>2, <2>3 DEF Follows, WellFormed
<1>13. CASE Fails(t) \/ Timeout(t)
    <2>1. ASSUME NEW u \in {Failed(t), [Failed(t) EXCEPT !.alone = FALSE]}
          PROVE  /\ u \in Thread /\ u.prj = t.prj /\ u.fn = t.fn /\ (u.alone => t.alone)
                 /\ u.granted = t.granted /\ u.sole = t.sole /\ u.at = "clean" /\ u.read = t.read
        <3>1. /\ Failed(t) \in Thread /\ Failed(t).prj = t.prj /\ Failed(t).fn = t.fn
              /\ Failed(t).alone = t.alone /\ Failed(t).granted = t.granted
              /\ Failed(t).sole = t.sole /\ Failed(t).at = "clean" /\ Failed(t).read = t.read
            BY <1>1 DEF Thread, Failed, Contents
        <3> DEFINE f == Failed(t)
                   v == [f EXCEPT !.alone = FALSE]
        <3> HIDE DEF f
        <3>2. /\ v \in Thread /\ v.prj = f.prj /\ v.fn = f.fn /\ v.alone = FALSE
              /\ v.granted = f.granted /\ v.sole = f.sole /\ v.at = f.at /\ v.read = f.read
            BY <3>1 DEF Thread, f
        <3> QED
            BY <3>1, <3>2 DEF f
    <2>2. PICK u \in {Failed(t), [Failed(t) EXCEPT !.alone = FALSE]} : Becomes(t, u)
        BY <1>13 DEF Fails, Timeout
    <2>3. Follows(t, u)
        BY <1>1, <2>1 DEF Follows, WellFormed, Installing
    <2> QED
        BY <2>2, <2>3
<1>14. CASE ExitZero(t)
    BY <1>3, <1>14 DEF ExitZero, Installing
<1>15. CASE Record(t)
    <2> DEFINE u == [t EXCEPT !.code = NoScript, !.line = 0, !.clean = TRUE, !.at = "start"]
    <2>1. Follows(t, u)
        BY <1>1 DEF Thread, Follows, WellFormed, Installing, Contents
    <2> QED
        BY <1>15, <2>1 DEF Record
<1>16. CASE Start(t)
    <2>1. t.read = NoScript => ~t.granted
        BY <1>1, NoScriptIsNoScript DEF WellFormed
    <2> QED
        BY <1>3, <1>16, <2>1 DEF Start, Installing
<1>17. CASE RemovePatched(t)
    BY <1>3, <1>17 DEF RemovePatched, Installing
<1>18. CASE Revoke(t)
    BY <1>18 DEF Revoke
<1> QED
    BY <1>4, <1>5, <1>6, <1>7, <1>8, <1>9, <1>10, <1>11, <1>12, <1>13, <1>14, <1>15, <1>16,
       <1>17, <1>18, <1>19 DEF ThreadStep, LineStops, ExitNonzero

\* What Grant makes of its thread and of the other threads.
Granted(t) == [t EXCEPT !.granted = TRUE, !.sole = Holders(Owner[t.prj]) = {}, !.at = "patch"]
Besides(h, t) == [h EXCEPT !.sole = @ /\ h \notin Holders(Owner[t.prj])]

\* Grant takes the sole right to the sudoers file from who has it.
LEMMA Granting ==
    ASSUME TypeInv, NEW t \in threads, Grant(t)
    PROVE  /\ threads' = {Besides(h, t) : h \in threads \ {t}} \cup {Granted(t)}
           /\ Granted(t) \in Thread /\ WellFormed(Granted(t))
           /\ Granted(t).prj = t.prj /\ Granted(t).fn = t.fn
           /\ Granted(t).alone = t.alone /\ Granted(t).read = t.read
           /\ Granted(t).at = "patch" /\ Granted(t).granted /\ Granted(t).clean = t.clean
           /\ Granted(t).sole <=> Holders(Owner[t.prj]) = {}
           /\ \A h \in threads :
                 /\ Besides(h, t) \in Thread /\ WellFormed(Besides(h, t))
                 /\ Besides(h, t).prj = h.prj /\ Besides(h, t).fn = h.fn
                 /\ Besides(h, t).at = h.at /\ Besides(h, t).alone = h.alone
                 /\ Besides(h, t).granted = h.granted
                 /\ Besides(h, t).sole <=> h.sole /\ h \notin Holders(Owner[t.prj])
                 /\ Besides(h, t).read = h.read /\ Besides(h, t).file = h.file
                 /\ Besides(h, t).code = h.code /\ Besides(h, t).clean = h.clean
                 /\ Besides(h, t).line = h.line
<1>1. \A h \in threads : h \in Thread /\ WellFormed(h)
    BY DEF TypeInv, TypeOK
<1>2. threads' = {Besides(h, t) : h \in threads \ {t}} \cup {Granted(t)}
    BY DEF Grant, Besides, Granted
<1>3. /\ Granted(t) \in Thread /\ Granted(t).prj = t.prj /\ Granted(t).fn = t.fn
      /\ Granted(t).alone = t.alone /\ Granted(t).read = t.read
      /\ Granted(t).at = "patch" /\ Granted(t).granted /\ Granted(t).clean = t.clean
      /\ Granted(t).sole <=> Holders(Owner[t.prj]) = {}
    BY <1>1 DEF Thread, Granted
<1>4. WellFormed(Granted(t))
    BY <1>1, <1>3 DEF WellFormed, Grant, Installing
<1>5. ASSUME NEW h \in threads
      PROVE  /\ Besides(h, t) \in Thread
             /\ Besides(h, t).prj = h.prj /\ Besides(h, t).fn = h.fn
             /\ Besides(h, t).at = h.at /\ Besides(h, t).alone = h.alone
             /\ Besides(h, t).granted = h.granted
             /\ Besides(h, t).sole <=> h.sole /\ h \notin Holders(Owner[t.prj])
             /\ Besides(h, t).read = h.read /\ Besides(h, t).file = h.file
             /\ Besides(h, t).code = h.code /\ Besides(h, t).clean = h.clean
             /\ Besides(h, t).line = h.line
    BY <1>1 DEF Thread, Besides
<1>6. \A h \in threads : WellFormed(Besides(h, t))
    BY <1>1, <1>5 DEF WellFormed
<1> QED
    BY <1>2, <1>3, <1>4, <1>5, <1>6

\* What the start of a thread of project p makes of the others.
Joined(h, p) == [h EXCEPT !.alone = @ /\ h.prj # p]

\* A thread that starts: it holds nothing, and no thread of its project is
\* alone any longer.
LEMMA Starting ==
    ASSUME TypeInv, NEW p \in Projects, NEW f \in {"deploy", "rollback"},
           NEW at \in {"decide", "compare", "clone"}, Starts(p, f, at)
    PROVE  /\ started' \in 0 .. MaxThreads
           /\ \E w \in Thread :
                 /\ threads' = {Joined(h, p) : h \in threads} \cup {w}
                 /\ WellFormed(w) /\ w.prj = p /\ w.fn = f /\ w.at = at /\ ~w.granted /\ w.clean
                 /\ w.alone <=> Undisturbed(p)
           /\ \A h \in threads :
                 /\ Joined(h, p) \in Thread /\ WellFormed(Joined(h, p))
                 /\ Joined(h, p).prj = h.prj /\ Joined(h, p).fn = h.fn /\ Joined(h, p).at = h.at
                 /\ Joined(h, p).granted = h.granted /\ Joined(h, p).sole = h.sole
                 /\ Joined(h, p).alone <=> (h.alone /\ h.prj # p)
                 /\ Joined(h, p).read = h.read /\ Joined(h, p).file = h.file
                 /\ Joined(h, p).code = h.code /\ Joined(h, p).clean = h.clean
                 /\ Joined(h, p).line = h.line
<1>1. \A h \in threads : h \in Thread /\ WellFormed(h)
    BY DEF TypeInv, TypeOK
<1> DEFINE w == [id |-> started + 1, prj |-> p, fn |-> f, at |-> at, read |-> NoScript,
                 file |-> "none", code |-> NoScript, line |-> 0, status |-> TRUE,
                 clean |-> TRUE, granted |-> FALSE, alone |-> Undisturbed(p), sole |-> TRUE]
<1>2. threads' = {Joined(h, p) : h \in threads} \cup {w}
    BY DEF Starts, Joined
<1>3. started' \in 0 .. MaxThreads /\ started + 1 \in 1 .. MaxThreads
    BY InstallAssumption DEF Starts, TypeInv, TypeOK
<1>4. w \in Thread
    <2>1. Undisturbed(p) \in BOOLEAN /\ 0 \in Nat /\ NoScript \in Contents
        BY DEF Contents, Undisturbed
    <2> QED
        BY <1>3, <2>1 DEF Thread
<1>5. /\ WellFormed(w) /\ w.prj = p /\ w.fn = f /\ w.at = at /\ ~w.granted /\ w.clean
      /\ w.alone <=> Undisturbed(p)
    BY DEF WellFormed, Installing
<1>6. ASSUME NEW h \in threads
      PROVE  /\ Joined(h, p) \in Thread
             /\ Joined(h, p).prj = h.prj /\ Joined(h, p).fn = h.fn /\ Joined(h, p).at = h.at
             /\ Joined(h, p).granted = h.granted /\ Joined(h, p).sole = h.sole
             /\ Joined(h, p).alone <=> (h.alone /\ h.prj # p)
             /\ Joined(h, p).read = h.read /\ Joined(h, p).file = h.file
             /\ Joined(h, p).code = h.code /\ Joined(h, p).clean = h.clean
             /\ Joined(h, p).line = h.line
    BY <1>1 DEF Thread, Joined
<1>7. \A h \in threads : WellFormed(Joined(h, p))
    BY <1>1, <1>6 DEF WellFormed
<1> HIDE DEF w
<1>8. \E v \in Thread : /\ threads' = {Joined(h, p) : h \in threads} \cup {v}
                        /\ WellFormed(v) /\ v.prj = p /\ v.fn = f /\ v.at = at /\ ~v.granted /\ v.clean
                        /\ v.alone <=> Undisturbed(p)
    BY <1>2, <1>4, <1>5
<1> QED
    BY <1>3, <1>6, <1>7, <1>8

\* The files keep their types in a step of a thread.
LEMMA FilesKeepTypes ==
    ASSUME TypeInv, NEW t \in threads, ThreadStep(t)
    PROVE  /\ checkout' \in [Projects -> Contents] /\ hash' \in [Projects -> Contents]
           /\ env' \in [Projects -> Contents]
           /\ patched' \in [Projects -> {patchShellScript(s) : s \in Scripts} \cup {NoScript}]
           /\ sudoers' \subseteq Users /\ left' \subseteq Users
           /\ doubt' \subseteq Projects /\ strays' \subseteq Projects
           /\ UNCHANGED bounds
<1>1. t.prj \in Projects /\ t.read \in Contents /\ NoScript \in Contents
      /\ Owner[t.prj] \in Users
    BY InstallAssumption DEF TypeInv, TypeOK, Thread, Contents
<1>2. UNCHANGED bounds /\ checkout' \in [Projects -> Contents]
    <2>1. UNCHANGED bounds /\ (checkout' = checkout
                             \/ \E s \in Contents : checkout' = [checkout EXCEPT ![t.prj] = s])
        BY DEF ThreadStep, Clone, CloneFails, RollbackCompares, RollbackCleans, RollbackForgets, NoInstall,
           SkipInstall, NeedInstall, Grant, GrantFails, Patch, OpenScript, OpenFails, LineSucceeds,
           LineIsPassedOver, LineStops, Timeout, ExitNonzero, Fails, ExitZero, Record, Start,
           RemovePatched, Revoke, files
    <2> QED
        BY <2>1 DEF TypeInv, TypeOK
<1>3. hash' \in [Projects -> Contents]
    <2>1. hash' = hash \/ \E s \in Contents : hash' = [hash EXCEPT ![t.prj] = s]
        BY <1>1 DEF ThreadStep, Clone, CloneFails, RollbackCompares, RollbackCleans, RollbackForgets, NoInstall, SkipInstall, NeedInstall, Grant,
           GrantFails, Patch, OpenScript, OpenFails, LineSucceeds, LineIsPassedOver, LineStops,
           Timeout, ExitNonzero, Fails, Failed, ExitZero, Record, Start, RemovePatched, Revoke, files
    <2> QED
        BY <2>1 DEF TypeInv, TypeOK
<1>4. env' \in [Projects -> Contents]
    <2>1. env' = env \/ \E s \in Contents : env' = [env EXCEPT ![t.prj] = s]
        BY <1>1 DEF ThreadStep, Clone, CloneFails, RollbackCompares, RollbackCleans, RollbackForgets, NoInstall, SkipInstall, NeedInstall, Grant,
           GrantFails, Patch, OpenScript, OpenFails, LineSucceeds, LineIsPassedOver, LineStops,
           Timeout, ExitNonzero, Fails, Failed, ExitZero, Record, Start, RemovePatched, Revoke
    <2> QED
        BY <2>1 DEF TypeInv, TypeOK
<1>5. patched' \in [Projects -> {patchShellScript(s) : s \in Scripts} \cup {NoScript}]
    <2>1. CASE Patch(t)
        <3> DEFINE s == checkout[t.prj]
                   differs == IF s = NoScript THEN FALSE ELSE patchShellScript(s) # s
        <3>1. patched' = IF differs THEN [patched EXCEPT ![t.prj] = patchShellScript(s)] ELSE patched
            BY <2>1 DEF Patch
        <3>2. differs => s \in Scripts
            BY <1>1 DEF TypeInv, TypeOK, Contents
        <3> QED
            BY <3>1, <3>2 DEF TypeInv, TypeOK
    <2>2. CASE RemovePatched(t)
        BY <2>2 DEF RemovePatched, TypeInv, TypeOK
    <2>3. CASE ~Patch(t) /\ ~RemovePatched(t)
        <3>1. patched' = patched
            BY <2>3 DEF ThreadStep, Clone, CloneFails, RollbackCompares, RollbackCleans, RollbackForgets, NoInstall, SkipInstall, NeedInstall, Grant,
               GrantFails, OpenScript, OpenFails, LineSucceeds, LineIsPassedOver, LineStops,
               Timeout, ExitNonzero, Fails, Failed, ExitZero, Record, Start, Revoke, files
        <3> QED
            BY <3>1 DEF TypeInv, TypeOK
    <2> QED
        BY <2>1, <2>2, <2>3
<1>6. /\ sudoers' \subseteq Users /\ left' \subseteq Users
      /\ doubt' \subseteq Projects /\ strays' \subseteq Projects
    <2>1. /\ sudoers' \subseteq sudoers \cup {Owner[t.prj]} /\ left' \subseteq left
          /\ doubt' \subseteq doubt \cup {t.prj} /\ strays' \subseteq strays \cup {t.prj}
        BY DEF ThreadStep, Clone, CloneFails, RollbackCompares, RollbackCleans, RollbackForgets, NoInstall,
           SkipInstall, NeedInstall, Grant, GrantFails, Patch, OpenScript, OpenFails, LineSucceeds,
           LineIsPassedOver, LineStops, Timeout, ExitNonzero, Fails, ExitZero, Record, Start,
           RemovePatched, Revoke, files
    <2> QED
        BY <1>1, <2>1 DEF TypeInv, TypeOK
<1> QED
    BY <1>2, <1>3, <1>4, <1>5, <1>6

LEMMA NextTypeInv == TypeInv /\ [Next]_vars => TypeInv'
<1> SUFFICES ASSUME TypeInv, [Next]_vars PROVE TypeInv'
    OBVIOUS
<1>1. \A h \in threads : h \in Thread /\ WellFormed(h)
    BY DEF TypeInv, TypeOK
<1>2. ASSUME NEW t \in threads, ThreadStep(t) PROVE TypeInv'
    <2>1. \A h \in threads' : h \in Thread /\ WellFormed(h)
        <3>1. CASE Grant(t)
            BY <1>1, <1>2, <3>1, Granting
        <3>2. CASE ~Grant(t)
            BY <1>1, <1>2, <3>2, Moving DEF Follows, Becomes
        <3> QED
            BY <3>1, <3>2
    <2> QED
        BY <1>2, <2>1, FilesKeepTypes DEF TypeInv, TypeOK, bounds, WellFormed
<1>3. ASSUME NEW p \in Projects, Deploy(p) \/ DeployAnew(p) \/ Rollback(p) PROVE TypeInv'
    <2>1. PICK f \in {"deploy", "rollback"}, at \in {"decide", "compare", "clone"} : Starts(p, f, at)
        BY <1>3 DEF Deploy, DeployAnew, Rollback
    <2>2. started' \in 0 .. MaxThreads /\ \A h \in threads' : h \in Thread /\ WellFormed(h)
        BY <2>1, Starting
    <2>3. /\ doubt' \subseteq Projects
          /\ checkout' \in [Projects -> Contents] /\ env' \in [Projects -> Contents]
          /\ UNCHANGED <<hash, patched, sudoers, strays, left>>
        BY <1>3, <2>1 DEF Deploy, DeployAnew, Rollback, Starts, TypeInv, TypeOK, Contents
    <2>4. events' \in 0 .. MaxEvents
        BY <1>3, InstallAssumption DEF Deploy, DeployAnew, Rollback, Counts, TypeInv, TypeOK
    <2> QED
        BY <2>2, <2>3, <2>4 DEF TypeInv, TypeOK, WellFormed
<1>4. ASSUME NEW p \in Projects, Reinstall(p) PROVE TypeInv'
    <2>1. events' \in 0 .. MaxEvents
        BY <1>4, InstallAssumption DEF Reinstall, Counts, TypeInv, TypeOK
    <2>2. hash' \in [Projects -> Contents]
        BY <1>4 DEF Reinstall, Contents, TypeInv, TypeOK
    <2> QED
        BY <1>4, <2>1, <2>2 DEF Reinstall, TypeInv, TypeOK, WellFormed
<1>5. CASE Crash
    <2>1. events' \in 0 .. MaxEvents
        BY <1>5, InstallAssumption DEF Crash, Counts, TypeInv, TypeOK
    <2>2. doubt' \subseteq Projects /\ strays' \subseteq Projects
        BY <1>1, <1>5 DEF Crash, ProjectsAt, TypeInv, TypeOK, Thread
    <2> QED
        BY <1>5, <2>1, <2>2 DEF Crash, files, TypeInv, TypeOK
<1>6. CASE UNCHANGED vars
    BY <1>6 DEF vars, files, bounds, TypeInv, TypeOK, WellFormed
<1>7. ASSUME NEW p \in Projects, StraysWork(p) PROVE TypeInv'
    <2>1. env' \in [Projects -> Contents] /\ strays' \subseteq Projects
        BY <1>7 DEF StraysWork, Contents, TypeInv, TypeOK
    <2> QED
        BY <1>7, <2>1 DEF StraysWork, files, bounds, TypeInv, TypeOK, WellFormed
<1> QED
    BY <1>2, <1>3, <1>4, <1>5, <1>6, <1>7 DEF Next

\* The files hold scripts, and threads are where RunDeployment can be, for any
\* projects and scripts (executor.go:347-487).
THEOREM TypeCorrect == Spec => []TypeOK
<1>1. Spec => []TypeInv
    BY InitTypeInv, NextTypeInv, PTL DEF Spec
<1> QED
    BY <1>1, PTL DEF TypeInv

-----------------------------------------------------------------------------
(* The sudoers file                                                        *)

Owned(t) == Owner[t.prj]

\* The two properties, spelled out, and that a sole holder is the only one of
\* its user.
SudoInv ==
    /\ \A u \in sudoers : u \in left \/ \E t \in threads : t.granted /\ Owned(t) = u
    /\ \A t \in threads : t.granted /\ t.sole => Owned(t) \in sudoers
    /\ \A t, h \in threads : t.granted /\ h.granted /\ Owned(t) = Owned(h) /\ t.sole => t = h

LEMMA InitSudoInv == Init => SudoInv
    BY DEF Init, SudoInv

LEMMA SudoInvImplies == SudoInv => SudoIsTemporary /\ GrantsAreKept
    BY DEF SudoInv, SudoIsTemporary, GrantsAreKept, Holders, Holds, Owned

LEMMA GrantKeepsSudoInv ==
    ASSUME TypeInv, SudoInv, NEW t \in threads, Grant(t)
    PROVE  SudoInv'
<1> DEFINE u == Owned(t)
           g == Granted(t)
<1>1. /\ threads' = {Besides(h, t) : h \in threads \ {t}} \cup {g}
      /\ Owned(g) = u /\ g.granted
      /\ g.sole <=> Holders(u) = {}
      /\ \A h \in threads : /\ Owned(Besides(h, t)) = Owned(h)
                            /\ Besides(h, t).granted = h.granted
                            /\ Besides(h, t).sole <=> h.sole /\ h \notin Holders(u)
    BY Granting DEF Owned
<1>2. sudoers' = sudoers \cup {u} /\ left' = left
    BY DEF Grant, Owned
<1>3. \A h \in threads : h \in Holders(u) <=> h.granted /\ Owned(h) = u
    BY DEF Holders, Holds, Owned
<1> HIDE DEF g, u
<1>4. \A v \in sudoers' : v \in left' \/ \E h \in threads' : h.granted /\ Owned(h) = v
    <2> SUFFICES ASSUME NEW v \in sudoers, v # u, v \notin left
                 PROVE  \E h \in threads' : h.granted /\ Owned(h) = v
        BY <1>1, <1>2
    <2>1. PICK h \in threads : h.granted /\ Owned(h) = v
        BY DEF SudoInv
    <2>2. h # t
        BY <2>1 DEF u
    <2> QED
        BY <1>1, <2>1, <2>2
<1>5. \A h \in threads' : h.granted /\ h.sole => Owned(h) \in sudoers'
    BY <1>1, <1>2 DEF SudoInv
<1>6. ASSUME NEW a \in threads', NEW b \in threads', a.granted, b.granted, Owned(a) = Owned(b),
             a.sole
      PROVE  a = b
    <2>1. CASE a = g
        <3>1. Holders(u) = {} /\ Owned(b) = u
            BY <1>1, <1>6, <2>1
        <3>2. b = g
            BY <1>1, <1>3, <1>6, <3>1
        <3> QED
            BY <2>1, <3>2
    <2>2. CASE a # g
        <3>1. PICK x \in threads \ {t} : a = Besides(x, t)
            BY <1>1, <2>2
        <3>2. x.granted /\ x.sole /\ x \notin Holders(u) /\ Owned(x) = Owned(a)
            BY <1>1, <1>6, <3>1
        <3>3. Owned(x) # u
            BY <1>3, <3>2
        <3>4. PICK y \in threads \ {t} : b = Besides(y, t)
            BY <1>1, <1>6, <3>2, <3>3
        <3>5. y.granted /\ Owned(y) = Owned(x)
            BY <1>1, <1>6, <3>2, <3>4
        <3> QED
            BY <3>1, <3>2, <3>4, <3>5 DEF SudoInv
    <2> QED
        BY <2>1, <2>2
<1> QED
    BY <1>4, <1>5, <1>6 DEF SudoInv

LEMMA NextSudoInv == TypeInv /\ SudoInv /\ [Next]_vars => SudoInv'
<1> SUFFICES ASSUME TypeInv, SudoInv, [Next]_vars PROVE SudoInv'
    OBVIOUS
<1>1. ASSUME NEW t \in threads, ThreadStep(t), ~Grant(t) PROVE SudoInv'
    <2>1. CASE Revoke(t)
        <3>1. threads' = threads \ {t} /\ sudoers' = sudoers \ {Owned(t)} /\ left' = left \ {Owned(t)}
            BY <2>1 DEF Revoke, Owned
        <3>2. t.granted
            BY <2>1 DEF TypeInv, WellFormed, Revoke
        <3> QED
            BY <3>1, <3>2 DEF SudoInv
    <2>2. CASE ~Revoke(t)
        <3>1. sudoers' = sudoers /\ left' = left
            BY <1>1, <2>2 DEF ThreadStep, Clone, CloneFails, RollbackCompares, RollbackCleans, RollbackForgets, NoInstall, SkipInstall, NeedInstall,
               GrantFails, Patch, OpenScript, OpenFails, LineSucceeds, LineIsPassedOver, LineStops,
               Timeout, ExitNonzero, Fails, Failed, ExitZero, Record, Start, RemovePatched, files
        <3>2. CASE \E u : Follows(t, u) /\ Becomes(t, u)
            <4>1. PICK u : Follows(t, u) /\ Becomes(t, u)
                BY <3>2
            <4>2. /\ threads' = (threads \ {t}) \cup {u}
                  /\ Owned(u) = Owned(t) /\ u.granted = t.granted /\ u.sole = t.sole
                BY <4>1 DEF Follows, Becomes, Owned
            <4> QED
                BY <3>1, <4>2 DEF SudoInv
        <3>3. CASE threads' = threads \ {t} /\ ~t.granted
            BY <3>1, <3>3 DEF SudoInv
        <3> QED
            BY <1>1, <2>2, <3>2, <3>3, Moving
    <2> QED
        BY <2>1, <2>2
<1>2. ASSUME NEW t \in threads, Grant(t) PROVE SudoInv'
    BY <1>2, GrantKeepsSudoInv
<1>3. ASSUME NEW p \in Projects, Deploy(p) \/ DeployAnew(p) \/ Rollback(p) PROVE SudoInv'
    <2>1. PICK f \in {"deploy", "rollback"}, at \in {"decide", "compare", "clone"} : Starts(p, f, at)
        BY <1>3 DEF Deploy, DeployAnew, Rollback
    <2>2. PICK w : threads' = {Joined(h, p) : h \in threads} \cup {w} /\ ~w.granted
        BY <2>1, Starting
    <2>3. \A h \in threads : /\ Owned(Joined(h, p)) = Owned(h)
                             /\ Joined(h, p).granted = h.granted /\ Joined(h, p).sole = h.sole
        BY <2>1, Starting DEF Owned
    <2>4. sudoers' = sudoers /\ left' = left
        BY <1>3 DEF Deploy, DeployAnew, Rollback
    <2>5. \A u \in sudoers' : u \in left' \/ \E h \in threads' : h.granted /\ Owned(h) = u
        BY <2>2, <2>3, <2>4 DEF SudoInv
    <2>6. \A h \in threads' : h.granted /\ h.sole => Owned(h) \in sudoers'
        BY <2>2, <2>3, <2>4 DEF SudoInv
    <2>7. ASSUME NEW a \in threads', NEW b \in threads', a.granted, b.granted,
                 Owned(a) = Owned(b), a.sole
          PROVE  a = b
        <3>1. PICK x \in threads : a = Joined(x, p)
            BY <2>2, <2>7
        <3>2. PICK y \in threads : b = Joined(y, p)
            BY <2>2, <2>7
        <3>3. x = y
            BY <2>3, <2>7, <3>1, <3>2 DEF SudoInv
        <3> QED
            BY <3>1, <3>2, <3>3
    <2> QED
        BY <2>5, <2>6, <2>7 DEF SudoInv
<1>4. ASSUME NEW p \in Projects, Reinstall(p) \/ StraysWork(p) PROVE SudoInv'
    BY <1>4 DEF SudoInv, Reinstall, StraysWork, files
<1>5. CASE Crash
    BY <1>5 DEF SudoInv, Crash, files
<1>6. CASE UNCHANGED vars
    BY <1>6 DEF SudoInv, vars, files
<1> QED
    BY <1>1, <1>2, <1>3, <1>4, <1>5, <1>6 DEF Next

\* For any projects and users: the sudoers file is there only while a thread
\* that will remove it is inside RunDeployment (executor.go:377-381), or a
\* crash has left it.
THEOREM SudoGoesAway == Spec => []SudoIsTemporary
<1>1. Init => TypeInv /\ SudoInv
    BY InitTypeInv, InitSudoInv
<1>2. TypeInv /\ SudoInv /\ [Next]_vars => (TypeInv /\ SudoInv)'
    BY NextTypeInv, NextSudoInv
<1> QED
    BY <1>1, <1>2, SudoInvImplies, PTL DEF Spec

\* For any projects and users: a thread whose user no other project has
\* installed with at the same time keeps the privileges it was granted.
THEOREM SoleGrantsStay == Spec => []GrantsAreKept
<1>1. Init => TypeInv /\ SudoInv
    BY InitTypeInv, InitSudoInv
<1>2. TypeInv /\ SudoInv /\ [Next]_vars => (TypeInv /\ SudoInv)'
    BY NextTypeInv, NextSudoInv
<1> QED
    BY <1>1, <1>2, SudoInvImplies, PTL DEF Spec

-----------------------------------------------------------------------------
(* What the patcher achieves                                               *)

\* A patched script is a script.
LEMMA PatchedIsScript ==
    ASSUME NEW s \in Seq(Line)
    PROVE  /\ injectSafetyFlags(s) \in Seq(Line)
           /\ patchShellScript(s) \in Seq(Line)
           /\ Len(patchShellScript(s)) = Len(injectSafetyFlags(s))
           /\ \A k \in 1 .. Len(injectSafetyFlags(s)) :
                 patchShellScript(s)[k] = moveSudoAToFront(injectSafetyFlags(s)[k])
<1> DEFINE inj == injectSafetyFlags(s)
           out == patchShellScript(s)
<1>1. inj \in Seq(Line)
    <2>1. <<"errexit">> \in Seq(Line) /\ <<"shebang", "errexit">> \in Seq(Line)
        BY DEF Line
    <2>2. CASE hasSetE(s)
        BY <2>2 DEF injectSafetyFlags
    <2>3. CASE ~hasSetE(s) /\ s # <<>> /\ Head(s) = "shebang"
        <3>1. Tail(s) \in Seq(Line)
            BY <2>3
        <3>2. inj = <<"shebang", "errexit">> \o Tail(s)
            BY <2>3 DEF injectSafetyFlags
        <3> QED
            BY <2>1, <3>1, <3>2
    <2>4. CASE ~hasSetE(s) /\ ~(s # <<>> /\ Head(s) = "shebang")
        <3>1. inj = <<"errexit">> \o s
            BY <2>4 DEF injectSafetyFlags
        <3> QED
            BY <2>1, <3>1
    <2> QED
        BY <2>2, <2>3, <2>4
<1>2. /\ out = [k \in 1 .. Len(inj) |-> moveSudoAToFront(inj[k])] /\ Len(inj) \in Nat
      /\ \A k \in 1 .. Len(inj) : inj[k] \in Line
    BY <1>1 DEF patchShellScript, normalizeSudoAFlags
<1>3. \A k \in 1 .. Len(inj) : moveSudoAToFront(inj[k]) \in Line
    BY <1>2 DEF moveSudoAToFront, isSudoCommandLine, Line, Commands
<1>4. out \in Seq(Line)
    BY <1>2, <1>3
<1> QED
    BY <1>1, <1>2, <1>4

\* In a patched script that was not lax, a command that fails ends the script:
\* set -e is in force and no pipeline hides the failure.
LEMMA PatchedScriptsStop ==
    ASSUME NEW s \in Seq(Line), ~Lax(s), NEW i \in 1 .. Len(patchShellScript(s)),
           patchShellScript(s)[i] \in Commands
    PROVE  InForce(patchShellScript(s), i) /\ ~HidesFailure(patchShellScript(s), i)
<1> DEFINE inj == injectSafetyFlags(s)
           out == patchShellScript(s)
<1>1. Len(s) \in Nat /\ DOMAIN s = 1 .. Len(s) /\ \A k \in 1 .. Len(s) : s[k] \in Line
    OBVIOUS
<1>2. \A k \in 1 .. Len(s) : ~HidesFailure(s, k)
    BY <1>1 DEF Lax
<1>3. inj \in Seq(Line) /\ Len(out) = Len(inj)
      /\ \A k \in 1 .. Len(inj) : out[k] = moveSudoAToFront(inj[k])
    BY PatchedIsScript
<1>4. Len(inj) \in Nat /\ \A k \in 1 .. Len(inj) : inj[k] \in Line
    BY <1>3
<1>6. i \in 1 .. Len(inj)
    BY <1>3
<1>7. \A k \in 1 .. Len(inj) :
         /\ out[k] \in Commands <=> inj[k] \in Commands
         /\ out[k] = "pipe" <=> inj[k] = "pipe"
         /\ out[k] = "errexit" <=> inj[k] = "errexit"
         /\ out[k] = "strict" <=> inj[k] = "strict"
    BY <1>3, <1>4 DEF moveSudoAToFront, isSudoCommandLine, Line, Commands
<1> HIDE DEF inj, out
\* What comes before line i is kept.
<1>8. /\ InForce(out, i) <=> InForce(inj, i)
      /\ HidesFailure(out, i) <=> HidesFailure(inj, i)
    <2>1. \A j \in 1 .. (i - 1) : j \in 1 .. Len(inj)
        BY <1>4, <1>6
    <2> QED
        BY <1>6, <1>7, <2>1 DEF InForce, HidesFailure
<1>9. CASE hasSetE(s)
    <2>1. inj = s
        BY <1>9 DEF inj, injectSafetyFlags
    <2>2. i \in 1 .. Len(s) /\ s[i] \in Commands
        BY <1>6, <1>7, <2>1 DEF out
    <2>3. InForce(s, i)
        BY <1>1, <1>9, <2>2 DEF Lax
    <2> QED
        BY <1>2, <1>8, <2>1, <2>2, <2>3 DEF out
<1>10. CASE ~hasSetE(s)
    \* Nothing in s is a pipeline, since no line of s is "strict".
    <2>1. \A k \in 1 .. Len(s) : s[k] # "pipe"
        <3>1. \A k \in 1 .. Len(s) : s[k] # "strict"
            BY <1>1, <1>10 DEF hasSetE
        <3>2. ASSUME NEW k \in 1 .. Len(s) PROVE \A j \in 1 .. (k - 1) : j \in 1 .. Len(s)
            BY <1>1
        <3> QED
            BY <1>2, <3>1, <3>2 DEF HidesFailure
    <2>2. CASE s # <<>> /\ Head(s) = "shebang"
        <3>1. inj = <<"shebang", "errexit">> \o Tail(s)
            BY <1>10, <2>2 DEF inj, injectSafetyFlags
        <3>2. /\ Len(s) >= 1 /\ Tail(s) \in Seq(Line) /\ Len(Tail(s)) = Len(s) - 1
              /\ \A k \in 1 .. (Len(s) - 1) : Tail(s)[k] = s[k + 1]
            BY <1>1, <2>2
        <3>3. /\ Len(inj) = Len(s) + 1 /\ inj[1] = "shebang" /\ inj[2] = "errexit"
              /\ \A k \in 3 .. Len(inj) : inj[k] = s[k - 1]
            BY <1>1, <3>1, <3>2
        <3>4. inj[i] \in Commands /\ i # 1 /\ i # 2
            BY <1>6, <1>7, <3>3 DEF out, Commands
        <3>5. i \in 3 .. Len(inj) /\ 2 \in 1 .. (i - 1) /\ i - 1 \in 1 .. Len(s)
            BY <1>1, <1>6, <3>3, <3>4
        <3>6. InForce(inj, i) /\ inj[i] # "pipe"
            BY <2>1, <3>3, <3>5 DEF InForce
        <3> QED
            BY <1>8, <3>6 DEF out, HidesFailure
    <2>3. CASE ~(s # <<>> /\ Head(s) = "shebang")
        <3>1. inj = <<"errexit">> \o s
            BY <1>10, <2>3 DEF inj, injectSafetyFlags
        <3>2. /\ Len(inj) = Len(s) + 1 /\ inj[1] = "errexit"
              /\ \A k \in 2 .. Len(inj) : inj[k] = s[k - 1]
            BY <1>1, <3>1
        <3>3. inj[i] \in Commands /\ i # 1
            BY <1>6, <1>7, <3>2 DEF out, Commands
        <3>4. i \in 2 .. Len(inj) /\ 1 \in 1 .. (i - 1) /\ i - 1 \in 1 .. Len(s)
            BY <1>1, <1>6, <3>2, <3>3
        <3>5. InForce(inj, i) /\ inj[i] # "pipe"
            BY <2>1, <3>2, <3>4 DEF InForce
        <3> QED
            BY <1>8, <3>5 DEF out, HidesFailure
    <2> QED
        BY <2>2, <2>3
<1> QED
    BY <1>9, <1>10

-----------------------------------------------------------------------------
(* What is run, and what is recorded                                       *)

\* A thread that is alone is the only one of its project, without strays; and
\* where strays are the record is in doubt.
AloneInv ==
    /\ \A t, h \in threads : t.alone /\ h.prj = t.prj => h = t
    /\ \A t \in threads : t.alone => t.prj \notin strays
    /\ strays \subseteq doubt

\* Nobody comes between a thread that is alone and the script it has read.
CodeOK(t) ==
    /\ t.at \in Installing => checkout[t.prj] = t.read
    /\ t.at = "open" => Given(t) = patchShellScript(t.read)
    /\ t.at \in {"run", "record"} => t.code = patchShellScript(t.read)
    /\ t.at = "run" => t.line >= 1
    /\ t.at \in {"clone", "compare", "wipe", "unhash", "decide", "grant", "patch", "open"}
           => t.clean
    /\ t.at \in {"run", "record"} /\ ~Lax(t.read) => t.clean
    /\ t.at = "record" => env[t.prj] = t.read

CodeInv == \A t \in threads : t.alone => CodeOK(t)

\* A change of the environment is under way, or done and not recorded.
Unrecorded(t) == t.at \in {"unhash", "run", "record"}

\* Where nothing is in doubt, threads are alone, and the hash is right unless
\* a change of the environment is under way.
RecordOK(p) ==
    p \notin doubt =>
        /\ \A t \in threads : t.prj = p => t.alone
        /\ (\A t \in threads : t.prj = p => ~Unrecorded(t)) => hash[p] \in {NoScript, env[p]}

RecordInv == \A p \in Projects : RecordOK(p)

LEMMA InitRecordInv == Init => AloneInv /\ CodeInv /\ RecordInv
    BY DEF Init, AloneInv, CodeInv, RecordInv, RecordOK

\* A step of thread t leaves the other projects alone.
LEMMA Elsewhere ==
    ASSUME TypeInv, NEW t \in threads, ThreadStep(t), NEW p \in Projects, p # t.prj
    PROVE  /\ checkout'[p] = checkout[p] /\ hash'[p] = hash[p]
           /\ patched'[p] = patched[p] /\ env'[p] = env[p]
           /\ p \in doubt' <=> p \in doubt
    BY DEF ThreadStep, Clone, CloneFails, RollbackCompares, RollbackCleans, RollbackForgets, NoInstall, SkipInstall, NeedInstall, Grant, GrantFails,
       Patch, OpenScript, OpenFails, LineSucceeds, LineIsPassedOver, LineStops, Timeout,
       ExitNonzero, Fails, Failed, ExitZero, Record, Start, RemovePatched, Revoke, files, TypeInv, TypeOK

\* A step of a thread: strays come from a timeout alone, which is noted.
LEMMA StepStrays ==
    ASSUME TypeInv, AloneInv, NEW t \in threads, ThreadStep(t)
    PROVE  /\ strays' \subseteq doubt'
           /\ strays' = strays \/ strays' = strays \cup {t.prj}
           /\ strays' # strays => Becomes(t, [Failed(t) EXCEPT !.alone = FALSE])
<1>1. strays' = strays \/ Timeout(t)
    BY DEF ThreadStep, Clone, CloneFails, RollbackCompares, RollbackCleans, RollbackForgets, NoInstall,
           SkipInstall, NeedInstall, Grant, GrantFails, Patch, OpenScript, OpenFails, LineSucceeds,
           LineIsPassedOver, LineStops, Timeout, ExitNonzero, Fails, ExitZero, Record, Start,
           RemovePatched, Revoke, files
<1>2. CASE Timeout(t)
    BY <1>2 DEF Timeout, AloneInv
<1>3. CASE Record(t)
    BY <1>3 DEF Record, AloneInv
<1>4. CASE strays' = strays /\ ~Record(t)
    <2>1. doubt \subseteq doubt'
        BY <1>4 DEF ThreadStep, Clone, CloneFails, RollbackCompares, RollbackCleans, RollbackForgets, NoInstall,
           SkipInstall, NeedInstall, Grant, GrantFails, Patch, OpenScript, OpenFails, LineSucceeds,
           LineIsPassedOver, LineStops, Timeout, ExitNonzero, Fails, ExitZero, Start,
           RemovePatched, Revoke, files
    <2> QED
        BY <1>4, <2>1 DEF AloneInv
<1>5. Record(t) => strays' = strays
    BY DEF Record
<1> QED
    BY <1>1, <1>2, <1>3, <1>4, <1>5

LEMMA NextAloneInv == TypeInv /\ AloneInv /\ [Next]_vars => AloneInv'
<1> SUFFICES ASSUME TypeInv, AloneInv, [Next]_vars PROVE AloneInv'
    OBVIOUS
<1>1. ASSUME NEW t \in threads, ThreadStep(t), ~Grant(t) PROVE AloneInv'
    <2>0. strays' \subseteq doubt'
        BY <1>1, StepStrays
    <2>1. CASE threads' = threads \ {t} /\ strays' = strays
        BY <2>0, <2>1 DEF AloneInv
    <2>2. CASE (\E u : Follows(t, u) /\ Becomes(t, u)) /\ strays' = strays
        BY <2>0, <2>2 DEF AloneInv, Follows, Becomes
    <2>3. CASE strays' # strays
        <3> DEFINE u == [Failed(t) EXCEPT !.alone = FALSE]
        <3>1. threads' = (threads \ {t}) \cup {u} /\ strays' \subseteq strays \cup {t.prj}
            BY <1>1, <2>3, StepStrays DEF Becomes
        <3>2. ~u.alone /\ u.prj = t.prj
            BY DEF TypeInv, TypeOK, Thread, Failed
        <3> HIDE DEF u
        <3> QED
            BY <2>0, <3>1, <3>2 DEF AloneInv
    <2> QED
        BY <1>1, <2>1, <2>2, <2>3, Moving
<1>2. ASSUME NEW t \in threads, Grant(t) PROVE AloneInv'
    <2> DEFINE n(h) == IF h = t THEN Granted(t) ELSE Besides(h, t)
    <2>1. /\ \A a \in threads' : \E x \in threads : a = n(x)
          /\ \A x \in threads : n(x).prj = x.prj /\ n(x).alone = x.alone
        BY <1>2, Granting
    <2> HIDE DEF n
    <2>0. strays' = strays /\ doubt' = doubt
        BY <1>2 DEF Grant
    <2>4. \A a \in threads' : a.alone => a.prj \notin strays'
        BY <2>0, <2>1 DEF AloneInv
    <2> SUFFICES ASSUME NEW a \in threads', NEW b \in threads', a.alone, b.prj = a.prj
                 PROVE  b = a
        BY <2>0, <2>4 DEF AloneInv
    <2>2. PICK x \in threads, y \in threads : a = n(x) /\ b = n(y)
        BY <2>1
    <2>3. x = y
        BY <2>1, <2>2 DEF AloneInv
    <2> QED
        BY <2>2, <2>3
<1>3. ASSUME NEW p \in Projects, Deploy(p) \/ DeployAnew(p) \/ Rollback(p) PROVE AloneInv'
    <2>1. PICK f \in {"deploy", "rollback"}, at \in {"decide", "compare", "clone"} : Starts(p, f, at)
        BY <1>3 DEF Deploy, DeployAnew, Rollback
    <2>2. PICK w : /\ threads' = {Joined(h, p) : h \in threads} \cup {w}
                   /\ w.prj = p /\ (w.alone <=> Undisturbed(p))
        BY <2>1, Starting
    <2>3. \A h \in threads : Joined(h, p).prj = h.prj /\ (Joined(h, p).alone <=> h.alone /\ h.prj # p)
        BY <2>1, Starting
    <2>4. w.alone => p \notin strays /\ \A h \in threads : h.prj # p
        BY <2>2 DEF OthersIn, Undisturbed
    <2>7. strays' = strays /\ doubt \subseteq doubt'
        BY <1>3, <2>1 DEF Deploy, DeployAnew, Rollback, Starts
    <2>8. \A a \in threads' : a.alone => a.prj \notin strays'
        BY <2>2, <2>3, <2>4, <2>7 DEF AloneInv
    <2> SUFFICES ASSUME NEW a \in threads', NEW b \in threads', a.alone, b.prj = a.prj
                 PROVE  b = a
        BY <2>7, <2>8 DEF AloneInv
    <2>5. CASE a = w
        BY <2>2, <2>3, <2>4, <2>5
    <2>6. CASE a # w
        <3>1. PICK x \in threads : a = Joined(x, p)
            BY <2>2, <2>6
        <3>2. x.alone /\ x.prj # p /\ a.prj = x.prj
            BY <2>3, <3>1
        <3>3. PICK y \in threads : b = Joined(y, p)
            BY <2>2, <3>2
        <3>4. y.prj = x.prj
            BY <2>3, <3>2, <3>3
        <3> QED
            BY <3>1, <3>2, <3>3, <3>4 DEF AloneInv
    <2> QED
        BY <2>5, <2>6
<1>4. ASSUME NEW p \in Projects, Reinstall(p) \/ StraysWork(p) PROVE AloneInv'
    <2>1. strays' \subseteq strays /\ threads' = threads /\ doubt' = doubt
        BY <1>4 DEF Reinstall, StraysWork
    <2> QED
        BY <2>1 DEF AloneInv
<1>5. CASE Crash
    <2>1. strays' \subseteq doubt'
        BY <1>5 DEF Crash, ProjectsAt, AloneInv
    <2> QED
        BY <1>5, <2>1 DEF Crash, AloneInv
<1>6. CASE UNCHANGED vars
    BY <1>6 DEF vars, AloneInv
<1> QED
    BY <1>1, <1>2, <1>3, <1>4, <1>5, <1>6 DEF Next

\* For the code of threads that are alone it is enough to look at the one that
\* moves.
LEMMA CodeOfOneThread ==
    ASSUME TypeInv, AloneInv, CodeInv, NEW t \in threads, ThreadStep(t), NEW u,
           Becomes(t, u), t.alone /\ u.alone => CodeOK(u)', u.alone => t.alone
    PROVE  CodeInv'
<1> SUFFICES ASSUME NEW h \in threads', h.alone PROVE CodeOK(h)'
    BY DEF CodeInv
<1>1. h = u \/ h \in threads \ {t}
    BY DEF Becomes
<1>2. CASE h = u
    BY <1>2
<1>3. CASE h \in threads \ {t}
    <2>1. h.prj # t.prj /\ h.prj \in Projects /\ CodeOK(h)
        BY <1>3 DEF AloneInv, CodeInv, TypeInv, TypeOK, Thread
    <2>2. checkout'[h.prj] = checkout[h.prj] /\ patched'[h.prj] = patched[h.prj]
          /\ env'[h.prj] = env[h.prj]
        BY <2>1, Elsewhere
    <2>3. Given(h)' = Given(h)
        BY <2>2 DEF Given
    <2> QED
        BY <2>1, <2>2, <2>3 DEF CodeOK
<1> QED
    BY <1>1, <1>2, <1>3

LEMMA StepCodeInv ==
    ASSUME TypeInv, AloneInv, CodeInv, NEW t \in threads, ThreadStep(t), ~Grant(t)
    PROVE  CodeInv'
<1>1. t \in Thread /\ WellFormed(t) /\ (t.alone => CodeOK(t)) /\ t.prj \in Projects
    BY DEF TypeInv, TypeOK, CodeInv, Thread
<1>2. /\ DOMAIN checkout = Projects /\ DOMAIN patched = Projects /\ DOMAIN env = Projects
      /\ checkout[t.prj] \in Contents
    BY <1>1 DEF TypeInv, TypeOK
\* Steps to where nothing is asked but that the thread is clean.
<1>3. ASSUME NEW at \in {"wipe", "unhash", "decide", "start", "clean", "revoke"}, Goes(t, at),
             at \in {"wipe", "unhash", "decide"} => t.at \in {"clone", "compare", "wipe", "unhash"}
      PROVE  CodeInv'
    <2> DEFINE u == [t EXCEPT !.at = at]
    <2>1. u.at = at /\ u.alone = t.alone /\ u.clean = t.clean
        BY <1>1 DEF Thread
    <2>2. t.alone => CodeOK(u)'
        BY <1>1, <1>3, <2>1 DEF CodeOK, Installing
    <2> QED
        BY <1>3, <2>1, <2>2, CodeOfOneThread DEF Goes
<1>4. CASE Clone(t) \/ RollbackCleans(t) \/ RollbackForgets(t)
    BY <1>3, <1>4 DEF Clone, RollbackCleans, RollbackForgets
<1>17. CASE RollbackCompares(t)
    <2>1. t.at = "compare" /\ (Goes(t, "decide") \/ Goes(t, "wipe"))
        BY <1>17 DEF RollbackCompares
    <2> QED
        BY <1>3, <2>1
<1>5. CASE NoInstall(t) \/ SkipInstall(t)
    BY <1>3, <1>5 DEF NoInstall, SkipInstall
<1>6. CASE NeedInstall(t)
    <2>1. PICK u : /\ Becomes(t, u)
                   /\ u.at = "grant" /\ u.alone = t.alone /\ u.clean = t.clean /\ u.prj = t.prj
                   /\ u.read = checkout[t.prj]
        <3> DEFINE v == [t EXCEPT !.read = checkout[t.prj], !.at = "grant"]
        <3>1. /\ v.at = "grant" /\ v.alone = t.alone /\ v.clean = t.clean /\ v.prj = t.prj
              /\ v.read = checkout[t.prj]
            BY <1>1 DEF Thread
        <3>2. Becomes(t, v)
            BY <1>6 DEF NeedInstall
        <3> HIDE DEF v
        <3> QED
            BY <3>1, <3>2
    <2>2. t.alone => CodeOK(u)'
        BY <1>1, <1>6, <2>1 DEF CodeOK, NeedInstall, files
    <2> QED
        BY <2>1, <2>2, CodeOfOneThread
<1>7. CASE GrantFails(t)
    <2> DEFINE u == [t EXCEPT !.at = "patch"]
    <2>1. /\ u.at = "patch" /\ u.alone = t.alone /\ u.clean = t.clean /\ u.prj = t.prj
          /\ u.read = t.read
        BY <1>1 DEF Thread
    <2>2. t.alone => CodeOK(u)'
        BY <1>1, <1>7, <2>1 DEF CodeOK, GrantFails, files, Installing
    <2> QED
        BY <1>7, <2>1, <2>2, CodeOfOneThread DEF GrantFails, Goes
<1>8. CASE Patch(t)
    <2> DEFINE s == checkout[t.prj]
               differs == IF s = NoScript THEN FALSE ELSE patchShellScript(s) # s
    <2>1. PICK u : /\ Becomes(t, u)
                   /\ u.at = "open" /\ u.alone = t.alone /\ u.clean = t.clean /\ u.prj = t.prj
                   /\ u.read = t.read /\ u.file = IF differs THEN "patched" ELSE "original"
        <3> DEFINE f == IF differs THEN "patched" ELSE "original"
                   v == [t EXCEPT !.file = f, !.at = "open"]
        <3>1. Becomes(t, v)
            BY <1>8 DEF Patch
        <3> HIDE DEF f
        <3>2. /\ v.at = "open" /\ v.alone = t.alone /\ v.clean = t.clean /\ v.prj = t.prj
              /\ v.read = t.read /\ v.file = f
            BY <1>1 DEF Thread
        <3> HIDE DEF v
        <3> QED
            BY <3>1, <3>2 DEF f
    <2>2. /\ checkout' = checkout
          /\ patched' = IF differs THEN [patched EXCEPT ![t.prj] = patchShellScript(s)] ELSE patched
        BY <1>8 DEF Patch
    <2>3. ASSUME t.alone PROVE CodeOK(u)'
        <3>1. s = t.read /\ s # NoScript /\ t.clean
            BY <1>1, <1>8, <2>3, NoScriptIsNoScript DEF CodeOK, Patch, WellFormed, Installing
        <3>2. Given(u)' = patchShellScript(t.read)
            <4>1. CASE differs
                BY <1>1, <1>2, <2>1, <2>2, <3>1, <4>1 DEF Given
            <4>2. CASE ~differs
                BY <1>1, <1>2, <2>1, <2>2, <3>1, <4>2 DEF Given
            <4> QED
                BY <4>1, <4>2
        <3>3. checkout'[u.prj] = u.read
            BY <2>1, <2>2, <3>1
        <3> HIDE DEF s, differs
        <3> QED
            BY <2>1, <3>1, <3>2, <3>3 DEF CodeOK
    <2> QED
        BY <2>1, <2>3, CodeOfOneThread
<1>9. CASE OpenScript(t)
    <2>1. PICK u : /\ Becomes(t, u)
                   /\ u.at = "run" /\ u.alone = t.alone /\ u.clean = t.clean /\ u.prj = t.prj
                   /\ u.read = t.read /\ u.code = Given(t) /\ u.line = 1
        <3> DEFINE v == [t EXCEPT !.code = Given(t), !.line = 1, !.at = "run"]
        <3>1. /\ v.at = "run" /\ v.alone = t.alone /\ v.clean = t.clean /\ v.prj = t.prj
              /\ v.read = t.read /\ v.code = Given(t) /\ v.line = 1
            BY <1>1 DEF Thread
        <3>2. Becomes(t, v)
            BY <1>9 DEF OpenScript
        <3> HIDE DEF v
        <3> QED
            BY <3>1, <3>2
    <2>2. checkout' = checkout /\ t.at = "open"
        BY <1>9 DEF OpenScript, files
    <2>3. t.alone => CodeOK(u)'
        BY <1>1, <2>1, <2>2 DEF CodeOK, Installing
    <2> QED
        BY <2>1, <2>3, CodeOfOneThread
<1>10. CASE OpenFails(t)
    BY <1>3, <1>10 DEF OpenFails
<1>11. CASE LineSucceeds(t) \/ LineIsPassedOver(t)
    <2>1. /\ t.at = "run" /\ t.line <= Len(t.code) /\ checkout' = checkout
          /\ LineIsPassedOver(t) => /\ t.code[t.line] \in Commands
                                    /\ ~InForce(t.code, t.line) \/ HidesFailure(t.code, t.line)
        BY <1>11 DEF LineSucceeds, LineIsPassedOver, Running, files
    <2>2. PICK u : /\ Becomes(t, u)
                   /\ u.at = "run" /\ u.alone = t.alone /\ u.prj = t.prj /\ u.read = t.read
                   /\ u.code = t.code /\ u.line = t.line + 1
                   /\ u.clean = t.clean \/ LineIsPassedOver(t)
        <3>1. CASE LineSucceeds(t)
            <4> DEFINE b == t.status \/ t.code[t.line] \in Commands \cup {"errexit", "strict"}
                       u == [t EXCEPT !.line = @ + 1, !.status = b]
            <4>1. Becomes(t, u)
                BY <3>1 DEF LineSucceeds
            <4> HIDE DEF b
            <4>2. /\ u.at = t.at /\ u.alone = t.alone /\ u.prj = t.prj /\ u.read = t.read
                  /\ u.code = t.code /\ u.line = t.line + 1 /\ u.clean = t.clean
                BY <1>1 DEF Thread
            <4> QED
                BY <2>1, <4>1, <4>2
        <3>2. CASE LineIsPassedOver(t)
            <4> DEFINE b == HidesFailure(t.code, t.line)
                       u == [t EXCEPT !.line = @ + 1, !.clean = FALSE, !.status = b]
            <4>1. Becomes(t, u)
                BY <3>2 DEF LineIsPassedOver
            <4> HIDE DEF b
            <4>2. /\ u.at = t.at /\ u.alone = t.alone /\ u.prj = t.prj /\ u.read = t.read
                  /\ u.code = t.code /\ u.line = t.line + 1
                BY <1>1 DEF Thread
            <4> QED
                BY <2>1, <3>2, <4>1, <4>2
        <3> QED
            BY <1>11, <3>1, <3>2
    <2>3. ASSUME t.alone, ~Lax(t.read) PROVE ~LineIsPassedOver(t)
        <3>1. t.read \in Seq(Line)
            BY <1>1, <2>1, InstallAssumption DEF WellFormed, Installing
        <3>2. t.code = patchShellScript(t.read) /\ t.line >= 1 /\ t.line \in Nat
            BY <1>1, <2>1, <2>3 DEF CodeOK, Thread
        <3>3. t.line \in 1 .. Len(t.code)
            <4>1. Len(t.code) \in Nat
                BY <3>1, <3>2, PatchedIsScript
            <4> QED
                BY <2>1, <3>2, <4>1
        <3> QED
            BY <2>1, <2>3, <3>1, <3>2, <3>3, PatchedScriptsStop
    <2>4. t.line \in Nat
        BY <1>1 DEF Thread
    <2>5. t.alone => CodeOK(u)'
        BY <1>1, <2>1, <2>2, <2>3, <2>4 DEF CodeOK, Installing
    <2> QED
        BY <2>2, <2>5, CodeOfOneThread
<1>12. CASE Fails(t) \/ Timeout(t)
    <2>1. PICK u : Becomes(t, u) /\ u.at = "clean" /\ (u.alone => t.alone)
        <3>1. /\ Failed(t).at = "clean" /\ [Failed(t) EXCEPT !.alone = FALSE].at = "clean"
              /\ Failed(t).alone = t.alone /\ ~[Failed(t) EXCEPT !.alone = FALSE].alone
            BY <1>1 DEF Thread, Failed
        <3> QED
            BY <1>12, <3>1 DEF Fails, Timeout
    <2>2. CodeOK(u)'
        BY <2>1 DEF CodeOK, Installing
    <2> QED
        BY <2>1, <2>2, CodeOfOneThread
<1>13. CASE ExitZero(t)
    <2> DEFINE u == [t EXCEPT !.at = "record"]
    <2>1. /\ u.at = "record" /\ u.alone = t.alone /\ u.clean = t.clean /\ u.prj = t.prj
          /\ u.read = t.read /\ u.code = t.code
        BY <1>1 DEF Thread
    <2>2. /\ Becomes(t, u) /\ checkout' = checkout /\ t.at = "run"
          /\ env' = [env EXCEPT ![t.prj] = IF t.alone THEN t.read ELSE NoScript]
        BY <1>13 DEF ExitZero, Goes, files
    <2> HIDE DEF u
    <2>3. t.alone => CodeOK(u)'
        BY <1>1, <1>2, <2>1, <2>2 DEF CodeOK, Installing
    <2> QED
        BY <2>1, <2>2, <2>3, CodeOfOneThread
<1>14. CASE Record(t)
    <2> DEFINE u == [t EXCEPT !.code = NoScript, !.line = 0, !.clean = TRUE, !.at = "start"]
    <2>1. u.at = "start" /\ u.alone = t.alone
        BY <1>1 DEF Thread
    <2>2. Becomes(t, u)
        BY <1>14 DEF Record
    <2> HIDE DEF u
    <2>3. CodeOK(u)'
        BY <2>1 DEF CodeOK, Installing
    <2> QED
        BY <2>1, <2>2, <2>3, CodeOfOneThread
\* The thread returns.
<1>15. CASE threads' = threads \ {t}
    <2> SUFFICES ASSUME NEW h \in threads, h # t, h.alone PROVE CodeOK(h)'
        BY <1>15 DEF CodeInv
    <2>1. h.prj # t.prj /\ h.prj \in Projects /\ CodeOK(h)
        BY DEF AloneInv, CodeInv, TypeInv, TypeOK, Thread
    <2>2. /\ checkout'[h.prj] = checkout[h.prj] /\ patched'[h.prj] = patched[h.prj]
          /\ env'[h.prj] = env[h.prj]
        BY <2>1, Elsewhere
    <2>3. Given(h)' = Given(h)
        BY <2>2 DEF Given
    <2> QED
        BY <2>1, <2>2, <2>3 DEF CodeOK
<1>16. CASE CloneFails(t) \/ Start(t) \/ RemovePatched(t) \/ Revoke(t)
    BY <1>3, <1>15, <1>16 DEF CloneFails, Start, RemovePatched, Revoke
<1> QED
    BY <1>4, <1>5, <1>6, <1>7, <1>8, <1>9, <1>10, <1>11, <1>12, <1>13, <1>14, <1>16, <1>17
       DEF ThreadStep, LineStops, ExitNonzero

LEMMA NextCodeInv == TypeInv /\ AloneInv /\ CodeInv /\ [Next]_vars => CodeInv'
<1> SUFFICES ASSUME TypeInv, AloneInv, CodeInv, [Next]_vars PROVE CodeInv'
    OBVIOUS
<1>1. ASSUME NEW t \in threads, ThreadStep(t), ~Grant(t) PROVE CodeInv'
    BY <1>1, StepCodeInv
<1>2. ASSUME NEW t \in threads, Grant(t) PROVE CodeInv'
    <2>1. UNCHANGED <<checkout, patched, env>>
        BY <1>2 DEF Grant
    <2> SUFFICES ASSUME NEW x \in threads', x.alone PROVE CodeOK(x)'
        BY DEF CodeInv
    <2>2. CASE x = Granted(t)
        <3>1. /\ x.alone = t.alone /\ x.at = "patch" /\ x.read = t.read /\ x.prj = t.prj
              /\ x.clean = t.clean
            BY <1>2, <2>2, Granting
        <3>2. CodeOK(t) /\ t.at = "grant"
            BY <1>2, <3>1 DEF CodeInv, Grant
        <3> QED
            BY <2>1, <3>1, <3>2 DEF CodeOK, Installing
    <2>3. CASE x # Granted(t)
        <3>1. PICK h \in threads \ {t} : x = Besides(h, t)
            BY <1>2, <2>3, Granting
        <3>2. /\ x.alone = h.alone /\ x.at = h.at /\ x.read = h.read /\ x.prj = h.prj
              /\ x.clean = h.clean /\ x.file = h.file /\ x.code = h.code /\ x.line = h.line
            BY <1>2, <3>1, Granting
        <3>3. CodeOK(h)
            BY <3>2 DEF CodeInv
        <3>4. Given(x)' = Given(h)
            BY <2>1, <3>2 DEF Given
        <3> QED
            BY <2>1, <3>2, <3>3, <3>4 DEF CodeOK
    <2> QED
        BY <2>2, <2>3
<1>3. ASSUME NEW p \in Projects, Deploy(p) \/ DeployAnew(p) \/ Rollback(p) PROVE CodeInv'
    <2>1. PICK f \in {"deploy", "rollback"}, at \in {"decide", "compare", "clone"} : Starts(p, f, at)
        BY <1>3 DEF Deploy, DeployAnew, Rollback
    <2>2. PICK w : /\ threads' = {Joined(h, p) : h \in threads} \cup {w}
                   /\ w.at = at /\ w.clean
        BY <2>1, Starting
    <2>3. CodeOK(w)'
        BY <2>2 DEF CodeOK, Installing
    <2>4. ASSUME NEW h \in threads, Joined(h, p).alone PROVE CodeOK(Joined(h, p))'
        <3>1. h.alone /\ h.prj # p /\ CodeOK(h) /\ h.prj \in Projects
            BY <2>1, <2>4, Starting DEF CodeInv, TypeInv, TypeOK, Thread
        <3>2. checkout'[h.prj] = checkout[h.prj] /\ patched' = patched /\ env'[h.prj] = env[h.prj]
            BY <1>3, <3>1 DEF Deploy, DeployAnew, Rollback, TypeInv, TypeOK
        <3>3. Given(Joined(h, p))' = Given(h)
            BY <2>1, <3>2, Starting DEF Given
        <3> QED
            BY <2>1, <3>1, <3>2, <3>3, Starting DEF CodeOK
    <2> QED
        BY <2>2, <2>3, <2>4 DEF CodeInv
<1>4. CASE UNCHANGED <<threads, checkout, patched, env>>
    BY <1>4 DEF CodeInv, CodeOK, Given
<1>5. CASE Crash
    BY <1>5 DEF Crash, CodeInv
\* Strays work where no thread is alone.
<1>6. ASSUME NEW p \in Projects, StraysWork(p) PROVE CodeInv'
    <2> SUFFICES ASSUME NEW h \in threads, h.alone PROVE CodeOK(h)'
        BY <1>6 DEF StraysWork, CodeInv
    <2>1. h.prj # p /\ h.prj \in Projects /\ CodeOK(h)
        BY <1>6 DEF StraysWork, AloneInv, CodeInv, TypeInv, TypeOK, Thread
    <2>2. checkout' = checkout /\ patched' = patched /\ env'[h.prj] = env[h.prj]
        BY <1>6, <2>1 DEF StraysWork, files, TypeInv, TypeOK
    <2> QED
        BY <2>1, <2>2 DEF CodeOK, Given
<1> QED
    BY <1>1, <1>2, <1>3, <1>4, <1>5, <1>6 DEF Next, Reinstall, vars, files

\* For any scripts: when install.sh counts as done, every command in it has
\* succeeded (patchInstallScript.go:16-18), unless it hides failures from
\* set -e or another thread has worked on the project meanwhile.
THEOREM PatchedFailuresAreReported == Spec => []FailuresAreReported
<1>1. Init => TypeInv /\ AloneInv /\ CodeInv
    BY InitTypeInv, InitRecordInv
<1>2. TypeInv /\ AloneInv /\ CodeInv /\ [Next]_vars => (TypeInv /\ AloneInv /\ CodeInv)'
    BY NextTypeInv, NextAloneInv, NextCodeInv
<1>3. CodeInv => FailuresAreReported
    BY DEF CodeInv, CodeOK, FailuresAreReported
<1> QED
    BY <1>1, <1>2, <1>3, PTL DEF Spec

\* For the records it is enough to look at the project of the thread that
\* moves.
LEMMA RecordOfOneProject ==
    ASSUME TypeInv, RecordInv, NEW t \in threads, ThreadStep(t),
           \A h : h.prj # t.prj => (h \in threads' <=> h \in threads),
           RecordOK(t.prj)'
    PROVE  RecordInv'
<1> SUFFICES ASSUME NEW p \in Projects, p # t.prj PROVE RecordOK(p)'
    BY DEF RecordInv
<1>1. hash'[p] = hash[p] /\ env'[p] = env[p] /\ (p \in doubt' <=> p \in doubt)
    BY Elsewhere
<1>2. \A h : h.prj = p => (h \in threads' <=> h \in threads)
    OBVIOUS
<1>3. RecordOK(p)
    BY DEF RecordInv
<1> QED
    BY <1>1, <1>2, <1>3 DEF RecordOK

\* There, a thread that becomes u is the only one if it was alone.
LEMMA RecordOfOneThread ==
    ASSUME TypeInv, AloneInv, RecordInv, NEW t \in threads, ThreadStep(t), NEW u,
           threads' = (threads \ {t}) \cup {u}, u.prj = t.prj,
           t.prj \notin doubt' =>
               /\ t.alone /\ u.alone
               /\ ~Unrecorded(u) => hash'[t.prj] \in {NoScript, env'[t.prj]}
    PROVE  RecordInv'
<1>1. t.alone => \A h \in threads' : h.prj = t.prj => h = u
    BY DEF AloneInv
<1>2. ASSUME t.prj \notin doubt', NEW h \in threads', h.prj = t.prj
      PROVE  h.alone
    BY <1>1, <1>2
<1>3. RecordOK(t.prj)'
    BY <1>1, <1>2 DEF RecordOK
<1>4. \A h : h.prj # t.prj => (h \in threads' <=> h \in threads)
    OBVIOUS
<1> QED
    BY <1>3, <1>4, RecordOfOneProject

LEMMA StepRecordInv ==
    ASSUME TypeInv, AloneInv, CodeInv, RecordInv, NEW t \in threads, ThreadStep(t), ~Grant(t)
    PROVE  RecordInv'
<1> DEFINE p == t.prj
<1>1. t \in Thread /\ WellFormed(t) /\ p \in Projects
    BY DEF TypeInv, TypeOK, Thread
<1>2. DOMAIN hash = Projects /\ DOMAIN env = Projects
    BY DEF TypeInv, TypeOK
<1>3. p \notin doubt => /\ t.alone
                        /\ ~Unrecorded(t) => hash[p] \in {NoScript, env[p]}
    <2>1. ASSUME p \notin doubt PROVE \A h \in threads : h.prj = p => h = t
        <3>1. t.alone
            BY <1>1, <2>1 DEF RecordInv, RecordOK
        <3> QED
            BY <3>1 DEF AloneInv
    <2> QED
        BY <1>1, <2>1 DEF RecordInv, RecordOK
\* Steps that touch no record.
<1>4. ASSUME NEW u, Becomes(t, u), UNCHANGED <<hash, env, doubt>>,
             u.prj = t.prj, u.alone = t.alone, Unrecorded(t) => Unrecorded(u)
      PROVE  RecordInv'
    <2>1. threads' = (threads \ {t}) \cup {u} /\ u.prj = t.prj
        BY <1>4 DEF Becomes
    <2>2. p \notin doubt' => /\ t.alone /\ u.alone
                             /\ ~Unrecorded(u) => hash'[p] \in {NoScript, env'[p]}
        BY <1>3, <1>4
    <2> QED
        BY <2>1, <2>2, RecordOfOneThread
<1>5. ASSUME NEW at \in {"wipe", "decide", "start", "patch", "clean", "revoke"}, Goes(t, at),
             UNCHANGED <<hash, env, doubt>>, ~Unrecorded(t)
      PROVE  RecordInv'
    <2> DEFINE u == [t EXCEPT !.at = at]
    <2>1. u.alone = t.alone /\ u.prj = t.prj
        BY <1>1 DEF Thread
    <2>2. Becomes(t, u)
        BY <1>5 DEF Goes
    <2> HIDE DEF u
    <2> QED
        BY <1>4, <1>5, <2>1, <2>2
\* Steps after which a change of the environment is under way.
<1>6. ASSUME NEW u, Becomes(t, u), doubt' = doubt, u.prj = t.prj, u.alone = t.alone, Unrecorded(u)
      PROVE  RecordInv'
    <2>1. threads' = (threads \ {t}) \cup {u} /\ u.prj = t.prj
        BY <1>6 DEF Becomes
    <2>2. p \notin doubt' => /\ t.alone /\ u.alone
                             /\ ~Unrecorded(u) => hash'[p] \in {NoScript, env'[p]}
        BY <1>3, <1>6
    <2> QED
        BY <2>1, <2>2, RecordOfOneThread
<1>7. CASE Clone(t)
    BY <1>5, <1>7 DEF Clone, Unrecorded
<1>8. CASE RollbackCompares(t)
    <2>1. t.at = "compare" /\ UNCHANGED <<hash, env, doubt>> /\ (Goes(t, "decide") \/ Goes(t, "wipe"))
        BY <1>8 DEF RollbackCompares, files
    <2> QED
        BY <1>5, <2>1 DEF Unrecorded
<1>9. CASE RollbackCleans(t)
    <2> DEFINE u == [t EXCEPT !.at = "unhash"]
    <2>1. u.at = "unhash" /\ u.alone = t.alone /\ u.prj = t.prj
        BY <1>1 DEF Thread
    <2>2. Becomes(t, u) /\ doubt' = doubt
        BY <1>9 DEF RollbackCleans, Goes
    <2> HIDE DEF u
    <2> QED
        BY <1>6, <2>1, <2>2 DEF Unrecorded
\* The hash goes, whatever the environment is.
<1>10. CASE RollbackForgets(t)
    <2> DEFINE u == [t EXCEPT !.at = "decide"]
    <2>1. u.alone = t.alone /\ u.prj = t.prj
        BY <1>1 DEF Thread
    <2>2. threads' = (threads \ {t}) \cup {u} /\ doubt' = doubt /\ hash'[p] = NoScript
        BY <1>1, <1>2, <1>10 DEF RollbackForgets, Goes, Becomes
    <2> HIDE DEF u
    <2>3. p \notin doubt' => /\ t.alone /\ u.alone
                             /\ ~Unrecorded(u) => hash'[p] \in {NoScript, env'[p]}
        BY <1>3, <2>1, <2>2
    <2>4. u.prj = t.prj
        BY <2>1
    <2> QED
        BY <2>2, <2>3, <2>4, RecordOfOneThread
<1>11. CASE NoInstall(t) \/ SkipInstall(t)
    BY <1>5, <1>11 DEF NoInstall, SkipInstall, files, Unrecorded
<1>12. CASE NeedInstall(t)
    <2>1. PICK u : Becomes(t, u) /\ u.alone = t.alone /\ u.prj = t.prj
        <3> DEFINE v == [t EXCEPT !.read = checkout[t.prj], !.at = "grant"]
        <3>1. v.alone = t.alone /\ v.prj = t.prj
            BY <1>1 DEF Thread
        <3>2. Becomes(t, v)
            BY <1>12 DEF NeedInstall
        <3> HIDE DEF v
        <3> QED
            BY <3>1, <3>2
    <2>2. t.at = "decide" /\ UNCHANGED <<hash, env, doubt>>
        BY <1>12 DEF NeedInstall, files
    <2> QED
        BY <1>4, <2>1, <2>2 DEF Unrecorded
<1>13. CASE GrantFails(t)
    BY <1>5, <1>13 DEF GrantFails, files, Unrecorded
<1>14. CASE Patch(t)
    <2>1. PICK f \in {"original", "patched"} : Becomes(t, [t EXCEPT !.file = f, !.at = "open"])
        BY <1>14 DEF Patch
    <2> DEFINE u == [t EXCEPT !.file = f, !.at = "open"]
    <2>2. u.alone = t.alone /\ u.prj = t.prj
        BY <1>1 DEF Thread
    <2>3. t.at = "patch" /\ UNCHANGED <<hash, env, doubt>>
        BY <1>14 DEF Patch
    <2> HIDE DEF u
    <2>4. Becomes(t, u)
        BY <2>1 DEF u
    <2> QED
        BY <1>4, <2>2, <2>3, <2>4 DEF Unrecorded
<1>15. CASE OpenScript(t)
    <2>1. PICK u : Becomes(t, u) /\ u.at = "run" /\ u.alone = t.alone /\ u.prj = t.prj
        <3> DEFINE v == [t EXCEPT !.code = Given(t), !.line = 1, !.at = "run"]
        <3>1. v.at = "run" /\ v.alone = t.alone /\ v.prj = t.prj
            BY <1>1 DEF Thread
        <3>2. Becomes(t, v)
            BY <1>15 DEF OpenScript
        <3> HIDE DEF v
        <3> QED
            BY <3>1, <3>2
    <2>2. doubt' = doubt
        BY <1>15 DEF OpenScript
    <2> QED
        BY <1>6, <2>1, <2>2 DEF Unrecorded
<1>16. CASE OpenFails(t)
    BY <1>5, <1>16 DEF OpenFails, files, Unrecorded
<1>17. CASE LineSucceeds(t) \/ LineIsPassedOver(t)
    <2>1. t.at = "run" /\ UNCHANGED <<hash, env, doubt>>
        BY <1>17 DEF LineSucceeds, LineIsPassedOver, Running, files
    <2>2. PICK u : Becomes(t, u) /\ u.at = t.at /\ u.alone = t.alone /\ u.prj = t.prj
        <3>1. CASE LineSucceeds(t)
            <4> DEFINE b == t.status \/ t.code[t.line] \in Commands \cup {"errexit", "strict"}
                       u == [t EXCEPT !.line = @ + 1, !.status = b]
            <4>1. Becomes(t, u)
                BY <3>1 DEF LineSucceeds
            <4> HIDE DEF b
            <4>2. u.at = t.at /\ u.alone = t.alone /\ u.prj = t.prj
                BY <1>1 DEF Thread
            <4> QED
                BY <4>1, <4>2
        <3>2. CASE LineIsPassedOver(t)
            <4> DEFINE b == HidesFailure(t.code, t.line)
                       u == [t EXCEPT !.line = @ + 1, !.clean = FALSE, !.status = b]
            <4>1. Becomes(t, u)
                BY <3>2 DEF LineIsPassedOver
            <4> HIDE DEF b
            <4>2. u.at = t.at /\ u.alone = t.alone /\ u.prj = t.prj
                BY <1>1 DEF Thread
            <4> QED
                BY <4>1, <4>2
        <3> QED
            BY <1>17, <3>1, <3>2
    <2> QED
        BY <1>4, <2>1, <2>2 DEF Unrecorded
\* A failure puts the record in doubt.
<1>18. CASE Fails(t) \/ Timeout(t)
    <2>1. p \in doubt'
        BY <1>18 DEF Fails, Timeout
    <2>2. PICK u : Becomes(t, u) /\ u.prj = t.prj
        <3>1. Failed(t).prj = t.prj /\ [Failed(t) EXCEPT !.alone = FALSE].prj = t.prj
            BY <1>1 DEF Thread, Failed
        <3> QED
            BY <1>18, <3>1 DEF Fails, Timeout
    <2>3. threads' = (threads \ {t}) \cup {u} /\ u.prj = t.prj
        BY <2>2 DEF Becomes
    <2> QED
        BY <2>1, <2>3, RecordOfOneThread
<1>19. CASE ExitZero(t)
    <2> DEFINE u == [t EXCEPT !.at = "record"]
    <2>1. u.at = "record" /\ u.alone = t.alone /\ u.prj = t.prj
        BY <1>1 DEF Thread
    <2>2. Becomes(t, u) /\ doubt' = doubt
        BY <1>19 DEF ExitZero, Goes
    <2> HIDE DEF u
    <2> QED
        BY <1>6, <2>1, <2>2 DEF Unrecorded
<1>20. CASE Record(t)
    <2> DEFINE u == [t EXCEPT !.code = NoScript, !.line = 0, !.clean = TRUE, !.at = "start"]
    <2>1. u.at = "start" /\ u.alone = t.alone /\ u.prj = t.prj
        BY <1>1 DEF Thread
    <2>2. /\ threads' = (threads \ {t}) \cup {u} /\ t.at = "record"
          /\ hash' = [hash EXCEPT ![p] = t.read] /\ env' = env
          /\ doubt' = IF t.alone THEN doubt \ {p} ELSE doubt \cup {p}
        BY <1>20 DEF Record, Becomes
    <2> HIDE DEF u
    <2>3. t.alone => hash'[p] = env'[p]
        BY <1>1, <1>2, <2>2 DEF CodeInv, CodeOK
    <2>4. p \notin doubt' => /\ t.alone /\ u.alone
                             /\ ~Unrecorded(u) => hash'[p] \in {NoScript, env'[p]}
        BY <2>1, <2>2, <2>3
    <2>5. u.prj = t.prj
        BY <2>1
    <2> QED
        BY <2>2, <2>4, <2>5, RecordOfOneThread
<1>21. ASSUME threads' = threads \ {t}, UNCHANGED <<hash, env, doubt>>, ~Unrecorded(t)
       PROVE  RecordInv'
    <2>1. t.alone => \A h \in threads' : h.prj # p
        BY <1>21 DEF AloneInv
    <2>2. RecordOK(p)'
        BY <1>3, <1>21, <2>1 DEF RecordOK
    <2>3. \A h : h.prj # t.prj => (h \in threads' <=> h \in threads)
        BY <1>21
    <2> QED
        BY <2>2, <2>3, RecordOfOneProject
<1>22. CASE CloneFails(t) \/ Start(t) \/ RemovePatched(t) \/ Revoke(t)
    BY <1>5, <1>21, <1>22 DEF CloneFails, Start, RemovePatched, Revoke, files, Unrecorded
<1> QED
    BY <1>7, <1>8, <1>9, <1>10, <1>11, <1>12, <1>13, <1>14, <1>15, <1>16, <1>17, <1>18, <1>19,
       <1>20, <1>22 DEF ThreadStep, LineStops, ExitNonzero

LEMMA NextRecordInv == TypeInv /\ AloneInv /\ CodeInv /\ RecordInv /\ [Next]_vars => RecordInv'
<1> SUFFICES ASSUME TypeInv, AloneInv, CodeInv, RecordInv, [Next]_vars PROVE RecordInv'
    OBVIOUS
<1>1. ASSUME NEW t \in threads, ThreadStep(t), ~Grant(t) PROVE RecordInv'
    BY <1>1, StepRecordInv
<1>2. ASSUME NEW t \in threads, Grant(t) PROVE RecordInv'
    <2>1. UNCHANGED <<hash, env, doubt>> /\ t.at = "grant"
        BY <1>2 DEF Grant
    <2> DEFINE n(h) == IF h = t THEN Granted(t) ELSE Besides(h, t)
    <2>2. /\ threads' = {n(h) : h \in threads}
          /\ \A h \in threads : /\ n(h).prj = h.prj /\ n(h).alone = h.alone
                                /\ Unrecorded(n(h)) <=> Unrecorded(h)
        BY <1>2, <2>1, Granting DEF Unrecorded
    <2> HIDE DEF n
    <2> SUFFICES ASSUME NEW p \in Projects, p \notin doubt PROVE RecordOK(p)'
        BY <2>1 DEF RecordInv, RecordOK
    <2>3. RecordOK(p)
        BY DEF RecordInv
    <2>4. ASSUME NEW x \in threads', x.prj = p PROVE x.alone
        BY <2>2, <2>3, <2>4 DEF RecordOK
    <2>5. (\A x \in threads' : x.prj = p => ~Unrecorded(x)) => \A h \in threads : h.prj = p => ~Unrecorded(h)
        BY <2>2
    <2> QED
        BY <2>1, <2>3, <2>4, <2>5 DEF RecordOK
<1>3. ASSUME NEW p \in Projects, Deploy(p) \/ DeployAnew(p) \/ Rollback(p) PROVE RecordInv'
    <2>1. PICK f \in {"deploy", "rollback"}, at \in {"decide", "compare", "clone"} :
              Starts(p, f, at) /\ (DeployAnew(p) => at = "clone")
        BY <1>3 DEF Deploy, DeployAnew, Rollback
    <2>2. PICK w : /\ threads' = {Joined(h, p) : h \in threads} \cup {w}
                   /\ w.prj = p /\ w.at = at /\ (w.alone <=> Undisturbed(p))
        BY <2>1, Starting
    <2>3. \A h \in threads : /\ Joined(h, p).prj = h.prj /\ Joined(h, p).at = h.at
                             /\ Joined(h, p).alone <=> (h.alone /\ h.prj # p)
        BY <2>1, Starting
    <2>4. /\ hash' = hash /\ (env' = env \/ at = "clone")
          /\ \A q \in Projects : q # p => env'[q] = env[q]
          /\ doubt' = IF Undisturbed(p) /\ at # "clone" THEN doubt ELSE doubt \cup {p}
        BY <1>3, <2>1 DEF Deploy, DeployAnew, Rollback, Starts, TypeInv, TypeOK
    <2> SUFFICES ASSUME NEW q \in Projects, q \notin doubt' PROVE RecordOK(q)'
        BY DEF RecordInv, RecordOK
    <2>5. RecordOK(q) /\ q \notin doubt
        BY <2>4 DEF RecordInv
    <2>6. CASE q = p
        <3>1. Undisturbed(p) /\ env' = env
            BY <2>4, <2>6
        <3>2. \A h \in threads : h.prj # p
            BY <3>1 DEF OthersIn, Undisturbed
        <3>3. \A x \in threads' : x.prj = p => x = w
            BY <2>2, <2>3, <3>2
        <3>4. w.alone
            BY <2>2, <3>1
        <3>5. hash[p] \in {NoScript, env[p]}
            BY <2>5, <2>6, <3>2 DEF RecordOK
        <3> QED
            BY <2>4, <2>6, <3>1, <3>3, <3>4, <3>5 DEF RecordOK
    <2>7. CASE q # p
        <3>1. ASSUME NEW x \in threads', x.prj = q PROVE x.alone
            <4>1. PICK h \in threads : x = Joined(h, p)
                BY <2>2, <2>7, <3>1
            <4>2. h.prj = q /\ h.alone
                BY <2>3, <2>5, <3>1, <4>1 DEF RecordOK
            <4> QED
                BY <2>3, <2>7, <4>1, <4>2
        <3>2. (\A x \in threads' : x.prj = q => ~Unrecorded(x))
                  => \A h \in threads : h.prj = q => ~Unrecorded(h)
            BY <2>2, <2>3 DEF Unrecorded
        <3> QED
            BY <2>4, <2>5, <2>7, <3>1, <3>2 DEF RecordOK
    <2> QED
        BY <2>6, <2>7
<1>4. ASSUME NEW p \in Projects, Reinstall(p) PROVE RecordInv'
    <2>1. /\ hash' = [hash EXCEPT ![p] = NoScript] /\ DOMAIN hash = Projects
          /\ UNCHANGED <<threads, env, doubt>>
        BY <1>4 DEF Reinstall, TypeInv, TypeOK
    <2>2. \A q \in Projects : hash'[q] \in {NoScript, hash[q]}
        BY <2>1
    <2> QED
        BY <2>1, <2>2 DEF RecordInv, RecordOK
<1>5. CASE Crash
    <2> SUFFICES ASSUME NEW p \in Projects, p \notin doubt' PROVE hash[p] \in {NoScript, env[p]}
        BY <1>5 DEF Crash, files, RecordInv, RecordOK
    <2>1. RecordOK(p) /\ p \notin doubt
        BY <1>5 DEF Crash, RecordInv
    <2>2. \A t \in threads : t.prj = p => ~Unrecorded(t)
        BY <1>5 DEF Crash, ProjectsAt, Unrecorded
    <2> QED
        BY <2>1, <2>2 DEF RecordOK
\* Strays work where the record is in doubt.
<1>6. ASSUME NEW p \in Projects, StraysWork(p) PROVE RecordInv'
    <2>1. /\ UNCHANGED <<hash, threads, doubt>> /\ p \in doubt
          /\ \A q \in Projects : q # p => env'[q] = env[q]
        BY <1>6 DEF StraysWork, files, AloneInv, TypeInv, TypeOK
    <2> QED
        BY <2>1 DEF RecordInv, RecordOK
<1>7. CASE UNCHANGED vars
    BY <1>7 DEF vars, files, RecordInv, RecordOK
<1> QED
    BY <1>1, <1>2, <1>3, <1>4, <1>5, <1>6, <1>7 DEF Next

\* For any projects and scripts: a recorded hash that is not in doubt means
\* that this script has left the environment as it is (executor.go:372, 480,
\* 540-543), so that skipping it is right, whatever crashes, timeouts, clones
\* and rollbacks came between; RecordedMeansInstalled names what puts it in
\* doubt.
THEOREM RecordsAreRight == Spec => []RecordedMeansInstalled
<1>1. Init => TypeInv /\ AloneInv /\ CodeInv /\ RecordInv
    BY InitTypeInv, InitRecordInv
<1>2. TypeInv /\ AloneInv /\ CodeInv /\ RecordInv /\ [Next]_vars
          => (TypeInv /\ AloneInv /\ CodeInv /\ RecordInv)'
    BY NextTypeInv, NextAloneInv, NextCodeInv, NextRecordInv
<1>3. RecordInv => RecordedMeansInstalled
    BY DEF RecordInv, RecordOK, RecordedMeansInstalled, OthersIn, Unrecorded
<1> QED
    BY <1>1, <1>2, <1>3, PTL DEF Spec

=============================================================================
