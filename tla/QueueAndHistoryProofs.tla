------------------------ MODULE QueueAndHistoryProofs ------------------------
(***************************************************************************)
(* Theorems about DeployQueue and CommitHistory, the two components that   *)
(* DeployPipeline is composed of: about the queue, for every set of        *)
(* projects and every value of the bounds, from the inductive invariant    *)
(* QueueInv; about the history, what its operators do to any table, and    *)
(* its properties for every set of commits and any length.                 *)
(***************************************************************************)
EXTENDS DeployQueue, CommitHistory, SequenceTheorems, FiniteSetTheorems, WellFoundedInduction, TLAPS

-----------------------------------------------------------------------------
(* The invariant holds initially and is preserved by every step.           *)

LEMMA InitQueueInv == Init => QueueInv
<1> SUFFICES ASSUME Init PROVE QueueInv
    OBVIOUS
<1> USE DEF Init
<1>1. TypeOK
    BY NoneAssumption, BoundsAssumption DEF TypeOK, Worker, Request
<1>2. OneDeploymentPerProject /\ WorkerInv
    BY DEF OneDeploymentPerProject, WorkerInv
<1>3. ASSUME NEW p \in Projects PROVE SlotOK(p) /\ IdleOK(p)
    <2>1. /\ pending[p] = None /\ isRunning[p] = FALSE
          /\ accepted[p] = 0 /\ taken[p] = 0 /\ finished[p] = 0
        OBVIOUS
    <2> QED
        BY <2>1 DEF SlotOK, IdleOK
<1>4. WedgedOnlyByPanic
    BY DEF WedgedOnlyByPanic
<1> QED
    BY <1>1, <1>2, <1>3, <1>4 DEF QueueInv, ProjectInv

LEMMA EnqueueStartKeepsInv ==
    ASSUME QueueInv, NEW p \in Projects, EnqueueStart(p)
    PROVE  QueueInv'
<1>0. PICK w : w = [proj |-> p, req |-> accepted'[p], at |-> "spawned"]
    OBVIOUS
<1> USE NoneAssumption, BoundsAssumption DEF QueueInv, EnqueueStart, Accept
<1>1. /\ accepted'[p] = accepted[p] + 1
      /\ accepted'[p] \in 1 .. MaxRequests
      /\ taken'[p] = accepted'[p]
      /\ isRunning'[p] = TRUE
      /\ pending[p] = None
      /\ finished[p] = accepted[p]
    BY DEF TypeOK, ProjectInv, SlotOK, IdleOK
<1>2. \A q \in Projects \ {p} : /\ accepted'[q] = accepted[q]
                                /\ taken'[q] = taken[q]
                                /\ isRunning'[q] = isRunning[q]
    BY DEF TypeOK
<1>3. \A v \in workers : v.proj \in Projects \ {p}
    BY DEF WorkerInv, WorkerOK, TypeOK, Worker
<1>4. workers' = workers \cup {w} /\ w \in Worker
    BY <1>0, <1>1 DEF Worker, Request
<1>5. TypeOK'
    BY <1>1, <1>4 DEF TypeOK
<1>6. OneDeploymentPerProject'
    BY <1>0, <1>3, <1>4 DEF OneDeploymentPerProject
<1>7. WorkerInv'
    <2>1. finished' = finished
        OBVIOUS
    <2>2. ASSUME NEW v \in workers PROVE WorkerOK(v)'
        BY <1>2, <1>3, <2>1 DEF WorkerInv, WorkerOK
    <2>3. w.proj = p /\ w.req = accepted'[p] /\ w.at = "spawned"
        BY <1>0
    <2>4. finished'[p] < taken'[p]
        BY <1>1, <2>1 DEF TypeOK
    <2>5. WorkerOK(w)'
        BY <1>1, <2>3, <2>4 DEF WorkerOK
    <2> QED
        BY <2>2, <2>5, <1>4 DEF WorkerInv
<1>8. ProjectInv'
    BY <1>1, <1>2 DEF ProjectInv, SlotOK, IdleOK, TypeOK
<1>9. WedgedOnlyByPanic'
    BY <1>0, <1>2, <1>4 DEF WedgedOnlyByPanic, WorkersOf
<1> QED
    BY <1>5, <1>6, <1>7, <1>8, <1>9

LEMMA EnqueuePendKeepsInv ==
    ASSUME QueueInv, NEW p \in Projects, EnqueuePend(p)
    PROVE  QueueInv'
<1> USE NoneAssumption, BoundsAssumption DEF QueueInv, EnqueuePend, Accept
<1>1. TypeOK'
    BY DEF TypeOK, Request
<1>2. OneDeploymentPerProject' /\ WorkerInv'
    BY DEF OneDeploymentPerProject, WorkerInv, WorkerOK
<1>3. ProjectInv'
    <2>1. accepted'[p] = accepted[p] + 1 /\ pending'[p] = accepted'[p] /\ pending'[p] # None
        BY DEF TypeOK
    <2>2. \A q \in Projects \ {p} : accepted'[q] = accepted[q] /\ pending'[q] = pending[q]
        BY DEF TypeOK
    <2>3. taken[p] <= accepted[p]
        BY DEF ProjectInv, SlotOK, TypeOK
    <2> QED
        BY <2>1, <2>2, <2>3 DEF ProjectInv, SlotOK, IdleOK, TypeOK
<1>4. WedgedOnlyByPanic'
    BY DEF WedgedOnlyByPanic, WorkersOf
<1> QED
    BY <1>1, <1>2, <1>3, <1>4

\* The steps that move a worker from one position to another.
LEMMA WorkerMovesKeepInv ==
    ASSUME QueueInv, NEW w \in workers, BeginDeploy(w) \/ DeployReturns(w) \/ PopPending(w)
    PROVE  QueueInv'
<1> USE NoneAssumption, BoundsAssumption DEF QueueInv
<1> DEFINE p == w.proj
<1>1. PICK v \in Worker : /\ v.proj = p
                          /\ workers' = (workers \ {w}) \cup {v}
                          /\ v.req = taken'[p]
                          /\ v.at = "checking" => finished'[p] = taken'[p]
                          /\ v.at # "checking" => finished'[p] < taken'[p]
    <2>1. w \in Worker /\ p \in Projects /\ WorkerOK(w)
        BY DEF TypeOK, Worker, WorkerInv
    <2>2. CASE BeginDeploy(w)
        <3> DEFINE v == [w EXCEPT !.at = "deploying"]
        <3>1. v \in Worker /\ v.proj = p /\ v.req = w.req /\ v.at = "deploying"
            BY <2>1 DEF Worker
        <3> QED
            BY <2>1, <2>2, <3>1 DEF BeginDeploy, Becomes, WorkerOK
    <2>3. CASE DeployReturns(w)
        <3> DEFINE v == [w EXCEPT !.at = "checking"]
        <3>1. v \in Worker /\ v.proj = p /\ v.req = w.req /\ v.at = "checking"
            BY <2>1 DEF Worker
        <3>2. finished'[p] = w.req
            BY <2>1, <2>3 DEF DeployReturns, TypeOK
        <3> QED
            BY <2>1, <2>3, <3>1, <3>2 DEF DeployReturns, Becomes, WorkerOK
    <2>4. CASE PopPending(w)
        <3> DEFINE v == [w EXCEPT !.at = "deploying", !.req = pending[w.proj]]
        <3>1. pending[p] \in Request
            BY <2>1, <2>4 DEF PopPending, TypeOK
        <3>2. v \in Worker /\ v.proj = p /\ v.req = pending[p] /\ v.at = "deploying"
            BY <2>1, <3>1 DEF Worker
        <3>3. taken'[p] = pending[p] /\ finished'[p] < taken'[p]
            BY <2>1, <2>4 DEF PopPending, TypeOK, WorkerOK, ProjectInv, SlotOK
        <3> QED
            BY <2>1, <2>4, <3>2, <3>3 DEF PopPending, Becomes
    <2> QED
        BY <2>2, <2>3, <2>4
<1>2. p \in Projects /\ WorkerOK(w)
    BY DEF TypeOK, Worker, WorkerInv
<1>3. UNCHANGED <<isRunning, accepted, panics>>
    BY DEF BeginDeploy, DeployReturns, PopPending
<1>4. /\ pending' \in [Projects -> Request \cup {None}]
      /\ taken' \in [Projects -> 0 .. MaxRequests]
      /\ finished' \in [Projects -> 0 .. MaxRequests]
    BY <1>2 DEF TypeOK, Worker, Request, BeginDeploy, DeployReturns, PopPending
<1>5. \A q \in Projects \ {p} : /\ pending'[q] = pending[q]
                                /\ taken'[q] = taken[q]
                                /\ finished'[q] = finished[q]
    BY <1>2 DEF TypeOK, BeginDeploy, DeployReturns, PopPending
<1>6. TypeOK'
    BY <1>1, <1>3, <1>4 DEF TypeOK
<1>7. \A u \in workers \ {w} : u.proj \in Projects \ {p}
    BY DEF OneDeploymentPerProject, TypeOK, Worker
<1>8. OneDeploymentPerProject'
    BY <1>1, <1>7 DEF OneDeploymentPerProject
<1>9. WorkerInv'
    <2>1. ASSUME NEW u \in workers \ {w} PROVE WorkerOK(u)'
        BY <1>3, <1>5, <1>7 DEF WorkerInv, WorkerOK
    <2>2. WorkerOK(v)'
        BY <1>1, <1>2, <1>3 DEF WorkerOK
    <2> QED
        BY <1>1, <2>1, <2>2 DEF WorkerInv
<1>10. ProjectInv'
    <2>1. ASSUME NEW q \in Projects \ {p} PROVE SlotOK(q)' /\ IdleOK(q)'
        BY <1>3, <1>5 DEF ProjectInv, SlotOK, IdleOK
    <2>2. SlotOK(p)'
        BY <1>2, <1>3 DEF ProjectInv, SlotOK, TypeOK, BeginDeploy, DeployReturns, PopPending
    <2>3. IdleOK(p)'
        BY <1>1, <1>2, <1>3, <1>4 DEF IdleOK, WorkerOK
    <2> QED
        BY <2>1, <2>2, <2>3 DEF ProjectInv
<1>11. WedgedOnlyByPanic'
    <2>1. ASSUME NEW q \in Projects, WorkersOf(q)' = {} PROVE WorkersOf(q) = {}
        BY <1>1, <2>1 DEF WorkersOf
    <2> QED
        BY <1>3, <2>1 DEF WedgedOnlyByPanic
<1> QED
    BY <1>6, <1>8, <1>9, <1>10, <1>11

\* The steps that end a worker.
LEMMA WorkerEndsKeepInv ==
    ASSUME QueueInv, NEW w \in workers, GoIdle(w) \/ DeployPanics(w)
    PROVE  QueueInv'
<1> USE NoneAssumption, BoundsAssumption DEF QueueInv
<1> DEFINE p == w.proj
<1>1. w \in Worker /\ p \in Projects /\ WorkerOK(w)
    BY DEF TypeOK, Worker, WorkerInv
<1>2. workers' = workers \ {w} /\ UNCHANGED <<pending, accepted, taken>>
    BY DEF GoIdle, DeployPanics
<1>3. \A q \in Projects \ {p} : /\ isRunning'[q] = isRunning[q]
                                /\ finished'[q] = finished[q]
                                /\ panics'[q] = panics[q]
    BY <1>1 DEF TypeOK, GoIdle, DeployPanics
<1>4. \A u \in workers' : u \in workers /\ u.proj \in Projects \ {p}
    BY <1>2 DEF OneDeploymentPerProject, TypeOK, Worker
<1>5. TypeOK'
    <2>1. CASE GoIdle(w)
        BY <1>1, <1>2, <2>1 DEF TypeOK, GoIdle
    <2>2. CASE DeployPanics(w)
        <3>1. finished' \in [Projects -> 0 .. MaxRequests]
            BY <1>1, <2>2 DEF TypeOK, DeployPanics, Worker, Request
        <3>2. panics' \in [Projects -> 0 .. MaxPanics]
            BY <1>1, <2>2 DEF TypeOK, DeployPanics
        <3> QED
            BY <1>1, <1>2, <2>2, <3>1, <3>2 DEF TypeOK, DeployPanics
    <2> QED
        BY <2>1, <2>2
<1>6. OneDeploymentPerProject'
    BY <1>2 DEF OneDeploymentPerProject
<1>7. WorkerInv'
    BY <1>2, <1>3, <1>4 DEF WorkerInv, WorkerOK
<1>8. ProjectInv'
    <2>1. ASSUME NEW q \in Projects \ {p} PROVE SlotOK(q)' /\ IdleOK(q)'
        BY <1>2, <1>3 DEF ProjectInv, SlotOK, IdleOK
    <2>2. CASE GoIdle(w)
        <3>1. isRunning'[p] = FALSE /\ pending[p] = None /\ finished' = finished
            BY <1>1, <2>2 DEF GoIdle, TypeOK
        <3>2. finished[p] = taken[p]
            BY <1>1, <2>2 DEF GoIdle, WorkerOK
        <3> QED
            BY <1>1, <1>2, <2>1, <3>1, <3>2 DEF ProjectInv, SlotOK, IdleOK, TypeOK
    <2>3. CASE DeployPanics(w)
        <3>1. isRunning' = isRunning /\ isRunning[p] /\ finished'[p] = taken[p]
            BY <1>1, <2>3 DEF DeployPanics, TypeOK, WorkerOK
        <3> QED
            BY <1>1, <1>2, <2>1, <3>1 DEF ProjectInv, SlotOK, IdleOK, TypeOK
    <2> QED
        BY <2>2, <2>3
<1>9. WedgedOnlyByPanic'
    <2>1. ASSUME NEW q \in Projects \ {p}, WorkersOf(q)' = {} PROVE WorkersOf(q) = {}
        BY <1>2, <2>1 DEF WorkersOf
    <2>2. isRunning'[p] => panics'[p] > 0
        <3>1. CASE GoIdle(w)
            BY <1>1, <3>1 DEF TypeOK, GoIdle
        <3>2. CASE DeployPanics(w)
            <4>1. panics[p] \in Nat /\ panics'[p] = panics[p] + 1
                BY <1>1, <3>2 DEF TypeOK, DeployPanics
            <4> QED
                BY <4>1
        <3> QED
            BY <3>1, <3>2
    <2> QED
        BY <1>3, <2>1, <2>2 DEF WedgedOnlyByPanic
<1> QED
    BY <1>5, <1>6, <1>7, <1>8, <1>9

LEMMA NextKeepsInv == QueueInv /\ [Next]_vars => QueueInv'
<1> SUFFICES ASSUME QueueInv, [Next]_vars PROVE QueueInv'
    OBVIOUS
<1>1. ASSUME NEW p \in Projects, EnqueueDeployment(p) PROVE QueueInv'
    BY <1>1, EnqueueStartKeepsInv, EnqueuePendKeepsInv DEF EnqueueDeployment
<1>2. ASSUME NEW w \in workers, Step(w) \/ DeployPanics(w) PROVE QueueInv'
    BY <1>2, WorkerMovesKeepInv, WorkerEndsKeepInv DEF Step
<1>3. CASE UNCHANGED vars
    BY <1>3 DEF QueueInv, TypeOK, OneDeploymentPerProject, WorkerInv, WorkerOK,
                ProjectInv, SlotOK, IdleOK, WedgedOnlyByPanic, WorkersOf, vars
<1> QED
    BY <1>1, <1>2, <1>3 DEF Next

-----------------------------------------------------------------------------
(* Type correctness and the safety properties of the queue.                *)

\* The inductive invariant holds in every reachable state (queue.go:41-95).
THEOREM QueueInvariant == Spec => []QueueInv
<1>1. Init => QueueInv
    BY InitQueueInv
<1>2. QueueInv /\ [Next]_vars => QueueInv'
    BY NextKeepsInv
<1> QED
    BY <1>1, <1>2, PTL DEF Spec

\* The flag, the slot and the counters keep their types.
THEOREM TypeCorrect == Spec => []TypeOK
<1>1. QueueInv => TypeOK
    BY DEF QueueInv
<1> QED
    BY <1>1, QueueInvariant, PTL

\* At most one goroutine works on the queue of a project (queue.go:12),
\* panics of deployFn included.
THEOREM MutualExclusion == Spec => []OneDeploymentPerProject
<1>1. QueueInv => OneDeploymentPerProject
    BY DEF QueueInv
<1> QED
    BY <1>1, QueueInvariant, PTL

\* An idle queue has deployed the newest request (queue.go:79-84): no
\* wakeup is lost between the last look at the slot and the flag.
THEOREM NoLostWakeup == Spec => []IdleMeansCaughtUp
<1>1. QueueInv => IdleMeansCaughtUp
    BY DEF QueueInv, ProjectInv, SlotOK, IdleOK, IdleMeansCaughtUp
<1> QED
    BY <1>1, QueueInvariant, PTL

\* Only a panic of deployFn leaves the flag set with no worker
\* (queue.go:69-73).
THEOREM OnlyPanicsWedge == Spec => []WedgedOnlyByPanic
<1>1. QueueInv => WedgedOnlyByPanic
    BY DEF QueueInv
<1> QED
    BY <1>1, QueueInvariant, PTL

-----------------------------------------------------------------------------
(* What a step of the queue may never do.                                  *)

LEMMA TakenIsNewest ==
    ASSUME QueueInv, [Next]_vars, NEW p \in Projects, taken'[p] # taken[p]
    PROVE  taken'[p] = accepted'[p] /\ taken'[p] > taken[p]
<1> USE DEF QueueInv
<1>1. ASSUME NEW q \in Projects, EnqueueStart(q)
      PROVE  taken'[p] = accepted'[p] /\ taken'[p] > taken[p]
    BY <1>1 DEF EnqueueStart, Accept, TypeOK, ProjectInv, SlotOK, IdleOK
<1>2. ASSUME NEW w \in workers, PopPending(w)
      PROVE  taken'[p] = accepted'[p] /\ taken'[p] > taken[p]
    BY <1>2 DEF PopPending, TypeOK, ProjectInv, SlotOK
<1>3. EnqueueStart(p) \/ (\E q \in Projects : EnqueueStart(q)) \/ (\E w \in workers : PopPending(w))
    BY DEF Next, EnqueueDeployment, EnqueuePend, Step, BeginDeploy, DeployReturns,
           GoIdle, DeployPanics, vars
<1> QED
    BY <1>1, <1>2, <1>3

\* A worker is only ever given the newest request (queue.go:13, 88-90).
THEOREM LatestPendingWins == Spec => LatestWins
<1>1. QueueInv /\ [Next]_vars
        => [\A p \in Projects :
              taken'[p] # taken[p] => taken'[p] = accepted'[p] /\ taken'[p] > taken[p]]_vars
    BY TakenIsNewest
<1> QED
    BY <1>1, QueueInvariant, PTL DEF Spec, LatestWins

-----------------------------------------------------------------------------
(* The queue implements DeployOrder.                                       *)

\* What RunningRequest says of the worker of a project.
RunningOK ==
    \A p \in Projects :
        /\ Deploying(p) = {} => RunningRequest[p] = None
        /\ \A w \in workers : w.proj = p /\ w.at = "deploying"
                              => RunningRequest[p] = w.req

LEMMA RunningIsDeploying == QueueInv => RunningOK
<1> SUFFICES ASSUME QueueInv, NEW p \in Projects
             PROVE  /\ Deploying(p) = {} => RunningRequest[p] = None
                    /\ \A w \in workers : w.proj = p /\ w.at = "deploying"
                                          => RunningRequest[p] = w.req
    BY DEF RunningOK
<1>1. RunningRequest[p] = IF Deploying(p) = {} THEN None
                          ELSE (CHOOSE w \in Deploying(p) : TRUE).req
    BY DEF RunningRequest
<1>2. ASSUME NEW w \in workers, w.proj = p, w.at = "deploying"
      PROVE  Deploying(p) = {w}
    BY <1>2 DEF Deploying, WorkersOf, QueueInv, OneDeploymentPerProject
<1>3. ASSUME NEW w \in workers, w.proj = p, w.at = "deploying"
      PROVE  RunningRequest[p] = w.req
    BY <1>1, <1>2, <1>3
<1> QED
    BY <1>1, <1>3

\* A step that moves no worker of q into or out of deployFn is invisible there.
LEMMA RunningUnchanged ==
    ASSUME NEW q \in Projects, Deploying(q)' = Deploying(q)
    PROVE  RunningRequest'[q] = RunningRequest[q]
BY DEF RunningRequest

LEMMA RunningIsFunction ==
    ASSUME NEW p \in Projects, NEW r, RunningRequest'[p] = r,
           \A q \in Projects \ {p} : RunningRequest'[q] = RunningRequest[q]
    PROVE  RunningRequest' = [RunningRequest EXCEPT ![p] = r]
<1>1. /\ RunningRequest = [q \in Projects |-> RunningRequest[q]]
      /\ RunningRequest' = [q \in Projects |-> RunningRequest'[q]]
    BY DEF RunningRequest
<1> QED
    BY <1>1

\* Accepting a request, with or without spawning a worker, is a Submit.
LEMMA EnqueueSubmits ==
    ASSUME QueueInv, NEW p \in Projects, EnqueueDeployment(p)
    PROVE  Order!Submit(p)
<1>1. \A q \in Projects : Deploying(q)' = Deploying(q)
    <2>1. CASE EnqueueStart(p)
        <3>1. PICK w : w.at = "spawned" /\ workers' = workers \cup {w}
            BY <2>1 DEF EnqueueStart
        <3> QED
            BY <3>1 DEF Deploying, WorkersOf
    <2>2. CASE EnqueuePend(p)
        BY <2>2 DEF EnqueuePend, Deploying, WorkersOf
    <2> QED
        BY <2>1, <2>2 DEF EnqueueDeployment
<1>2. RunningRequest' = RunningRequest
    BY <1>1, RunningUnchanged DEF RunningRequest
<1> QED
    BY <1>2 DEF Order!Submit, EnqueueDeployment, EnqueueStart, EnqueuePend, Accept

\* The worker calls deployFn with a request newer than the last one it ended.
LEMMA DeployBegins ==
    ASSUME QueueInv, QueueInv', NEW w \in workers, BeginDeploy(w) \/ PopPending(w)
    PROVE  Order!Begin(w.proj)
<1> DEFINE p == w.proj
<1>1. w \in Worker /\ p \in Projects /\ WorkerOK(w)
    BY DEF QueueInv, TypeOK, Worker, WorkerInv
<1>2. PICK v : /\ v.proj = p /\ v.at = "deploying"
               /\ v.req \in (finished[p] + 1) .. accepted[p]
               /\ workers' = (workers \ {w}) \cup {v}
    <2>1. CASE BeginDeploy(w)
        <3> DEFINE v == [w EXCEPT !.at = "deploying"]
        <3>1. v.proj = p /\ v.at = "deploying" /\ v.req = taken[p]
            BY <1>1, <2>1 DEF Worker, WorkerOK
        <3>2. taken[p] \in (finished[p] + 1) .. accepted[p]
            BY <1>1, <2>1 DEF BeginDeploy, WorkerOK, QueueInv, TypeOK, ProjectInv, SlotOK
        <3> QED
            BY <2>1, <3>1, <3>2 DEF BeginDeploy, Becomes
    <2>2. CASE PopPending(w)
        <3> DEFINE v == [w EXCEPT !.at = "deploying", !.req = pending[w.proj]]
        <3>1. v.proj = p /\ v.at = "deploying" /\ v.req = accepted[p]
            BY <1>1, <2>2 DEF Worker, PopPending, QueueInv, ProjectInv, SlotOK
        <3>2. accepted[p] \in (finished[p] + 1) .. accepted[p]
            BY <1>1, <2>2 DEF PopPending, WorkerOK, QueueInv, TypeOK, ProjectInv, SlotOK
        <3> QED
            BY <2>2, <3>1, <3>2 DEF PopPending, Becomes
    <2> QED
        BY <2>1, <2>2
<1>3. w.at # "deploying"
    BY DEF BeginDeploy, PopPending
<1>4. RunningRequest[p] = None
    <2>1. Deploying(p) = {}
        BY <1>1, <1>3 DEF Deploying, WorkersOf, QueueInv, OneDeploymentPerProject
    <2> QED
        BY <1>1, <2>1, RunningIsDeploying DEF RunningOK
<1>5. RunningRequest'[p] = v.req
    <2>1. RunningOK'
        BY RunningIsDeploying, PTL
    <2> QED
        BY <1>1, <1>2, <2>1 DEF RunningOK
<1>6. \A q \in Projects \ {p} : RunningRequest'[q] = RunningRequest[q]
    <2>1. \A q \in Projects \ {p} : Deploying(q)' = Deploying(q)
        BY <1>2 DEF Deploying, WorkersOf
    <2> QED
        BY <2>1, RunningUnchanged
<1>7. RunningRequest' = [RunningRequest EXCEPT ![p] = v.req]
    BY <1>1, <1>5, <1>6, RunningIsFunction
<1>8. UNCHANGED <<accepted, finished>>
    BY DEF BeginDeploy, PopPending
<1> QED
    BY <1>2, <1>4, <1>7, <1>8 DEF Order!Begin

\* deployFn ends, by returning or by a panic.
LEMMA DeployEnds ==
    ASSUME QueueInv, QueueInv', NEW w \in workers, DeployReturns(w) \/ DeployPanics(w)
    PROVE  Order!End(w.proj)
<1> DEFINE p == w.proj
<1>1. w \in Worker /\ p \in Projects /\ w.req \in Request
    BY DEF QueueInv, TypeOK, Worker
<1>2. w.at = "deploying" /\ accepted' = accepted
    BY DEF DeployReturns, DeployPanics
<1>3. RunningRequest[p] = w.req
    BY <1>1, <1>2, RunningIsDeploying DEF RunningOK
<1>4. \A q \in Projects \ {p} : Deploying(q)' = Deploying(q)
    BY <1>1 DEF Deploying, WorkersOf, DeployReturns, DeployPanics, Becomes, Worker
<1>5. Deploying(p)' = {}
    BY <1>1 DEF Deploying, WorkersOf, DeployReturns, DeployPanics, Becomes, Worker,
                QueueInv, OneDeploymentPerProject
<1>6. RunningRequest' = [RunningRequest EXCEPT ![p] = None]
    <2>1. RunningOK'
        BY RunningIsDeploying, PTL
    <2>2. RunningRequest'[p] = None
        BY <1>1, <1>5, <2>1 DEF RunningOK
    <2> QED
        BY <1>1, <1>4, <2>2, RunningUnchanged, RunningIsFunction
<1>7. finished' = [finished EXCEPT ![p] = RunningRequest[p]]
    BY <1>3 DEF DeployReturns, DeployPanics
<1>8. RunningRequest[p] # None
    BY <1>1, <1>3, NoneAssumption, BoundsAssumption DEF Request
<1> QED
    BY <1>2, <1>6, <1>7, <1>8 DEF Order!End

\* A worker that ends was not inside deployFn.
LEMMA IdleIsInvisible ==
    ASSUME QueueInv, NEW w \in workers, GoIdle(w)
    PROVE  UNCHANGED Order!vars
<1>1. \A q \in Projects : Deploying(q)' = Deploying(q)
    BY DEF GoIdle, Deploying, WorkersOf
<1>2. RunningRequest' = RunningRequest
    BY <1>1, RunningUnchanged DEF RunningRequest
<1> QED
    BY <1>2 DEF GoIdle, Order!vars

\* The queue keeps the promise of its comment (queue.go:10-13): one
\* deployment at a time, in order of request, only older ones skipped.
THEOREM QueueImplementsOrder == Spec => ImplementsOrder
<1>1. Init => Order!Init
    BY DEF Init, Order!Init, RunningRequest, Deploying, WorkersOf
<1>2. QueueInv /\ QueueInv' /\ [Next]_vars => [Order!Next]_(Order!vars)
    <2> SUFFICES ASSUME QueueInv, QueueInv', [Next]_vars
                 PROVE  [Order!Next]_(Order!vars)
        OBVIOUS
    <2>1. ASSUME NEW p \in Projects, EnqueueDeployment(p) PROVE Order!Next
        BY <2>1, EnqueueSubmits DEF Order!Next
    <2>2. ASSUME NEW w \in workers, BeginDeploy(w) \/ PopPending(w) PROVE Order!Next
        <3>1. w.proj \in Projects
            BY DEF QueueInv, TypeOK, Worker
        <3> QED
            BY <2>2, <3>1, DeployBegins DEF Order!Next
    <2>3. ASSUME NEW w \in workers, DeployReturns(w) \/ DeployPanics(w) PROVE Order!Next
        <3>1. w.proj \in Projects
            BY DEF QueueInv, TypeOK, Worker
        <3> QED
            BY <2>3, <3>1, DeployEnds DEF Order!Next
    <2>4. ASSUME NEW w \in workers, GoIdle(w) PROVE UNCHANGED Order!vars
        BY <2>4, IdleIsInvisible
    <2>5. CASE UNCHANGED vars
        BY <2>5 DEF vars, Order!vars, RunningRequest, Deploying, WorkersOf
    <2> QED
        BY <2>1, <2>2, <2>3, <2>4, <2>5 DEF Next, Step
<1> QED
    BY <1>1, <1>2, QueueInvariant, PTL DEF Spec, ImplementsOrder, Order!SafeSpec

-----------------------------------------------------------------------------
(* ORDER BY id DESC LIMIT 1 finds the last row whenever there is a row: a  *)
(* nonempty set of ids up to n has a largest one, the i for which the      *)
(* interval above i is the smallest.                                       *)

LEMMA NewestExists ==
    ASSUME NEW n \in Nat, NEW S, S \subseteq 1 .. n, S # {}
    PROVE  Newest(S) \in S /\ \A j \in S : j <= Newest(S)
<1> DEFINE Above(i) == (i + 1) .. n
           T == {Above(i) : i \in S}
           R == StrictSubsetOrdering(1 .. n)
<1>1. IsWellFoundedOn(R, FiniteSubsetsOf(1 .. n))
    BY FS_StrictSubsetOrderingWellFounded
<1>2. T \subseteq FiniteSubsetsOf(1 .. n) /\ T # {}
    <2>1. ASSUME NEW i \in S PROVE Above(i) \in SUBSET (1 .. n) /\ IsFiniteSet(Above(i))
        <3>1. i + 1 \in Int /\ n \in Int
            OBVIOUS
        <3> QED
            BY <3>1, FS_Interval
    <2> QED
        BY <2>1 DEF FiniteSubsetsOf
<1>3. PICK x \in T : \A y \in T : ~ (<<y, x>> \in R)
    <2> HIDE DEF T, R
    <2> QED
        BY <1>1, <1>2, WFMin
<1>4. PICK i \in S : x = Above(i)
    OBVIOUS
<1>5. \A j \in S : j <= i
    <2> SUFFICES ASSUME NEW j \in S, j > i PROVE FALSE
        OBVIOUS
    <2>1. Above(j) \in T
        OBVIOUS
    <2>2. Above(j) \subseteq Above(i) /\ j \in Above(i) /\ j \notin Above(j)
        OBVIOUS
    <2>3. <<Above(j), Above(i)>> \in R
        BY <2>2 DEF StrictSubsetOrdering
    <2> QED
        BY <1>3, <1>4, <2>1, <2>3
<1> QED
    BY <1>5 DEF Newest

-----------------------------------------------------------------------------
(* What the statements do to a table.                                      *)

LEMMA DemotedRows ==
    ASSUME NEW h \in Seq(Row)
    PROVE  /\ Demoted(h) \in Seq(Row)
           /\ Len(Demoted(h)) = Len(h)
           /\ \A i \in 1 .. Len(h) : /\ Demoted(h)[i] \in Row
                                     /\ Demoted(h)[i].hash = h[i].hash
                                     /\ Demoted(h)[i].status # "current"
<1>1. DOMAIN h = 1 .. Len(h) /\ Len(h) \in Nat
    OBVIOUS
<1>2. \A i \in 1 .. Len(h) : h[i] \in Row
    OBVIOUS
<1>3. ASSUME NEW i \in 1 .. Len(h)
      PROVE  /\ Demoted(h)[i] \in Row
             /\ Demoted(h)[i].hash = h[i].hash
             /\ Demoted(h)[i].status # "current"
    BY <1>1, <1>2 DEF Demoted, Row, Status
<1>4. Demoted(h) = [i \in 1 .. Len(h) |-> Demoted(h)[i]]
    BY <1>1 DEF Demoted
<1> QED
    BY <1>1, <1>3, <1>4

\* The shape of the table after SetCurrentCommit.
LEMMA PromotedRows ==
    ASSUME NEW h \in Seq(Row), NEW c \in Commits
    PROVE  /\ Promoted(h, c) \in Seq(Row)
           /\ Len(Promoted(h, c)) = Len(h)
           /\ \A i \in 1 .. Len(h) : Promoted(h, c)[i].hash = h[i].hash
           /\ RowsOf(h, c) = {} => RowsWith(Promoted(h, c), "current") = {}
           /\ RowsOf(h, c) # {} =>
                 \E k \in RowsOf(h, c) : RowsWith(Promoted(h, c), "current") = {k}
<1> DEFINE d == Demoted(h)
           fresh == RowsOf(d, c) \cap RowsWith(d, "intermediate")
           ids == IF fresh # {} THEN fresh ELSE RowsOf(d, c)
           pick == Newest(ids)
           P == Promoted(h, c)
<1>1. /\ d \in Seq(Row) /\ Len(d) = Len(h) /\ Len(h) \in Nat
      /\ DOMAIN d = 1 .. Len(h) /\ DOMAIN h = 1 .. Len(h)
      /\ \A i \in 1 .. Len(h) : d[i] \in Row /\ d[i].hash = h[i].hash
                                /\ d[i].status # "current"
    BY DemotedRows
<1>2. RowsOf(d, c) = RowsOf(h, c)
    BY <1>1 DEF RowsOf
<1>3. RowsOf(h, c) # {} => pick \in RowsOf(h, c)
    <2> SUFFICES ASSUME RowsOf(h, c) # {} PROVE pick \in RowsOf(h, c)
        OBVIOUS
    <2>1. ids \subseteq RowsOf(h, c) /\ ids # {}
        BY <1>2
    <2>2. RowsOf(h, c) \subseteq 1 .. Len(h)
        BY <1>1 DEF RowsOf
    <2>3. pick \in ids
        <3> HIDE DEF ids
        <3> QED
            BY <1>1, <2>1, <2>2, NewestExists
    <2> QED
        BY <2>1, <2>3
<1>4. P = [i \in 1 .. Len(h) |->
             IF RowsOf(h, c) # {} /\ i = pick THEN [d[i] EXCEPT !.status = "current"] ELSE d[i]]
    BY <1>1, <1>2 DEF Promoted
<1> HIDE DEF d, fresh, ids, pick, P
<1>5. ASSUME NEW i \in 1 .. Len(h)
      PROVE  /\ P[i] \in Row
             /\ P[i].hash = h[i].hash
             /\ P[i].status = "current" <=> RowsOf(h, c) # {} /\ i = pick
    BY <1>1, <1>4 DEF Row, Status
<1>6. P \in Seq(Row) /\ Len(P) = Len(h) /\ DOMAIN P = 1 .. Len(h)
    <2>1. P \in [1 .. Len(h) -> Row]
        BY <1>4, <1>5
    <2> QED
        BY <1>1, <2>1
<1>7. RowsOf(h, c) = {} => RowsWith(P, "current") = {}
    BY <1>5, <1>6 DEF RowsWith
<1>8. RowsOf(h, c) # {} => RowsWith(P, "current") = {pick}
    <2>1. RowsOf(h, c) \subseteq 1 .. Len(h)
        BY <1>1 DEF RowsOf
    <2> QED
        BY <1>3, <1>5, <1>6, <2>1 DEF RowsWith
<1> QED
    BY <1>3, <1>5, <1>6, <1>7, <1>8 DEF P

LEMMA RolledBackRows ==
    ASSUME NEW h \in Seq(Row), NEW c \in Commits
    PROVE  /\ RolledBack(h, c) \in Seq(Row)
           /\ Len(RolledBack(h, c)) = Len(h)
           /\ \A i \in 1 .. Len(h) : /\ RolledBack(h, c)[i].hash = h[i].hash
                                     /\ RolledBack(h, c)[i].status = "current"
                                           => h[i].status = "current"
<1> DEFINE P == RolledBack(h, c)
<1>1. Len(h) \in Nat /\ DOMAIN h = 1 .. Len(h) /\ \A i \in 1 .. Len(h) : h[i] \in Row
    OBVIOUS
<1>2. P = [i \in 1 .. Len(h) |->
             IF h[i].hash = c THEN [h[i] EXCEPT !.status = "rolled_back"] ELSE h[i]]
    BY <1>1 DEF RolledBack
<1> HIDE DEF P
<1>3. ASSUME NEW i \in 1 .. Len(h)
      PROVE  /\ P[i] \in Row
             /\ P[i].hash = h[i].hash
             /\ P[i].status = "current" => h[i].status = "current"
    BY <1>1, <1>2 DEF Row, Status
<1>4. P \in Seq(Row) /\ Len(P) = Len(h)
    <2>1. P \in [1 .. Len(h) -> Row]
        BY <1>2, <1>3
    <2> QED
        BY <1>1, <2>1
<1> QED
    BY <1>3, <1>4 DEF P

LEMMA AddedRows ==
    ASSUME NEW h \in Seq(Row), NEW c \in Commits
    PROVE  /\ Added(h, c) \in Seq(Row)
           /\ Len(Added(h, c)) = Len(h) + 1
           /\ \A i \in 1 .. Len(h) : Added(h, c)[i] = h[i]
           /\ Added(h, c)[Len(h) + 1].status = "intermediate"
BY DEF Added, Row, Status

-----------------------------------------------------------------------------
(* The table.                                                              *)

HistoryInv == HistoryTypeOK /\ AtMostOneCurrent

LEMMA NextKeepsHistory ==
    ASSUME HistoryInv, NEW c \in Commits,
           AddCommitToHistory(c) \/ SetCurrentCommit(c) \/ MarkCommitRolledBack(c)
    PROVE  HistoryInv'
<1> USE DEF HistoryInv, HistoryTypeOK
<1>1. Len(history) \in Nat /\ DOMAIN history = 1 .. Len(history)
    OBVIOUS
<1>2. CASE AddCommitToHistory(c)
    <2>1. /\ history' \in Seq(Row)
          /\ Len(history') = Len(history) + 1
          /\ \A i \in 1 .. Len(history) : history'[i] = history[i]
          /\ history'[Len(history) + 1].status = "intermediate"
        BY <1>2, AddedRows DEF AddCommitToHistory
    <2>2. Len(history') <= MaxRows
        BY <1>1, <1>2, <2>1, MaxRowsAssumption DEF AddCommitToHistory
    <2>3. AtMostOneCurrent'
        BY <1>1, <2>1 DEF AtMostOneCurrent
    <2> QED
        BY <2>1, <2>2, <2>3
<1>3. CASE SetCurrentCommit(c)
    <2>1. /\ history' \in Seq(Row)
          /\ Len(history') = Len(history)
          /\ RowsOf(history, c) = {} => RowsWith(history', "current") = {}
          /\ RowsOf(history, c) # {} => \E k : RowsWith(history', "current") = {k}
        BY <1>3, PromotedRows DEF SetCurrentCommit
    <2>2. AtMostOneCurrent'
        BY <2>1 DEF AtMostOneCurrent, RowsWith
    <2> QED
        BY <2>1, <2>2
<1>4. CASE MarkCommitRolledBack(c)
    <2>1. /\ history' \in Seq(Row)
          /\ Len(history') = Len(history)
          /\ \A i \in 1 .. Len(history) :
                history'[i].status = "current" => history[i].status = "current"
        BY <1>4, RolledBackRows DEF MarkCommitRolledBack
    <2>2. AtMostOneCurrent'
        BY <1>1, <2>1 DEF AtMostOneCurrent
    <2> QED
        BY <2>1, <2>2
<1> QED
    BY <1>2, <1>3, <1>4

LEMMA HistoryInvariant == HistorySpec => []HistoryInv
<1>1. HistoryInit => HistoryInv
    BY MaxRowsAssumption DEF HistoryInit, HistoryInv, HistoryTypeOK, AtMostOneCurrent
<1>2. HistoryInv /\ [HistoryNext]_history => HistoryInv'
    <2> SUFFICES ASSUME HistoryInv, [HistoryNext]_history PROVE HistoryInv'
        OBVIOUS
    <2>1. CASE HistoryNext
        BY <2>1, NextKeepsHistory DEF HistoryNext
    <2>2. CASE UNCHANGED history
        BY <2>2 DEF HistoryInv, HistoryTypeOK, AtMostOneCurrent
    <2> QED
        BY <2>1, <2>2
<1> QED
    BY <1>1, <1>2, PTL DEF HistorySpec

\* The table keeps its columns (registry.go:45-54).
THEOREM HistoryTypeCorrect == HistorySpec => []HistoryTypeOK
<1>1. HistoryInv => HistoryTypeOK
    BY DEF HistoryInv
<1> QED
    BY <1>1, HistoryInvariant, PTL

\* No interleaving of the callers leaves two rows current (registry.go:710).
THEOREM OneCurrentCommit == HistorySpec => []AtMostOneCurrent
<1>1. HistoryInv => AtMostOneCurrent
    BY DEF HistoryInv
<1> QED
    BY <1>1, HistoryInvariant, PTL

\* Rows are appended and keep their commit (registry.go:698-752).
THEOREM RowsAreKept == HistorySpec => HistoryOnlyGrows
<1>1. HistoryInv /\ [HistoryNext]_history
        => [/\ Len(history) <= Len(history')
            /\ \A i \in DOMAIN history : history'[i].hash = history[i].hash]_history
    <2> SUFFICES ASSUME HistoryInv, HistoryNext
                 PROVE  /\ Len(history) <= Len(history')
                        /\ \A i \in DOMAIN history : history'[i].hash = history[i].hash
        OBVIOUS
    <2> USE DEF HistoryInv, HistoryTypeOK
    <2>1. Len(history) \in Nat /\ DOMAIN history = 1 .. Len(history)
        OBVIOUS
    <2>2. PICK c \in Commits :
             AddCommitToHistory(c) \/ SetCurrentCommit(c) \/ MarkCommitRolledBack(c)
        BY DEF HistoryNext
    <2>3. CASE AddCommitToHistory(c)
        <3>1. /\ Len(history') = Len(history) + 1
              /\ \A i \in 1 .. Len(history) : history'[i] = history[i]
            BY <2>3, AddedRows DEF AddCommitToHistory
        <3> QED
            BY <2>1, <3>1
    <2>4. CASE SetCurrentCommit(c)
        BY <2>1, <2>4, PromotedRows DEF SetCurrentCommit
    <2>5. CASE MarkCommitRolledBack(c)
        BY <2>1, <2>5, RolledBackRows DEF MarkCommitRolledBack
    <2> QED
        BY <2>2, <2>3, <2>4, <2>5
<1> QED
    BY <1>1, HistoryInvariant, PTL DEF HistorySpec, HistoryOnlyGrows

\* A commit with rows that is made current is the one the next automatic
\* rollback reads (registry.go:711-746 and 786-796).
THEOREM CurrentCommitIsFound == HistorySpec => CurrentIsFound
<1>1. HistoryInv /\ [HistoryNext]_history
        => [\A c \in Commits :
              RowsOf(history, c) # {} /\ SetCurrentCommit(c)
                 => PreviousCurrent(history') = c]_history
    <2> SUFFICES ASSUME HistoryInv, NEW c \in Commits,
                        RowsOf(history, c) # {}, SetCurrentCommit(c)
                 PROVE  PreviousCurrent(history') = c
        OBVIOUS
    <2>1. history \in Seq(Row) /\ history' = Promoted(history, c)
        BY DEF HistoryInv, HistoryTypeOK, SetCurrentCommit
    <2>2. PICK k \in RowsOf(history, c) : RowsWith(history', "current") = {k}
        BY <2>1, PromotedRows
    <2>3. k \in 1 .. Len(history) /\ history[k].hash = c
        BY <2>1 DEF RowsOf
    <2>4. history'[k].hash = c
        BY <2>1, <2>3, PromotedRows
    <2>5. Newest({k}) = k
        <3>1. Len(history) \in Nat /\ {k} \subseteq 1 .. Len(history)
            BY <2>1, <2>3
        <3>2. Newest({k}) \in {k}
            BY <3>1, NewestExists
        <3> QED
            BY <3>2
    <2> QED
        BY <2>2, <2>4, <2>5 DEF PreviousCurrent
<1> QED
    BY <1>1, HistoryInvariant, PTL DEF HistorySpec, CurrentIsFound

=============================================================================
