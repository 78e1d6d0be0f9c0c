------------------------- MODULE DeployPipelineProofs -------------------------
(***************************************************************************)
(* Theorems about DeployPipeline for every value of its constants: the     *)
(* composition of queue, deployments, rollbacks, health checks and         *)
(* crashes.  All of them come from the inductive invariant PipelineInv.    *)
(***************************************************************************)
EXTENDS DeployPipeline, TLAPS

-----------------------------------------------------------------------------
(* The inductive invariant.                                                *)

\* Goroutines that deploy, roll back or check; a stop only sets the status.
Active == {t \in threads : t.fn # "stop"}

\* The deployment has not added its row to the history yet.
Recording(t) == t.at \in {"sync", "detect", "record"}

\* The goroutine can still come to an automatic rollback.
MayRollBack(t) == t.depth = 0 /\ t.at \in DeployAt \cup HealthAt \cup {"prev"}

\* Where goroutines of each function can be, and which commit they are about.
ShapeOK(t) ==
    /\ t.fn = "stop" <=> t.at = "idle"
    /\ t.fn = "deploy" => t.at \in DeployAt \cup RollbackAt \cup {"prev"} /\ t.depth = 0
    /\ t.fn = "rollback" => t.at \in RollbackAt
    /\ t.fn = "health" => t.at \in HealthAt \cup RollbackAt \cup {"prev"}
    /\ t.at \in RollbackAt => t.hash # NoCommit
    /\ t.hash <= tip

ShapeInv == \A t \in threads : ShapeOK(t)

\* Nobody knows a commit that has not been pushed.
DataInv ==
    /\ \A i \in DOMAIN asked : asked[i] <= tip
    /\ \A c \in hooks : c <= tip
    /\ \A i \in DOMAIN history : history[i].hash <= tip
    /\ rollbacks \in 0 .. MaxRollbacks /\ crashes \in Nat

\* A deployment belongs to the worker that is inside deployFn, what follows
\* from it to a request that has ended, and a rollback to its own number.
RootOK(t) ==
    /\ t.fn = "deploy" => \E w \in workers : w.at = "deploying" /\ w.req = t.root
    /\ t.fn = "rollback" => t.root > MaxRequests
    /\ t.fn = "health" /\ t.root <= MaxRequests => t.root <= finished[Project]
    /\ t.root <= MaxRequests + rollbacks

RootInv ==
    /\ \A t \in Active : RootOK(t)
    /\ \A t, u \in Active : t.root = u.root => t = u

\* While a request may still lead to a rollback it has not led to one.
RollbackInv ==
    /\ \A t \in Active : MayRollBack(t) => t.root <= MaxRequests /\ autoRollbacks[t.root] = 0
    /\ \A r \in Roots :
          autoRollbacks[r] > 0 =>
             \/ r <= finished[Project]
             \/ \E t \in threads : t.fn = "deploy" /\ t.root = r

\* A request adds one row at most.
Ahead == (\E w \in workers : w.at = "spawned") \/ \E t \in threads : Recording(t)

RecordInv == Len(history) + (IF Ahead THEN 1 ELSE 0) <= taken[Project]

PipelineInv ==
    /\ TypeOK /\ Q!QueueInv /\ H!AtMostOneCurrent /\ RollbackChainsAreShort
    /\ DataInv /\ ShapeInv /\ RootInv /\ RollbackInv /\ RecordInv

-----------------------------------------------------------------------------
(* The queue of the one project.                                           *)

LEMMA QueueUnchanged == Q!QueueInv /\ UNCHANGED queue => Q!QueueInv'
BY DEF queue, Q!QueueInv, Q!TypeOK, Q!OneDeploymentPerProject, Q!WorkerInv, Q!WorkerOK,
       Q!ProjectInv, Q!SlotOK, Q!IdleOK, Q!WedgedOnlyByPanic, Q!WorkersOf

\* The only worker, and what the numbers of requests say about each other.
LEMMA QueueFacts ==
    ASSUME Q!QueueInv
    PROVE  /\ accepted[Project] \in 0 .. MaxRequests
           /\ taken[Project] \in 0 .. accepted[Project]
           /\ finished[Project] \in 0 .. taken[Project]
           /\ isRunning[Project] \in BOOLEAN
           /\ pending[Project] \in 1 .. MaxRequests \cup {None}
           /\ pending[Project] # None =>
                 isRunning[Project] /\ pending[Project] = accepted[Project]
                 /\ taken[Project] < accepted[Project]
           /\ pending[Project] = None => taken[Project] = accepted[Project]
           /\ ~isRunning[Project] => finished[Project] = taken[Project] /\ workers = {}
           /\ \A w \in workers :
                 /\ w \in Q!Worker /\ w.proj = Project /\ w.req = taken[Project]
                 /\ w.req \in 1 .. MaxRequests
                 /\ w.at = "checking" => finished[Project] = taken[Project]
                 /\ w.at # "checking" => finished[Project] < taken[Project]
           /\ \A w, v \in workers : w = v
<1> USE NoneAssumption, BoundsAssumption DEF Q!QueueInv, Q!TypeOK
<1>1. \A w \in workers : w.proj = Project /\ w.req \in 1 .. MaxRequests
    BY DEF Q!Worker, Q!Request
<1>2. \A w, v \in workers : w = v
    BY <1>1 DEF Q!OneDeploymentPerProject
<1>3. /\ accepted[Project] \in 0 .. MaxRequests /\ taken[Project] \in 0 .. MaxRequests
      /\ finished[Project] \in 0 .. MaxRequests /\ isRunning[Project] \in BOOLEAN
      /\ pending[Project] \in 1 .. MaxRequests \cup {None}
    BY DEF Q!Request
<1>4. Q!SlotOK(Project) /\ Q!IdleOK(Project)
    BY DEF Q!ProjectInv
<1>5. \A w \in workers :
         /\ isRunning[Project] /\ w.req = taken[Project]
         /\ w.at = "checking" => finished[Project] = taken[Project]
         /\ w.at # "checking" => finished[Project] < taken[Project]
    BY <1>1 DEF Q!WorkerInv, Q!WorkerOK
<1> QED
    BY <1>1, <1>2, <1>3, <1>4, <1>5 DEF Q!SlotOK, Q!IdleOK

\* And back: with one project the invariant is what it says of that one.
QueueOK ==
    /\ isRunning[Project] \/ (workers = {} /\ pending[Project] = None)
    /\ isRunning[Project] => workers # {}
    /\ pending[Project] = None => taken[Project] = accepted[Project]
    /\ pending[Project] # None =>
          pending[Project] = accepted[Project] /\ taken[Project] < accepted[Project]
    /\ finished[Project] <= taken[Project]
    /\ ~isRunning[Project] => finished[Project] = taken[Project]
    /\ \A w, v \in workers : w = v
    /\ \A w \in workers :
          /\ w.req = taken[Project]
          /\ w.at = "checking" => finished[Project] = taken[Project]
          /\ w.at # "checking" => finished[Project] < taken[Project]

LEMMA QueueOKSuffices == Q!TypeOK /\ QueueOK => Q!QueueInv
<1> SUFFICES ASSUME Q!TypeOK, QueueOK PROVE Q!QueueInv
    OBVIOUS
<1>1. \A w \in workers : w.proj = Project
    BY DEF Q!TypeOK, Q!Worker
<1>2. Q!OneDeploymentPerProject
    BY DEF QueueOK, Q!OneDeploymentPerProject
<1>3. Q!WorkerInv
    BY <1>1 DEF QueueOK, Q!WorkerInv, Q!WorkerOK
<1>4. Q!ProjectInv
    BY DEF QueueOK, Q!ProjectInv, Q!SlotOK, Q!IdleOK
<1>5. Q!WedgedOnlyByPanic
    <2>1. Q!WorkersOf(Project) = workers
        BY <1>1 DEF Q!WorkersOf
    <2> QED
        BY <2>1 DEF QueueOK, Q!WedgedOnlyByPanic
<1> QED
    BY <1>2, <1>3, <1>4, <1>5 DEF Q!QueueInv

LEMMA RunningHasWorker == Q!QueueInv /\ isRunning[Project] => workers # {}
<1> SUFFICES ASSUME Q!QueueInv, isRunning[Project], workers = {} PROVE FALSE
    OBVIOUS
<1>1. Q!WorkersOf(Project) = {} /\ panics[Project] = 0
    BY DEF Q!QueueInv, Q!TypeOK, Q!WorkersOf
<1> QED
    BY <1>1 DEF Q!QueueInv, Q!WedgedOnlyByPanic

LEMMA EnqueueKeepsQueue ==
    ASSUME Q!QueueInv, Q!EnqueueDeployment(Project)
    PROVE  /\ Q!QueueInv'
           /\ accepted' = [accepted EXCEPT ![Project] = @ + 1]
           /\ accepted[Project] < MaxRequests
           /\ finished' = finished
           /\ taken'[Project] >= taken[Project]
           /\ \/ taken' = taken /\ workers' = workers
              \/ /\ taken'[Project] > taken[Project] /\ workers = {}
                 /\ \E w : workers' = {w} /\ w.at = "spawned" /\ w.req = taken'[Project]
           /\ \/ \E w \in workers' : w.at = "spawned"
              \/ pending'[Project] # None
<1> USE NoneAssumption, BoundsAssumption
<1>1. CASE Q!EnqueueStart(Project)
    <2> USE <1>1 DEF Q!EnqueueStart, Q!Accept
    <2> DEFINE w == [proj |-> Project, req |-> accepted'[Project], at |-> "spawned"]
    <2>1. workers = {} /\ pending[Project] = None /\ finished[Project] = accepted[Project]
          /\ taken[Project] = accepted[Project]
        BY QueueFacts
    <2>2. accepted'[Project] = accepted[Project] + 1 /\ accepted'[Project] \in 1 .. MaxRequests
        BY QueueFacts DEF Q!QueueInv, Q!TypeOK
    <2>3. taken'[Project] = accepted'[Project] /\ isRunning'[Project] = TRUE
        BY DEF Q!QueueInv, Q!TypeOK
    <2>4. workers' = {w}
        BY <2>1
    <2>5. Q!TypeOK'
        <3>1. w \in Q!Worker
            BY <2>2 DEF Q!Worker, Q!Request
        <3> QED
            BY <2>2, <2>4, <3>1 DEF Q!QueueInv, Q!TypeOK
    <2>6. QueueOK'
        BY <2>1, <2>2, <2>3, <2>4, QueueFacts DEF QueueOK
    <2>7. Q!QueueInv'
        BY <2>5, <2>6, QueueOKSuffices, PTL
    <2>8. \E v : workers' = {v} /\ v.at = "spawned" /\ v.req = taken'[Project]
        <3> WITNESS w
        <3> QED
            BY <2>3, <2>4
    <2>9. taken'[Project] > taken[Project]
        BY <2>1, <2>2, <2>3, QueueFacts
    <2> QED
        BY <2>1, <2>2, <2>3, <2>4, <2>7, <2>8, <2>9, QueueFacts
<1>2. CASE Q!EnqueuePend(Project)
    <2> USE <1>2 DEF Q!EnqueuePend, Q!Accept
    <2>1. accepted'[Project] = accepted[Project] + 1 /\ accepted'[Project] \in 1 .. MaxRequests
          /\ pending'[Project] = accepted'[Project]
        BY QueueFacts DEF Q!QueueInv, Q!TypeOK
    <2>2. Q!TypeOK'
        BY <2>1 DEF Q!QueueInv, Q!TypeOK, Q!Request
    <2>3. QueueOK'
        BY <2>1, QueueFacts, RunningHasWorker DEF QueueOK
    <2>4. Q!QueueInv'
        BY <2>2, <2>3, QueueOKSuffices, PTL
    <2> QED
        BY <2>1, <2>4, QueueFacts
<1> QED
    BY <1>1, <1>2 DEF Q!EnqueueDeployment

\* The worker calls deployFn, for the request it was started for or the one
\* that was pending.
LEMMA BeginKeepsQueue ==
    ASSUME Q!QueueInv, NEW w \in workers, Q!BeginDeploy(w) \/ Q!PopPending(w)
    PROVE  /\ Q!QueueInv'
           /\ accepted' = accepted /\ finished' = finished
           /\ \E v : workers' = {v} /\ v.at = "deploying" /\ v.req = taken'[Project]
           /\ Q!BeginDeploy(w) => w.at = "spawned" /\ taken' = taken /\ w.req = taken[Project]
           /\ Q!PopPending(w) => /\ w.at = "checking" /\ taken'[Project] > taken[Project]
                                 /\ taken'[Project] = pending[Project]
<1> USE NoneAssumption, BoundsAssumption
<1>1. /\ w \in Q!Worker /\ w.proj = Project /\ w.req = taken[Project]
      /\ w.req \in 1 .. MaxRequests /\ workers = {w}
    BY QueueFacts
<1>2. isRunning[Project]
    BY <1>1, QueueFacts
<1>3. CASE Q!BeginDeploy(w)
    <2>1. PICK v \in Q!Worker : /\ workers' = {v} /\ v.at = "deploying"
                                /\ v.req = taken[Project]
        <3>1. [w EXCEPT !.at = "deploying"] \in Q!Worker
            BY <1>1 DEF Q!Worker
        <3> WITNESS [w EXCEPT !.at = "deploying"] \in Q!Worker
        <3> QED
            BY <1>1, <1>3 DEF Q!BeginDeploy, Q!Becomes, Q!Worker
    <2>2. w.at = "spawned" /\ UNCHANGED <<isRunning, pending, accepted, taken, finished, panics>>
        BY <1>3 DEF Q!BeginDeploy
    <2>3. Q!TypeOK'
        BY <2>1, <2>2 DEF Q!QueueInv, Q!TypeOK
    <2>4. QueueOK'
        BY <1>1, <1>2, <2>1, <2>2, QueueFacts DEF QueueOK
    <2>5. Q!QueueInv'
        BY <2>3, <2>4, QueueOKSuffices, PTL
    <2> QED
        BY <1>1, <2>1, <2>2, <2>5 DEF Q!PopPending
<1>4. CASE Q!PopPending(w)
    <2>1. /\ pending[Project] \in 1 .. MaxRequests /\ pending[Project] = accepted[Project]
          /\ pending'[Project] = None /\ taken'[Project] = pending[Project]
          /\ UNCHANGED <<isRunning, accepted, finished, panics>> /\ w.at = "checking"
        BY <1>1, <1>4, QueueFacts DEF Q!QueueInv, Q!TypeOK, Q!PopPending
    <2>2. PICK v \in Q!Worker : /\ workers' = {v} /\ v.at = "deploying"
                                /\ v.req = pending[Project]
        <3>1. [w EXCEPT !.at = "deploying", !.req = pending[w.proj]] \in Q!Worker
            BY <1>1, <2>1 DEF Q!Worker, Q!Request
        <3> WITNESS [w EXCEPT !.at = "deploying", !.req = pending[w.proj]] \in Q!Worker
        <3> QED
            BY <1>1, <1>4 DEF Q!PopPending, Q!Becomes, Q!Worker
    <2>3. Q!TypeOK'
        BY <1>1, <1>4, <2>1, <2>2 DEF Q!QueueInv, Q!TypeOK, Q!PopPending
    <2>4. taken'[Project] > taken[Project] /\ finished[Project] = taken[Project]
        BY <1>1, <2>1, QueueFacts
    <2>5. QueueOK'
        BY <1>1, <1>2, <2>1, <2>2, <2>4, QueueFacts DEF QueueOK
    <2>6. Q!QueueInv'
        BY <2>3, <2>5, QueueOKSuffices, PTL
    <2> QED
        BY <2>1, <2>2, <2>4, <2>6 DEF Q!BeginDeploy
<1> QED
    BY <1>3, <1>4

LEMMA ReturnKeepsQueue ==
    ASSUME Q!QueueInv, NEW w \in workers, Q!DeployReturns(w)
    PROVE  /\ Q!QueueInv'
           /\ accepted' = accepted /\ taken' = taken
           /\ w.at = "deploying"
           /\ \E v : workers' = {v} /\ v.at = "checking"
           /\ finished'[Project] = w.req /\ finished'[Project] >= finished[Project]
<1> USE NoneAssumption, BoundsAssumption
<1>1. /\ w \in Q!Worker /\ w.proj = Project /\ w.req = taken[Project]
      /\ w.req \in 1 .. MaxRequests /\ workers = {w} /\ isRunning[Project]
    BY QueueFacts
<1>2. PICK v \in Q!Worker : workers' = {v} /\ v.at = "checking" /\ v.req = taken[Project]
    <2>1. [w EXCEPT !.at = "checking"] \in Q!Worker
        BY <1>1 DEF Q!Worker
    <2> WITNESS [w EXCEPT !.at = "checking"] \in Q!Worker
    <2> QED
        BY <1>1 DEF Q!DeployReturns, Q!Becomes, Q!Worker
<1>3. /\ finished'[Project] = taken[Project] /\ w.at = "deploying"
      /\ UNCHANGED <<isRunning, pending, accepted, taken, panics>>
    BY <1>1 DEF Q!DeployReturns, Q!QueueInv, Q!TypeOK
<1>4. Q!TypeOK'
    BY <1>1, <1>2, <1>3 DEF Q!DeployReturns, Q!QueueInv, Q!TypeOK
<1>5. QueueOK'
    BY <1>1, <1>2, <1>3, QueueFacts DEF QueueOK
<1>6. Q!QueueInv'
    BY <1>4, <1>5, QueueOKSuffices, PTL
<1>7. taken[Project] >= finished[Project]
    BY QueueFacts
<1> QED
    BY <1>1, <1>2, <1>3, <1>6, <1>7

LEMMA IdleKeepsQueue ==
    ASSUME Q!QueueInv, NEW w \in workers, Q!GoIdle(w)
    PROVE  /\ Q!QueueInv'
           /\ accepted' = accepted /\ taken' = taken /\ finished' = finished
           /\ w.at = "checking" /\ workers = {w} /\ workers' = {} /\ pending' = pending
<1> USE NoneAssumption, BoundsAssumption DEF Q!GoIdle
<1>1. workers = {w} /\ w.proj = Project /\ workers' = {}
    BY QueueFacts
<1>2. pending[Project] = None /\ isRunning'[Project] = FALSE
    BY <1>1 DEF Q!QueueInv, Q!TypeOK
<1>3. Q!TypeOK'
    BY <1>1 DEF Q!QueueInv, Q!TypeOK
<1>4. QueueOK'
    BY <1>1, <1>2, QueueFacts DEF QueueOK
<1>5. Q!QueueInv'
    BY <1>3, <1>4, QueueOKSuffices, PTL
<1> QED
    BY <1>1, <1>5

\* The queue is in memory: after a crash it is empty.
LEMMA CrashKeepsQueue ==
    ASSUME Q!QueueInv, Crash
    PROVE  /\ Q!QueueInv'
           /\ accepted' = accepted /\ workers' = {}
           /\ taken'[Project] = accepted[Project] /\ finished'[Project] = accepted[Project]
<1> USE NoneAssumption, BoundsAssumption DEF Crash
<1>1. pending'[Project] = None /\ isRunning'[Project] = FALSE
    BY DEF Q!QueueInv, Q!TypeOK
<1>2. Q!TypeOK'
    BY DEF Q!QueueInv, Q!TypeOK
<1>3. QueueOK'
    BY <1>1, QueueFacts DEF QueueOK
<1>4. Q!QueueInv'
    BY <1>2, <1>3, QueueOKSuffices, PTL
<1>5. taken'[Project] = accepted[Project] /\ finished'[Project] = accepted[Project]
    OBVIOUS
<1> QED
    BY <1>4, <1>5

-----------------------------------------------------------------------------
(* The statements on the table of the history.                             *)

LEMMA HistoryTyped ==
    ASSUME H!HistoryTypeOK
    PROVE  /\ history \in Seq(H!Row) /\ Len(history) \in Nat
           /\ DOMAIN history = 1 .. Len(history)
           /\ \A i \in 1 .. Len(history) : history[i] \in H!Row /\ history[i].hash \in Commits \cup {NoCommit}
<1>1. history \in Seq(H!Row)
    BY DEF H!HistoryTypeOK
<1>2. /\ Len(history) \in Nat /\ DOMAIN history = 1 .. Len(history)
      /\ \A i \in 1 .. Len(history) : history[i] \in H!Row
    BY <1>1
<1> QED
    BY <1>1, <1>2 DEF H!Row

\* AddCommitToHistory appends a row.
LEMMA AddKeepsHistory ==
    ASSUME H!HistoryTypeOK, H!AtMostOneCurrent, NEW c \in Commits \cup {NoCommit}, history' = H!Added(history, c)
    PROVE  /\ history' \in Seq(H!Row) /\ H!AtMostOneCurrent'
           /\ Len(history') = Len(history) + 1 /\ DOMAIN history' = 1 .. Len(history')
           /\ \A i \in DOMAIN history' : \/ i \in DOMAIN history /\ history'[i] = history[i]
                                         \/ history'[i].hash = c
<1>1. /\ history \in Seq(H!Row) /\ Len(history) \in Nat /\ DOMAIN history = 1 .. Len(history)
      /\ \A i \in 1 .. Len(history) : history[i] \in H!Row
    BY HistoryTyped
<1>2. /\ history' \in Seq(H!Row) /\ Len(history') = Len(history) + 1
      /\ DOMAIN history' = 1 .. Len(history')
      /\ \A i \in 1 .. Len(history) : history'[i] = history[i]
      /\ history'[Len(history) + 1].status = "intermediate"
      /\ history'[Len(history) + 1].hash = c
    BY <1>1 DEF H!Added, H!Row, H!Status
<1>3. H!AtMostOneCurrent'
    BY <1>1, <1>2 DEF H!AtMostOneCurrent
<1> QED
    BY <1>1, <1>2, <1>3

\* SetCurrentCommit and MarkCommitRolledBack keep the rows and their commits,
\* and leave one row at most current.
LEMMA UpdatesKeepHistory ==
    ASSUME H!HistoryTypeOK, H!AtMostOneCurrent, NEW c \in Commits \cup {NoCommit},
           history' \in {H!Promoted(history, c), H!RolledBack(history, c)}
    PROVE  /\ history' \in Seq(H!Row) /\ H!AtMostOneCurrent'
           /\ Len(history') = Len(history) /\ DOMAIN history' = DOMAIN history
           /\ \A i \in DOMAIN history : history'[i].hash = history[i].hash
<1>1. /\ history \in Seq(H!Row) /\ Len(history) \in Nat /\ DOMAIN history = 1 .. Len(history)
      /\ \A i \in 1 .. Len(history) : history[i] \in H!Row
    BY HistoryTyped
<1>2. CASE history' = H!Promoted(history, c)
    <2> DEFINE d == H!Demoted(history)
               fresh == H!RowsOf(d, c) \cap H!RowsWith(d, "intermediate")
               pick == H!Newest(IF fresh # {} THEN fresh ELSE H!RowsOf(d, c))
    <2>1. /\ DOMAIN d = 1 .. Len(history)
          /\ \A i \in 1 .. Len(history) : /\ d[i] \in H!Row /\ d[i].status # "current"
                                          /\ d[i].hash = history[i].hash
        BY <1>1 DEF H!Demoted, H!Row, H!Status
    <2>2. history' = [i \in 1 .. Len(history) |->
                         IF H!RowsOf(d, c) # {} /\ i = pick
                            THEN [d[i] EXCEPT !.status = "current"] ELSE d[i]]
        BY <1>2, <2>1 DEF H!Promoted
    <2> HIDE DEF d, pick
    <2>3. \A i \in 1 .. Len(history) : /\ history'[i] \in H!Row
                                       /\ history'[i].hash = history[i].hash
                                       /\ history'[i].status = "current" => i = pick
        BY <2>1, <2>2 DEF H!Row, H!Status
    <2>4. history' \in Seq(H!Row) /\ Len(history') = Len(history)
          /\ DOMAIN history' = 1 .. Len(history)
        <3>1. history' \in [1 .. Len(history) -> H!Row]
            BY <2>2, <2>3
        <3> QED
            BY <1>1, <3>1
    <2>5. H!AtMostOneCurrent'
        BY <2>3, <2>4 DEF H!AtMostOneCurrent
    <2> QED
        BY <1>1, <2>3, <2>4, <2>5
<1>3. CASE history' = H!RolledBack(history, c)
    <2>1. history' = [i \in 1 .. Len(history) |->
              IF history[i].hash = c THEN [history[i] EXCEPT !.status = "rolled_back"]
              ELSE history[i]]
        BY <1>1, <1>3 DEF H!RolledBack
    <2>2. \A i \in 1 .. Len(history) :
             /\ history'[i] \in H!Row
             /\ history'[i].hash = history[i].hash
             /\ history'[i].status = "current" => history[i].status = "current"
        BY <1>1, <2>1 DEF H!Row, H!Status
    <2>3. history' \in Seq(H!Row) /\ Len(history') = Len(history)
          /\ DOMAIN history' = 1 .. Len(history)
        BY <1>1, <2>1, <2>2
    <2>4. H!AtMostOneCurrent'
        BY <1>1, <2>2, <2>3 DEF H!AtMostOneCurrent
    <2> QED
        BY <1>1, <2>2, <2>3, <2>4
<1> QED
    BY <1>2, <1>3

\* The target of an automatic rollback is a commit of the history.
LEMMA TargetIsRecorded ==
    ASSUME H!HistoryTypeOK, H!AtMostOneCurrent, H!PreviousCurrent(history) # NoCommit
    PROVE  \E i \in 1 .. Len(history) : H!PreviousCurrent(history) = history[i].hash
<1> DEFINE S == H!RowsWith(history, "current")
<1>1. PICK i \in S : TRUE
    BY DEF H!PreviousCurrent
<1>2. i \in 1 .. Len(history) /\ i \in Nat
    BY HistoryTyped DEF H!RowsWith
<1>3. S = {i}
    BY <1>1 DEF H!RowsWith, H!AtMostOneCurrent
<1>4. H!Newest(S) = i
    BY <1>2, <1>3 DEF H!Newest
<1> QED
    BY <1>1, <1>2, <1>4 DEF H!PreviousCurrent

-----------------------------------------------------------------------------
(* What a step of a goroutine does.                                        *)

\* The goroutine keeps its request, and a rollback leads to a health check.
Continues(t, S) ==
    /\ UNCHANGED queue
    /\ t.fn = "deploy" => S # {}
    /\ \A v \in S : v.fn = t.fn \/ (v.fn = "health" /\ t.fn = "rollback")

\* A deployment ends: control goes back to the queue's worker.
HandsBack(t, S) ==
    /\ t.fn = "deploy"
    /\ \A v \in S : v.fn = "health"
    /\ \E w \in workers : w.req = t.root /\ Q!DeployReturns(w)

\* t is replaced by the goroutines of S, one at most: t itself further on, or
\* the health check it has started.
ThreadFact(t, S) ==
    /\ threads' = (threads \ {t}) \cup S
    /\ \A u, v \in S : u = v
    /\ \A v \in S : /\ v \in Thread /\ v.root = t.root /\ v.fn # "stop"
                    /\ ShapeOK(v)'
                    /\ Recording(v) => Recording(t)
                    /\ MayRollBack(v) => MayRollBack(t)
    /\ Continues(t, S) \/ HandsBack(t, S)

DataFact ==
    /\ UNCHANGED <<repo, bounds>>
    /\ head' \in 0 .. tip
    /\ app' \in 0 .. tip /\ attempted' \in 0 .. tip
    /\ status' \in {"idle", "deploying", "running", "installed", "failed"}

\* One automatic rollback, and no second one after it.
AutoFact(t, S) ==
    \/ UNCHANGED autoRollbacks
    \/ /\ UNCHANGED queue
       /\ MayRollBack(t) /\ \A v \in S : ~MayRollBack(v)
       /\ autoRollbacks' = [autoRollbacks EXCEPT ![t.root] = @ + 1]

\* One row, by a deployment that had none; or two statements of an UPDATE.
HistoryFact(t, S) ==
    \/ UNCHANGED history
    \/ /\ Recording(t) /\ \A v \in S : ~Recording(v)
       /\ UNCHANGED queue /\ t.hash \in Commits \cup {NoCommit}
       /\ history' = H!Added(history, t.hash)
    \/ /\ t.hash \in Commits \cup {NoCommit}
       /\ history' \in {H!Promoted(history, t.hash), H!RolledBack(history, t.hash)}

StepFact(t, S) ==
    ThreadFact(t, S) /\ DataFact /\ AutoFact(t, S) /\ HistoryFact(t, S)

LEMMA ThreadTyped ==
    ASSUME PipelineInv, NEW t \in threads
    PROVE  t \in Thread /\ ShapeOK(t) /\ tip \in Nat /\ t.hash \in 0 .. tip /\ tip <= MaxCommits
BY BoundsAssumption DEF PipelineInv, TypeOK, ShapeInv, Thread, Commits, NoCommit, ShapeOK

\* Goes(t, at): the goroutine stays in the function it is in.
MayGo(t, at) ==
    /\ \/ at \in DeployAt /\ t.at \in DeployAt
       \/ at \in RollbackAt /\ t.at \in RollbackAt
       \/ at \in HealthAt /\ t.at \in HealthAt
       \/ at = "prev" /\ t.at \in {"install", "launch", "unwell"}
    /\ Recording([t EXCEPT !.at = at]) => t.at = "sync"
    /\ at \in RollbackAt => t.hash # NoCommit

LEMMA GoesFacts ==
    ASSUME PipelineInv, NEW t \in threads, NEW at, Goes(t, at), MayGo(t, at),
           UNCHANGED <<queue, tip>>
    PROVE  ThreadFact(t, {[t EXCEPT !.at = at]})
<1> DEFINE v == [t EXCEPT !.at = at]
<1>1. t \in Thread /\ ShapeOK(t)
    BY ThreadTyped
<1>2. /\ v \in Thread /\ v.root = t.root /\ v.fn = t.fn /\ v.depth = t.depth /\ v.hash = t.hash
      /\ v.at = at
    BY <1>1 DEF MayGo, Thread, DeployAt, RollbackAt, HealthAt
<1>3. v.fn # "stop"
    BY <1>1, <1>2 DEF MayGo, ShapeOK, DeployAt, RollbackAt, HealthAt
<1>4. ShapeOK(v)'
    BY <1>1, <1>2, <1>3 DEF MayGo, ShapeOK, DeployAt, RollbackAt, HealthAt, Thread
<1>5. Recording(v) => Recording(t)
    BY <1>2 DEF MayGo, Recording
<1>6. MayRollBack(v) => MayRollBack(t)
    BY <1>2 DEF MayGo, MayRollBack, DeployAt, RollbackAt, HealthAt
<1> HIDE DEF v
<1> QED
    BY <1>2, <1>3, <1>4, <1>5, <1>6 DEF ThreadFact, Continues, Goes, v

\* Returns(t, S): the goroutine ends, having started a health check or not.
LEMMA ReturnsFacts ==
    ASSUME PipelineInv, NEW t \in threads, NEW S, Returns(t, S), UNCHANGED tip,
           \/ S = {}
           \/ t.at = "publish" /\ S = {HealthCheck(t, 0)}
           \/ t.at = "rbpublish" /\ S = {HealthCheck(t, 1)}
    PROVE  ThreadFact(t, S)
<1>1. t \in Thread /\ ShapeOK(t)
    BY ThreadTyped
<1>2. ASSUME NEW v \in S
      PROVE  /\ v \in Thread /\ v.root = t.root /\ v.fn = "health"
             /\ ShapeOK(v)' /\ ~Recording(v)
             /\ MayRollBack(v) => MayRollBack(t)
    <2>1. PICK d \in {0, 1} : v = HealthCheck(t, d) /\ (d = 0 => t.at = "publish")
                              /\ t.at \in {"publish", "rbpublish"}
        OBVIOUS
    <2>2. /\ v \in Thread /\ v.root = t.root /\ v.fn = "health" /\ v.at = "mode"
          /\ v.hash = t.hash /\ v.depth = d
        BY <1>1, <2>1 DEF HealthCheck, Thread, HealthAt
    <2>3. ShapeOK(v)'
        BY <1>1, <2>1, <2>2 DEF ShapeOK, HealthAt, DeployAt, RollbackAt, Thread
    <2>4. MayRollBack(v) => MayRollBack(t)
        <3>1. t.at = "publish" => t.depth = 0
            BY <1>1 DEF ShapeOK, Thread, DeployAt, RollbackAt, HealthAt
        <3> QED
            BY <2>1, <2>2, <3>1 DEF MayRollBack, DeployAt
    <2> QED
        BY <2>2, <2>3, <2>4 DEF Recording
<1>3. \A u, v \in S : u = v
    OBVIOUS
<1>4. t.fn # "deploy" => \A v \in S : v.fn = t.fn \/ t.fn = "rollback"
    BY <1>1, <1>2 DEF ShapeOK, Thread, DeployAt, HealthAt, RollbackAt
<1> QED
    BY <1>2, <1>3, <1>4 DEF ThreadFact, Continues, HandsBack, Returns
\* The goroutine moves on and at most one statement changes the history.
LEMMA StepByGoing ==
    ASSUME PipelineInv, NEW t \in threads, NEW at, Goes(t, at), MayGo(t, at),
           UNCHANGED <<queue, repo, autoRollbacks, bounds>>,
           head' \in 0 .. tip, app' \in 0 .. tip, attempted' \in 0 .. tip,
           status' \in {"idle", "deploying", "running", "installed", "failed"},
           HistoryFact(t, {[t EXCEPT !.at = at]})
    PROVE  \E S : StepFact(t, S)
<1>1. UNCHANGED tip
    BY DEF repo
<1>2. ThreadFact(t, {[t EXCEPT !.at = at]})
    BY <1>1, GoesFacts
<1>3. DataFact
    BY DEF DataFact
<1>4. AutoFact(t, {[t EXCEPT !.at = at]})
    BY DEF AutoFact
<1> QED
    BY <1>2, <1>3, <1>4 DEF StepFact

\* The goroutine ends.
LEMMA StepByReturning ==
    ASSUME PipelineInv, NEW t \in threads, NEW S, Returns(t, S),
           \/ S = {}
           \/ t.at = "publish" /\ S = {HealthCheck(t, 0)}
           \/ t.at = "rbpublish" /\ S = {HealthCheck(t, 1)},
           UNCHANGED <<repo, history, head, app, autoRollbacks, bounds>>,
           attempted' \in 0 .. tip,
           status' \in {"idle", "deploying", "running", "installed", "failed"}
    PROVE  \E T : StepFact(t, T)
<1>1. UNCHANGED tip
    BY DEF repo
<1>2. ThreadFact(t, S)
    BY <1>1, ReturnsFacts
<1>3. DataFact
    BY DEF DataFact, PipelineInv, TypeOK
<1>4. AutoFact(t, S) /\ HistoryFact(t, S)
    BY DEF AutoFact, HistoryFact
<1> QED
    BY <1>2, <1>3, <1>4 DEF StepFact

LEMMA ThreadStepFacts ==
    ASSUME PipelineInv, NEW t \in threads, ThreadStep(t)
    PROVE  \E S : StepFact(t, S)
<1>1. /\ t \in Thread /\ ShapeOK(t) /\ tip \in Nat /\ tip \in Commits /\ t.hash \in 0 .. tip
      /\ t.hash \in Commits \cup {NoCommit}
    BY ThreadTyped, BoundsAssumption DEF PipelineInv, TypeOK, Commits, NoCommit
<1>2. /\ head \in 0 .. tip /\ app \in 0 .. tip /\ attempted \in 0 .. tip
      /\ status \in {"idle", "deploying", "running", "installed", "failed"}
    BY DEF PipelineInv, TypeOK
<1>3. t.at \in RollbackAt => t.hash # NoCommit
    BY <1>1 DEF ShapeOK
<1>4. Target(t) \in 1 .. tip /\ tip \in 1 .. tip
    BY <1>1 DEF Target, Commits, NoCommit
<1>5. Newer(Target(t)) => attempted' \in 0 .. tip
    BY <1>2, <1>4 DEF Newer
<1>6. CASE SyncSucceeds(t)
    <2> DEFINE at == IF t.hash = NoCommit THEN "detect" ELSE "record"
    <2>1. /\ t.at = "sync" /\ head' \in 1 .. tip /\ Goes(t, at) /\ attempted' \in 0 .. tip
          /\ UNCHANGED <<queue, repo, history, status, app, autoRollbacks, bounds>>
        BY <1>4, <1>5, <1>6 DEF SyncSucceeds
    <2>2. MayGo(t, at)
        BY <1>1, <2>1 DEF MayGo, DeployAt, RollbackAt, Recording, Thread
    <2>3. HistoryFact(t, {[t EXCEPT !.at = at]})
        BY <2>1 DEF HistoryFact
    <2>4. head' \in 0 .. tip /\ app' \in 0 .. tip
        BY <1>1, <1>2, <2>1 DEF NoCommit
    <2> HIDE DEF at
    <2> QED
        BY <1>2, <2>1, <2>2, <2>3, <2>4, StepByGoing
<1>7. CASE DetectCommit(t)
    <2>1. /\ t.at = "detect"
          /\ UNCHANGED <<queue, repo, history, status, head, app, attempted, autoRollbacks, bounds>>
        BY <1>7 DEF DetectCommit
    <2>2. PICK h \in {head, NoCommit} :
              threads' = (threads \ {t}) \cup {[t EXCEPT !.at = "record", !.hash = h]}
        BY <1>7 DEF DetectCommit
    <2>9. h \in Commits \cup {NoCommit} /\ h \in 0 .. tip /\ UNCHANGED tip
        BY <1>1, <1>2, <2>1, BoundsAssumption DEF Commits, NoCommit, repo
    <2>3. PICK v \in Thread : /\ threads' = (threads \ {t}) \cup {v}
                              /\ v.root = t.root /\ v.fn = t.fn /\ v.depth = t.depth
                              /\ v.at = "record" /\ v.hash = h
        <3>1. [t EXCEPT !.at = "record", !.hash = h] \in Thread
            BY <1>1, <2>9 DEF Thread, DeployAt
        <3> WITNESS [t EXCEPT !.at = "record", !.hash = h] \in Thread
        <3> QED
            BY <1>1, <2>2 DEF Thread
    <2>4. v.fn # "stop" /\ ShapeOK(v)'
        BY <1>1, <1>2, <2>1, <2>9, <2>3
            DEF ShapeOK, DeployAt, RollbackAt, HealthAt, Commits, NoCommit
    <2>5. (Recording(v) => Recording(t)) /\ (MayRollBack(v) => MayRollBack(t))
        BY <2>1, <2>3 DEF Recording, MayRollBack, DeployAt, HealthAt
    <2>6. ThreadFact(t, {v})
        BY <2>1, <2>3, <2>4, <2>5 DEF ThreadFact, Continues
    <2>7. DataFact /\ AutoFact(t, {v}) /\ HistoryFact(t, {v})
        BY <1>2, <2>1 DEF DataFact, AutoFact, HistoryFact
    <2> QED
        BY <2>6, <2>7 DEF StepFact
<1>8. CASE RollBackAutomatically(t)
    <2> DEFINE prev == H!PreviousCurrent(history)
    <2>1. /\ t.at = "prev" /\ t.depth < 1 /\ prev # NoCommit
          /\ autoRollbacks' = [autoRollbacks EXCEPT ![t.root] = @ + 1]
          /\ UNCHANGED <<queue, repo, history, status, head, app, attempted, bounds>>
        BY <1>8 DEF RollBackAutomatically
    <2>2. prev \in Commits /\ prev <= tip /\ UNCHANGED tip
        BY <2>1, TargetIsRecorded, HistoryTyped DEF PipelineInv, TypeOK, DataInv, repo
    <2>3. PICK v \in Thread : /\ threads' = (threads \ {t}) \cup {v}
                              /\ v.root = t.root /\ v.fn = t.fn /\ v.depth = t.depth
                              /\ v.at = "rbbegin" /\ v.hash = prev
        <3>1. [t EXCEPT !.at = "rbbegin", !.hash = prev] \in Thread
            BY <1>1, <2>2 DEF Thread, RollbackAt
        <3> WITNESS [t EXCEPT !.at = "rbbegin", !.hash = prev] \in Thread
        <3> QED
            BY <1>1, <1>8 DEF RollBackAutomatically, Thread
    <2>4. v.fn # "stop" /\ ShapeOK(v)'
        BY <1>1, <1>2, <2>1, <2>2, <2>3
            DEF ShapeOK, DeployAt, RollbackAt, HealthAt, Commits, NoCommit
    <2>5. ~Recording(v) /\ ~MayRollBack(v)
        BY <2>3 DEF Recording, MayRollBack, DeployAt, HealthAt
    <2>6. MayRollBack(t)
        BY <1>1, <2>1 DEF MayRollBack, Thread
    <2>7. ThreadFact(t, {v})
        BY <2>1, <2>3, <2>4, <2>5 DEF ThreadFact, Continues
    <2>8. DataFact /\ AutoFact(t, {v}) /\ HistoryFact(t, {v})
        BY <1>2, <2>1, <2>5, <2>6 DEF DataFact, AutoFact, HistoryFact
    <2> QED
        BY <2>7, <2>8 DEF StepFact
<1>9. CASE RecordCommit(t)
    <2>1. /\ t.at = "record" /\ history' = H!Added(history, t.hash) /\ Goes(t, "install")
          /\ UNCHANGED <<queue, repo, status, head, app, attempted, autoRollbacks, bounds>>
        BY <1>9 DEF RecordCommit
    <2>2. MayGo(t, "install")
        BY <1>1, <1>3, <2>1 DEF MayGo, DeployAt, RollbackAt, Recording, Thread
    <2>3. HistoryFact(t, {[t EXCEPT !.at = "install"]})
        BY <1>1, <1>3, <2>1 DEF HistoryFact, Recording, Thread
    <2> QED
        BY <1>2, <2>1, <2>2, <2>3, StepByGoing
<1>10. CASE RollbackMarks(t)
    <2>1. /\ t.at = "rbmark" /\ history' = H!RolledBack(history, t.hash) /\ Goes(t, "rbcurrent")
          /\ UNCHANGED <<queue, repo, status, head, app, attempted, autoRollbacks, bounds>>
        BY <1>10 DEF RollbackMarks
    <2>2. MayGo(t, "rbcurrent")
        BY <1>1, <1>3, <2>1 DEF MayGo, RollbackAt, Recording, Thread
    <2>3. HistoryFact(t, {[t EXCEPT !.at = "rbcurrent"]})
        BY <1>1, <1>3, <2>1 DEF HistoryFact
    <2> QED
        BY <1>2, <2>1, <2>2, <2>3, StepByGoing
<1>11. CASE RollbackSetsCurrent(t)
    <2>1. /\ t.at = "rbcurrent" /\ history' = H!Promoted(history, t.hash) /\ Goes(t, "rbpublish")
          /\ UNCHANGED <<queue, repo, status, head, app, attempted, autoRollbacks, bounds>>
        BY <1>11 DEF RollbackSetsCurrent
    <2>2. MayGo(t, "rbpublish")
        BY <1>1, <1>3, <2>1 DEF MayGo, RollbackAt, Recording, Thread
    <2>3. HistoryFact(t, {[t EXCEPT !.at = "rbpublish"]})
        BY <1>1, <1>3, <2>1 DEF HistoryFact
    <2> QED
        BY <1>2, <2>1, <2>2, <2>3, StepByGoing
<1>12. CASE Promote(t)
    <2>1. /\ t.at = "promote" /\ history' = H!Promoted(history, t.hash) /\ Goes(t, "running")
          /\ UNCHANGED <<queue, repo, status, head, app, attempted, autoRollbacks, bounds>>
        BY <1>12 DEF Promote
    <2>2. MayGo(t, "running")
        BY <1>1, <1>3, <2>1 DEF MayGo, HealthAt, RollbackAt, Recording, Thread
    <2>3. HistoryFact(t, {[t EXCEPT !.at = "running"]})
        BY <1>1, <1>3, <2>1 DEF HistoryFact
    <2> QED
        BY <1>2, <2>1, <2>2, <2>3, StepByGoing
<1>13. CASE RollbackChecksOut(t)
    <2>1. /\ t.at = "rbcheckout" /\ head' \in {t.hash, head} /\ Goes(t, "rbinstall")
          /\ UNCHANGED <<queue, repo, history, status, app, attempted, autoRollbacks, bounds>>
        BY <1>13 DEF RollbackChecksOut
    <2>2. MayGo(t, "rbinstall")
        BY <1>1, <1>3, <2>1 DEF MayGo, RollbackAt, Recording, Thread
    <2>3. HistoryFact(t, {[t EXCEPT !.at = "rbinstall"]})
        BY <2>1 DEF HistoryFact
    <2> QED
        BY <1>1, <1>2, <1>3, <2>1, <2>2, <2>3, StepByGoing
\* The actions that only move the goroutine and set the status or the app.
<1>14. CASE \/ InstallSucceeds(t) \/ (InstallFails(t) /\ t.at = "install")
            \/ StartNothing(t) \/ StartStopsOld(t) \/ StartSucceeds(t)
            \/ (StartFails(t) /\ t.at = "launch")
            \/ RollbackBegins(t) \/ RollbackStops(t)
            \/ FindNoProcess(t) \/ WaitToStabilise(t) \/ HealthPasses(t) \/ HealthFails(t)
            \/ MarkFailed(t)
    <2>1. /\ UNCHANGED <<queue, repo, history, head, attempted, autoRollbacks, bounds>>
          /\ app' \in {app, head, NoCommit} /\ status' \in {status, "deploying", "failed"}
        BY <1>14 DEF InstallSucceeds, InstallFails, StartNothing, StartStopsOld,
            StartSucceeds, StartFails, RollbackBegins, RollbackStops, FindNoProcess,
            WaitToStabilise, HealthPasses, HealthFails, MarkFailed
    <2>2. \E at : /\ Goes(t, at)
                  /\ \/ at \in {"start", "launch", "publish"} /\ t.at \in DeployAt
                     \/ at \in RollbackAt /\ t.at \in RollbackAt
                     \/ at \in HealthAt /\ t.at \in HealthAt
                     \/ at = "prev" /\ t.at \in {"install", "launch", "unwell"}
                  /\ t.at \notin {"sync", "detect", "idle"}
        BY <1>14 DEF InstallSucceeds, InstallFails, StartNothing, StartStopsOld,
            StartSucceeds, StartFails, RollbackBegins, RollbackStops, FindNoProcess,
            WaitToStabilise, HealthPasses, HealthFails, MarkFailed,
            DeployAt, RollbackAt, HealthAt
    <2>3. PICK at : /\ Goes(t, at)
                    /\ \/ at \in {"start", "launch", "publish"} /\ t.at \in DeployAt
                       \/ at \in RollbackAt /\ t.at \in RollbackAt
                       \/ at \in HealthAt /\ t.at \in HealthAt
                       \/ at = "prev" /\ t.at \in {"install", "launch", "unwell"}
                    /\ t.at \notin {"sync", "detect", "idle"}
        BY <2>2
    <2>4. MayGo(t, at) /\ at # "detect"
        BY <1>1, <1>3, <2>3 DEF MayGo, DeployAt, RollbackAt, HealthAt, Recording, Thread
    <2>5. HistoryFact(t, {[t EXCEPT !.at = at]})
        BY <2>1 DEF HistoryFact
    <2>6. /\ head' = head /\ attempted' = attempted /\ app' \in 0 .. tip
          /\ status' \in {"idle", "deploying", "running", "installed", "failed"}
        BY <1>1, <1>2, <2>1 DEF NoCommit
    <2> QED
        BY <1>2, <2>1, <2>3, <2>4, <2>5, <2>6, StepByGoing
\* The actions that end the goroutine.
<1>15. CASE \/ SyncFails(t) \/ (InstallFails(t) /\ t.at = "rbinstall")
            \/ (StartFails(t) /\ t.at = "rblaunch")
            \/ GiveUp(t) \/ SkipInstallOnly(t) \/ MarkRunning(t) \/ StopSetsIdle(t)
    <2>1. /\ UNCHANGED <<repo, history, head, app, autoRollbacks, bounds>>
          /\ status' \in {status, "idle", "running", "installed", "failed"}
          /\ attempted' = attempted \/ Newer(Target(t))
          /\ Returns(t, {})
        BY <1>15 DEF SyncFails, InstallFails, StartFails, GiveUp, SkipInstallOnly,
            MarkRunning, StopSetsIdle
    <2> QED
        BY <1>2, <1>5, <2>1, StepByReturning
<1>16. CASE Publish(t)
    BY <1>2, <1>16, StepByReturning DEF Publish
<1>17. CASE RollbackPublishes(t)
    BY <1>2, <1>17, StepByReturning DEF RollbackPublishes
<1>18. InstallFails(t) => t.at = "install" \/ t.at = "rbinstall"
    BY DEF InstallFails
<1>19. StartFails(t) => t.at = "launch" \/ t.at = "rblaunch"
    BY DEF StartFails
<1> QED
    BY <1>6, <1>7, <1>8, <1>9, <1>10, <1>11, <1>12, <1>13, <1>14, <1>15, <1>16, <1>17,
       <1>18, <1>19 DEF ThreadStep

-----------------------------------------------------------------------------
(* A step of a goroutine preserves the invariant.                          *)

\* Who is inside deployFn: the goroutine whose request the worker has.
LEMMA DeploysFacts ==
    ASSUME PipelineInv, NEW t \in threads, t.fn = "deploy"
    PROVE  /\ \A w \in workers : w.at = "deploying" /\ w.req = t.root
           /\ \A u \in threads : u.fn = "deploy" => u = t
           /\ t.root \in 1 .. MaxRequests /\ t.root = taken[Project]
           /\ finished[Project] < t.root
<1>1. Q!QueueInv /\ \A u \in threads : u.fn = "deploy" => u \in Active /\ RootOK(u)
    BY DEF PipelineInv, RootInv, Active
<1>2. PICK w \in workers : w.at = "deploying" /\ w.req = t.root
    BY <1>1 DEF RootOK
<1>3. \A v \in workers : v = w
    BY <1>1, QueueFacts
<1>4. t.root \in 1 .. MaxRequests /\ t.root = taken[Project] /\ finished[Project] < t.root
    BY <1>1, <1>2, QueueFacts
<1>5. ASSUME NEW u \in threads, u.fn = "deploy" PROVE u = t
    <2>1. u.root = t.root
        BY <1>1, <1>2, <1>3, <1>5 DEF RootOK
    <2> QED
        BY <1>1, <1>5, <2>1 DEF PipelineInv, RootInv
<1> QED
    BY <1>2, <1>3, <1>4, <1>5

LEMMA RecordingDeploys ==
    ASSUME PipelineInv, NEW t \in threads, Recording(t)
    PROVE  t.fn = "deploy"
<1>1. t \in Thread /\ ShapeOK(t)
    BY ThreadTyped
<1> QED
    BY <1>1 DEF Recording, ShapeOK, Thread, RollbackAt, HealthAt

LEMMA MayRollBackFacts ==
    ASSUME PipelineInv, NEW t \in threads, MayRollBack(t)
    PROVE  /\ t \in Active /\ t.fn \in {"deploy", "health"}
           /\ t.root \in 1 .. MaxRequests /\ autoRollbacks[t.root] = 0
           /\ t.fn = "health" => t.root <= finished[Project]
<1>1. t \in Thread /\ ShapeOK(t)
    BY ThreadTyped
<1>2. t.fn \in {"deploy", "health"}
    BY <1>1 DEF MayRollBack, ShapeOK, Thread, DeployAt, RollbackAt, HealthAt
<1>3. t \in Active
    BY <1>2 DEF Active
<1>4. t.root <= MaxRequests /\ autoRollbacks[t.root] = 0 /\ RootOK(t)
    BY <1>3 DEF PipelineInv, RollbackInv, RootInv
<1>5. t.root \in 1 .. MaxRequests
    BY <1>1, <1>4, BoundsAssumption DEF Thread, Roots
<1> QED
    BY <1>2, <1>3, <1>4, <1>5 DEF RootOK

\* The queue is unchanged, or t was the deployment and the worker is back.
LEMMA ThreadStepQueue ==
    ASSUME PipelineInv, NEW t \in threads, NEW S, ThreadFact(t, S)
    PROVE  /\ Q!QueueInv' /\ accepted' = accepted /\ taken' = taken
           /\ finished'[Project] \in Nat /\ finished'[Project] >= finished[Project]
           /\ \A w \in workers' : w.at = "spawned" => w \in workers
           /\ Continues(t, S) \/ (HandsBack(t, S) /\ finished'[Project] = t.root)
<1>1. Q!QueueInv
    BY DEF PipelineInv
<1>2. CASE Continues(t, S)
    <2>1. UNCHANGED queue
        BY <1>2 DEF Continues
    <2>2. Q!QueueInv'
        BY <1>1, <2>1, QueueUnchanged
    <2> QED
        BY <1>1, <1>2, <2>1, <2>2, QueueFacts DEF queue
<1>3. CASE HandsBack(t, S)
    <2>1. PICK w \in workers : w.req = t.root /\ Q!DeployReturns(w)
        BY <1>3 DEF HandsBack
    <2>2. Q!QueueInv'
        BY <1>1, <2>1, ReturnKeepsQueue
    <2>3. /\ accepted' = accepted /\ taken' = taken
          /\ finished'[Project] = t.root /\ finished'[Project] >= finished[Project]
          /\ \E v : workers' = {v} /\ v.at = "checking"
        BY <1>1, <2>1, ReturnKeepsQueue
    <2>4. t.root \in Nat
        BY <1>3, DeploysFacts, BoundsAssumption DEF HandsBack
    <2> QED
        BY <1>3, <2>2, <2>3, <2>4
<1> QED
    BY <1>2, <1>3 DEF ThreadFact

LEMMA ThreadStepHistory ==
    ASSUME PipelineInv, NEW t \in threads, NEW S, HistoryFact(t, S)
    PROVE  /\ history' \in Seq(H!Row) /\ H!AtMostOneCurrent'
           /\ \A i \in DOMAIN history' : history'[i].hash <= tip
           /\ \/ Len(history') = Len(history)
              \/ /\ Recording(t) /\ \A v \in S : ~Recording(v)
                 /\ UNCHANGED queue /\ Len(history') = Len(history) + 1
<1>1. H!HistoryTypeOK /\ H!AtMostOneCurrent /\ \A i \in DOMAIN history : history[i].hash <= tip
    BY DEF PipelineInv, TypeOK, DataInv
<1>2. t.hash <= tip
    BY ThreadTyped
<1>3. CASE UNCHANGED history
    BY <1>1, <1>3 DEF H!HistoryTypeOK, H!AtMostOneCurrent
<1>4. CASE /\ Recording(t) /\ \A v \in S : ~Recording(v)
           /\ UNCHANGED queue /\ t.hash \in Commits \cup {NoCommit} /\ history' = H!Added(history, t.hash)
    BY <1>1, <1>2, <1>4, AddKeepsHistory
<1>5. CASE /\ t.hash \in Commits \cup {NoCommit}
           /\ history' \in {H!Promoted(history, t.hash), H!RolledBack(history, t.hash)}
    BY <1>1, <1>5, UpdatesKeepHistory
<1> QED
    BY <1>3, <1>4, <1>5 DEF HistoryFact

LEMMA ThreadStepRecord ==
    ASSUME PipelineInv, NEW t \in threads, NEW S, ThreadFact(t, S), HistoryFact(t, S)
    PROVE  RecordInv' /\ H!HistoryTypeOK'
<1>1. /\ H!HistoryTypeOK /\ Q!QueueInv /\ RecordInv /\ Len(history) \in Nat
      /\ taken[Project] \in 0 .. MaxRequests
    <2>1. H!HistoryTypeOK /\ Q!QueueInv /\ RecordInv
        BY DEF PipelineInv, TypeOK
    <2> QED
        BY <2>1, HistoryTyped, QueueFacts, BoundsAssumption
<1>2. taken' = taken /\ \A w \in workers' : w.at = "spawned" => w \in workers
    BY ThreadStepQueue
<1>3. /\ history' \in Seq(H!Row)
      /\ \/ Len(history') = Len(history)
         \/ /\ Recording(t) /\ \A v \in S : ~Recording(v)
            /\ UNCHANGED queue /\ Len(history') = Len(history) + 1
    BY ThreadStepHistory
<1>4. Ahead' => Ahead
    <2>1. \A u \in threads' : Recording(u) => \E v \in threads : Recording(v)
        BY DEF ThreadFact
    <2>2. Recording(t)' <=> Recording(t)
        BY DEF Recording
    <2> QED
        BY <1>2, <2>1 DEF Ahead, Recording
<1>5. Len(history') = Len(history) => RecordInv'
    <2>1. Len(history') = Len(history) => Len(history)' = Len(history)
        OBVIOUS
    <2> QED
        BY <1>1, <1>2, <1>4 DEF RecordInv
<1>6. ASSUME /\ Recording(t) /\ \A v \in S : ~Recording(v)
             /\ UNCHANGED queue /\ Len(history') = Len(history) + 1
      PROVE  RecordInv'
    <2>1. Ahead
        BY <1>6 DEF Ahead
    <2>2. t.fn = "deploy"
        BY <1>6, RecordingDeploys
    <2>3. \A w \in workers' : w.at # "spawned"
        BY <1>6, <2>2, DeploysFacts DEF queue
    <2>4. \A u \in threads' : ~Recording(u)
        <3>1. ASSUME NEW u \in threads, u # t PROVE ~Recording(u)
            BY <2>2, <3>1, DeploysFacts, RecordingDeploys
        <3> QED
            BY <1>6, <3>1 DEF ThreadFact
    <2>5. ~Ahead'
        BY <2>3, <2>4 DEF Ahead, Recording
    <2> QED
        BY <1>1, <1>2, <1>6, <2>1, <2>5 DEF RecordInv
<1>7. RecordInv'
    BY <1>3, <1>5, <1>6
<1>8. Len(history') <= MaxRows
    <2>1. Len(history') \in Nat /\ taken'[Project] \in 0 .. MaxRequests
        BY <1>1, <1>2, <1>3
    <2> QED
        BY <1>7, <2>1, BoundsSuffice, BoundsAssumption DEF RecordInv
<1> QED
    BY <1>3, <1>7, <1>8 DEF H!HistoryTypeOK

LEMMA ThreadStepShape ==
    ASSUME PipelineInv, NEW t \in threads, NEW S, ThreadFact(t, S), DataFact
    PROVE  ShapeInv' /\ threads' \subseteq Thread
<1>1. tip' = tip
    BY DEF DataFact, repo
<1>2. ASSUME NEW u \in threads PROVE ShapeOK(u)'
    <2>1. ShapeOK(u)
        BY DEF PipelineInv, ShapeInv
    <2> QED
        BY <1>1, <2>1 DEF ShapeOK
<1>3. \A u \in S : ShapeOK(u)'
    BY DEF ThreadFact
<1>4. threads' = (threads \ {t}) \cup S
    BY DEF ThreadFact
<1>5. threads' \subseteq Thread
    BY <1>4 DEF ThreadFact, PipelineInv, TypeOK
<1> QED
    BY <1>2, <1>3, <1>4, <1>5 DEF ShapeInv

LEMMA ThreadStepRoots ==
    ASSUME PipelineInv, NEW t \in threads, NEW S, ThreadFact(t, S), UNCHANGED bounds
    PROVE  RootInv'
<1>1. threads' = (threads \ {t}) \cup S /\ rollbacks' = rollbacks
    BY DEF ThreadFact, bounds
<1>2. ASSUME NEW v \in S
      PROVE  v.root = t.root /\ v.fn # "stop" /\ t \in Active
    BY DEF ThreadFact, Continues, HandsBack, Active
<1>3. \A u \in Active : RootOK(u)
    BY DEF PipelineInv, RootInv
<1>4. ASSUME NEW u \in threads, u # t, u \in Active PROVE RootOK(u)'
    <2>1. RootOK(u) /\ u \in Thread
        BY <1>3, <1>4, ThreadTyped
    <2>2. finished'[Project] >= finished[Project] /\ finished'[Project] \in Nat
          /\ finished[Project] \in Nat
        BY ThreadStepQueue, QueueFacts DEF PipelineInv
    <2>3. u.fn = "deploy" => UNCHANGED queue
        BY <1>4, DeploysFacts DEF ThreadFact, Continues, HandsBack
    <2>4. u.root \in Nat
        BY <2>1 DEF Thread, Roots
    <2> QED
        BY <1>1, <2>1, <2>2, <2>3, <2>4 DEF RootOK, queue
<1>5. ASSUME NEW v \in S PROVE RootOK(v)'
    <2>1. RootOK(t) /\ v.root = t.root /\ t \in Thread
        BY <1>2, <1>3, ThreadTyped
    <2>2. CASE UNCHANGED queue /\ v.fn = t.fn
        BY <1>1, <2>1, <2>2 DEF RootOK, queue
    <2>3. CASE v.fn = "health" /\ t.fn = "rollback"
        <3>1. t.root > MaxRequests /\ t.root \in Nat
            BY <2>1, <2>3 DEF RootOK, Thread, Roots
        <3> QED
            BY <1>1, <2>1, <2>3, <3>1, BoundsAssumption DEF RootOK
    <2>4. CASE t.fn = "deploy" /\ v.fn = "health" /\ finished'[Project] = t.root
        <3>1. t.root \in Nat
            BY <2>1 DEF Thread, Roots
        <3> QED
            BY <1>1, <2>1, <2>4, <3>1 DEF RootOK
    <2> QED
        BY <2>2, <2>3, <2>4, ThreadStepQueue DEF Continues, HandsBack
<1>6. \A u \in Active' : RootOK(u)'
    BY <1>1, <1>4, <1>5 DEF Active
<1>7. ASSUME NEW u \in Active', NEW v \in Active', u.root = v.root PROVE u = v
    <2>1. \A x \in Active' : x \in S \/ (x \in Active /\ x # t)
        BY <1>1 DEF Active
    <2>2. \A x, y \in S : x = y
        BY DEF ThreadFact
    <2>3. \A x, y \in Active : x.root = y.root => x = y
        BY DEF PipelineInv, RootInv
    <2> QED
        BY <1>2, <1>7, <2>1, <2>2, <2>3
<1> QED
    BY <1>6, <1>7 DEF RootInv

LEMMA ThreadStepRollbacks ==
    ASSUME PipelineInv, NEW t \in threads, NEW S, ThreadFact(t, S), AutoFact(t, S)
    PROVE  /\ RollbackInv' /\ RollbackChainsAreShort'
           /\ autoRollbacks' \in [Roots -> Nat]
<1>1. threads' = (threads \ {t}) \cup S /\ autoRollbacks \in [Roots -> Nat]
    BY DEF ThreadFact, PipelineInv, TypeOK
<1>2. /\ \A u \in Active : MayRollBack(u) => u.root <= MaxRequests /\ autoRollbacks[u.root] = 0
      /\ \A r \in Roots : autoRollbacks[r] > 0 =>
            r <= finished[Project] \/ \E u \in threads : u.fn = "deploy" /\ u.root = r
      /\ RollbackChainsAreShort
    BY DEF PipelineInv, RollbackInv
<1>3. finished'[Project] >= finished[Project] /\ finished'[Project] \in Nat
      /\ finished[Project] \in Nat
    BY ThreadStepQueue, QueueFacts DEF PipelineInv
<1>4. \A v \in S : v.root = t.root
    BY DEF ThreadFact
\* What is still deploying, or has just ended.
<1>5. ASSUME NEW u \in threads, u.fn = "deploy"
      PROVE  u.root <= finished'[Project] \/ \E v \in threads' : v.fn = "deploy" /\ v.root = u.root
    <2>1. CASE u # t
        BY <1>1, <1>5, <2>1
    <2>2. CASE u = t /\ Continues(t, S)
        <3>1. PICK v \in S : v.fn = "deploy"
            BY <1>5, <2>2 DEF Continues
        <3> QED
            BY <1>1, <1>4, <2>2, <3>1
    <2>3. CASE u = t /\ finished'[Project] = t.root
        BY <1>3, <2>3
    <2> QED
        BY <2>1, <2>2, <2>3, ThreadStepQueue
<1>6. CASE UNCHANGED autoRollbacks
    <2>1. ASSUME NEW u \in Active', MayRollBack(u)
          PROVE  u.root <= MaxRequests /\ autoRollbacks'[u.root] = 0
        <3>1. CASE u \in threads
            <4>1. u \in Active
                BY <3>1 DEF Active
            <4> QED
                BY <1>2, <1>6, <2>1, <4>1
        <3>2. CASE u \in S
            <4>1. MayRollBack(t) /\ u.root = t.root
                BY <2>1, <3>2 DEF ThreadFact
            <4> QED
                BY <1>6, <4>1, MayRollBackFacts, BoundsAssumption
        <3> QED
            BY <1>1, <3>1, <3>2 DEF Active
    <2>2. ASSUME NEW r \in Roots, autoRollbacks'[r] > 0
          PROVE  r <= finished'[Project] \/ \E v \in threads' : v.fn = "deploy" /\ v.root = r
        BY <1>2, <1>3, <1>5, <1>6, <2>2 DEF Roots
    <2>3. RollbackChainsAreShort'
        BY <1>2, <1>6 DEF RollbackChainsAreShort
    <2> QED
        BY <1>1, <1>6, <2>1, <2>2, <2>3 DEF RollbackInv, MayRollBack
<1>7. CASE /\ UNCHANGED queue
           /\ MayRollBack(t) /\ \A v \in S : ~MayRollBack(v)
           /\ autoRollbacks' = [autoRollbacks EXCEPT ![t.root] = @ + 1]
    <2>1. /\ t \in Active /\ t.fn \in {"deploy", "health"}
          /\ t.root \in 1 .. MaxRequests /\ autoRollbacks[t.root] = 0
          /\ t.fn = "health" => t.root <= finished[Project]
        BY <1>7, MayRollBackFacts
    <2>2. t.root \in Roots
        BY <2>1, BoundsAssumption DEF Roots
    <2>3. /\ autoRollbacks'[t.root] = 1
          /\ \A r \in Roots : r # t.root => autoRollbacks'[r] = autoRollbacks[r]
        BY <1>1, <1>7, <2>1, <2>2
    <2>4. ASSUME NEW u \in Active', MayRollBack(u)
          PROVE  u.root <= MaxRequests /\ autoRollbacks'[u.root] = 0
        <3>1. u \in Active /\ u # t /\ u \in threads
            BY <1>1, <1>7, <2>4 DEF Active
        <3>2. u.root # t.root
            BY <2>1, <3>1 DEF PipelineInv, RootInv
        <3>3. u.root \in Roots
            BY <3>1, ThreadTyped DEF Thread
        <3> QED
            BY <1>2, <2>3, <2>4, <3>1, <3>2, <3>3
    <2>5. ASSUME NEW r \in Roots, autoRollbacks'[r] > 0
          PROVE  r <= finished'[Project] \/ \E v \in threads' : v.fn = "deploy" /\ v.root = r
        <3>1. CASE r = t.root
            BY <1>3, <1>5, <2>1, <3>1
        <3>2. CASE r # t.root
            BY <1>2, <1>3, <1>5, <2>3, <2>5, <3>2 DEF Roots
        <3> QED
            BY <3>1, <3>2
    <2>6. RollbackChainsAreShort'
        <3>1. ASSUME NEW r \in Roots
              PROVE  autoRollbacks'[r] <= IF r <= MaxRequests THEN 1 ELSE 0
            BY <1>2, <2>1, <2>3 DEF RollbackChainsAreShort
        <3> QED
            BY <3>1 DEF RollbackChainsAreShort
    <2> QED
        BY <1>1, <1>7, <2>2, <2>4, <2>5, <2>6 DEF RollbackInv, MayRollBack
<1> QED
    BY <1>6, <1>7 DEF AutoFact

LEMMA ThreadStepKeepsInv ==
    ASSUME PipelineInv, NEW t \in threads, ThreadStep(t)
    PROVE  PipelineInv'
<1>1. PICK S : ThreadFact(t, S) /\ DataFact /\ AutoFact(t, S) /\ HistoryFact(t, S)
    BY ThreadStepFacts DEF StepFact
<1>2. Q!QueueInv' /\ accepted' = accepted
    BY <1>1, ThreadStepQueue
<1>3. H!AtMostOneCurrent' /\ RecordInv' /\ H!HistoryTypeOK'
    BY <1>1, ThreadStepHistory, ThreadStepRecord
<1>4. ShapeInv' /\ threads' \subseteq Thread
    BY <1>1, ThreadStepShape
<1>5. RootInv'
    BY <1>1, ThreadStepRoots DEF DataFact
<1>6. RollbackInv' /\ RollbackChainsAreShort' /\ autoRollbacks' \in [Roots -> Nat]
    BY <1>1, ThreadStepRollbacks
<1>7. /\ asked' = asked /\ tip' = tip /\ hooks' = hooks /\ booting' = booting
      /\ rollbacks' = rollbacks /\ crashes' = crashes
    BY <1>1 DEF DataFact, repo, bounds
<1>8. DataInv'
    <2>1. \A i \in DOMAIN history' : history'[i].hash <= tip
        BY <1>1, ThreadStepHistory
    <2> QED
        BY <1>7, <2>1 DEF PipelineInv, DataInv
<1>9. TypeOK'
    <2>1. Q!TypeOK'
        BY <1>2 DEF Q!QueueInv
    <2> QED
        BY <1>1, <1>2, <1>3, <1>4, <1>6, <1>7, <2>1 DEF PipelineInv, TypeOK, DataFact
<1> QED
    BY <1>2, <1>3, <1>4, <1>5, <1>6, <1>8, <1>9 DEF PipelineInv

-----------------------------------------------------------------------------
(* The steps that start no goroutine: pushes, requests, ends of workers, crashes. *)

\* The goroutines stay; the deployment, if there is one, keeps its worker.
LEMMA ThreadsStay ==
    ASSUME PipelineInv, UNCHANGED <<threads, autoRollbacks, rollbacks, history, head>>,
           finished' = finished, tip' \in Nat, tip' >= tip,
           workers' = workers \/ \A t \in threads : t.fn # "deploy"
    PROVE  /\ ShapeInv' /\ RootInv' /\ RollbackInv' /\ RollbackChainsAreShort'
           /\ H!AtMostOneCurrent'
           /\ \A i \in DOMAIN history' : history'[i].hash <= tip'
<1>1. ASSUME NEW t \in threads PROVE ShapeOK(t)'
    <2>1. ShapeOK(t) /\ t.hash \in Nat /\ tip \in Nat
        BY ThreadTyped
    <2> QED
        BY <2>1 DEF ShapeOK
<1>2. \A t \in Active : RootOK(t)'
    BY DEF PipelineInv, RootInv, RootOK, Active
<1>3. RootInv'
    BY <1>2 DEF PipelineInv, RootInv, Active
<1>4. RollbackInv' /\ RollbackChainsAreShort'
    BY DEF PipelineInv, RollbackInv, RollbackChainsAreShort, Active, MayRollBack
<1>5. H!AtMostOneCurrent'
    BY DEF PipelineInv, H!AtMostOneCurrent
<1>6. ASSUME NEW i \in DOMAIN history PROVE history[i].hash <= tip'
    <2>1. history[i].hash <= tip /\ history[i].hash \in Commits \cup {NoCommit} /\ tip \in Commits
        BY HistoryTyped DEF PipelineInv, DataInv, TypeOK
    <2> QED
        BY <2>1, BoundsAssumption DEF Commits, NoCommit
<1> QED
    BY <1>1, <1>3, <1>4, <1>5, <1>6 DEF ShapeInv

LEMMA PushKeepsInv == PipelineInv /\ Push => PipelineInv'
<1> SUFFICES ASSUME PipelineInv, Push PROVE PipelineInv'
    OBVIOUS
<1>1. /\ tip' = tip + 1 /\ tip < MaxCommits /\ hooks' = hooks \cup {tip + 1}
      /\ UNCHANGED <<queue, asked, booting, history, status, head, app, threads,
                     attempted, autoRollbacks, bounds>>
    BY DEF Push
<1>2. tip \in Nat /\ tip \in Commits /\ tip' \in Commits /\ tip' \in Nat
    BY <1>1, BoundsAssumption DEF PipelineInv, TypeOK, Commits
<1>3. workers' = workers /\ finished' = finished /\ taken' = taken /\ accepted' = accepted
    BY <1>1 DEF queue
<1>4. /\ ShapeInv' /\ RootInv' /\ RollbackInv' /\ RollbackChainsAreShort' /\ H!AtMostOneCurrent'
      /\ \A i \in DOMAIN history' : history'[i].hash <= tip'
    BY <1>1, <1>2, <1>3, ThreadsStay DEF bounds
<1>5. Q!QueueInv'
    BY <1>1, QueueUnchanged DEF PipelineInv
<1>6. TypeOK'
    <2>1. Q!TypeOK' /\ H!HistoryTypeOK'
        BY <1>1, <1>5 DEF Q!QueueInv, H!HistoryTypeOK, PipelineInv, TypeOK
    <2>2. /\ hooks' \subseteq Commits /\ head' \in 0 .. tip'
          /\ app' \in 0 .. tip' /\ attempted' \in 0 .. tip'
        BY <1>1, <1>2 DEF PipelineInv, TypeOK
    <2> QED
        BY <1>1, <1>2, <1>3, <2>1, <2>2 DEF PipelineInv, TypeOK
<1>7. DataInv'
    <2>1. \A i \in DOMAIN asked' : asked'[i] <= tip'
        <3>1. \A i \in DOMAIN asked : asked[i] \in Commits \cup {NoCommit} /\ asked[i] <= tip
            BY DEF PipelineInv, TypeOK, DataInv
        <3> QED
            BY <1>1, <1>2, <3>1, BoundsAssumption DEF Commits, NoCommit
    <2>2. \A c \in hooks' : c <= tip'
        <3>1. \A c \in hooks : c \in Commits /\ c <= tip
            BY DEF PipelineInv, TypeOK, DataInv
        <3> QED
            BY <1>1, <1>2, <3>1, BoundsAssumption DEF Commits
    <2> QED
        BY <1>1, <1>4, <2>1, <2>2 DEF PipelineInv, DataInv, bounds
<1>8. RecordInv'
    BY <1>1, <1>3 DEF PipelineInv, RecordInv, Ahead, Recording
<1> QED
    BY <1>4, <1>5, <1>6, <1>7, <1>8 DEF PipelineInv

\* What the callers of EnqueueDeployment share.
LEMMA RequestKeepsInv ==
    ASSUME PipelineInv, NEW c \in 0 .. tip, Request(c), hooks' \subseteq hooks,
           booting' \in BOOLEAN,
           UNCHANGED <<tip, history, status, head, app, threads, attempted,
                       autoRollbacks, rollbacks, crashes>>
    PROVE  PipelineInv'
<1>1. /\ Q!EnqueueDeployment(Project) /\ asked' = Append(asked, c)
      /\ Q!QueueInv
    BY DEF Request, PipelineInv
<1>2. /\ Q!QueueInv' /\ accepted' = [accepted EXCEPT ![Project] = @ + 1]
      /\ finished' = finished /\ taken'[Project] >= taken[Project]
      /\ \/ taken' = taken /\ workers' = workers
         \/ taken'[Project] > taken[Project] /\ workers = {}
    BY <1>1, EnqueueKeepsQueue
<1>3. tip \in Nat /\ tip \in Commits /\ tip <= MaxCommits
    BY BoundsAssumption DEF PipelineInv, TypeOK, Commits
<1>4. workers = {} => \A t \in threads : t.fn # "deploy"
    BY DEF PipelineInv, RootInv, RootOK, Active
<1>5. /\ ShapeInv' /\ RootInv' /\ RollbackInv' /\ RollbackChainsAreShort' /\ H!AtMostOneCurrent'
      /\ \A i \in DOMAIN history' : history'[i].hash <= tip'
    BY <1>2, <1>3, <1>4, ThreadsStay
<1>6. /\ asked \in Seq(Commits \cup {NoCommit}) /\ Len(asked) = accepted[Project]
      /\ accepted'[Project] = accepted[Project] + 1
      /\ c \in Commits \cup {NoCommit}
    BY <1>1, <1>2, <1>3, BoundsAssumption
        DEF PipelineInv, TypeOK, Q!QueueInv, Q!TypeOK, Commits, NoCommit
<1>7. /\ asked' \in Seq(Commits \cup {NoCommit}) /\ Len(asked') = accepted'[Project]
      /\ \A i \in DOMAIN asked' : (i \in DOMAIN asked /\ asked'[i] = asked[i]) \/ asked'[i] = c
    BY <1>1, <1>6
<1>8. TypeOK'
    <2>1. Q!TypeOK' /\ H!HistoryTypeOK'
        BY <1>2 DEF Q!QueueInv, H!HistoryTypeOK, PipelineInv, TypeOK
    <2> QED
        BY <1>7, <2>1 DEF PipelineInv, TypeOK
<1>9. DataInv'
    BY <1>5, <1>7 DEF PipelineInv, DataInv
<1>10. RecordInv'
    <2>1. /\ Len(history) \in Nat /\ taken[Project] \in Nat /\ taken'[Project] \in Nat
          /\ RecordInv
        <3>1. H!HistoryTypeOK /\ RecordInv
            BY DEF PipelineInv, TypeOK
        <3>2. Q!QueueInv' => taken'[Project] \in Nat
            BY BoundsAssumption DEF Q!QueueInv, Q!TypeOK
        <3> QED
            BY <1>1, <1>2, <3>1, <3>2, HistoryTyped, QueueFacts
    <2>2. CASE taken' = taken /\ workers' = workers
        BY <2>1, <2>2 DEF RecordInv, Ahead, Recording
    <2>3. CASE taken'[Project] > taken[Project]
        BY <2>1, <2>3 DEF RecordInv
    <2> QED
        BY <1>2, <2>2, <2>3
<1> QED
    BY <1>2, <1>5, <1>8, <1>9, <1>10 DEF PipelineInv

LEMMA GoIdleKeepsInv ==
    ASSUME PipelineInv, NEW w \in workers, GoIdle(w)
    PROVE  PipelineInv'
<1>1. /\ Q!GoIdle(w) /\ Q!QueueInv
      /\ UNCHANGED <<repo, history, status, head, app, threads, attempted, autoRollbacks, bounds>>
    BY DEF GoIdle, PipelineInv
<1>2. /\ Q!QueueInv' /\ accepted' = accepted /\ taken' = taken /\ finished' = finished
      /\ w.at = "checking" /\ workers' = {}
    BY <1>1, IdleKeepsQueue
<1>3. \A t \in threads : t.fn # "deploy"
    BY <1>2, DeploysFacts
<1>4. tip' = tip /\ tip \in Nat /\ asked' = asked /\ hooks' = hooks /\ booting' = booting
      /\ rollbacks' = rollbacks /\ crashes' = crashes
    BY <1>1, BoundsAssumption DEF PipelineInv, TypeOK, Commits, repo, bounds
<1>5. /\ ShapeInv' /\ RootInv' /\ RollbackInv' /\ RollbackChainsAreShort' /\ H!AtMostOneCurrent'
      /\ \A i \in DOMAIN history' : history'[i].hash <= tip'
    BY <1>1, <1>2, <1>3, <1>4, ThreadsStay
<1>6. TypeOK'
    BY <1>1, <1>2, <1>4 DEF Q!QueueInv, H!HistoryTypeOK, PipelineInv, TypeOK
<1>7. DataInv'
    BY <1>4, <1>5 DEF PipelineInv, DataInv
<1>8. RecordInv'
    <2>1. Len(history) \in Nat /\ RecordInv /\ taken[Project] \in Nat
        <3>1. H!HistoryTypeOK /\ RecordInv
            BY DEF PipelineInv, TypeOK
        <3> QED
            BY <1>1, <3>1, HistoryTyped, QueueFacts
    <2> QED
        BY <1>1, <1>2, <2>1 DEF RecordInv, Ahead, Recording
<1> QED
    BY <1>2, <1>5, <1>6, <1>7, <1>8 DEF PipelineInv

LEMMA CrashKeepsInv == PipelineInv /\ Crash => PipelineInv'
<1> SUFFICES ASSUME PipelineInv, Crash PROVE PipelineInv'
    OBVIOUS
<1>1. /\ threads' = {} /\ app' = NoCommit /\ hooks' \in SUBSET hooks /\ booting' = TRUE
      /\ UNCHANGED <<accepted, asked, tip, history, status, head, attempted, autoRollbacks,
                     rollbacks>> /\ crashes' = crashes + 1
    BY DEF Crash
<1>2. /\ Q!QueueInv /\ Q!QueueInv' /\ workers' = {}
      /\ taken'[Project] = accepted[Project] /\ finished'[Project] = accepted[Project]
    BY CrashKeepsQueue DEF PipelineInv
<1>3. /\ accepted[Project] \in Nat /\ taken[Project] \in 0 .. accepted[Project]
      /\ finished[Project] \in 0 .. taken[Project]
    BY <1>2, QueueFacts
<1>4. ShapeInv' /\ RootInv'
    BY <1>1 DEF ShapeInv, RootInv, Active
<1>5. RollbackInv'
    <2>1. ASSUME NEW r \in Roots, autoRollbacks[r] > 0 PROVE r <= finished'[Project]
        <3>1. CASE r <= finished[Project]
            BY <1>2, <1>3, <3>1 DEF Roots
        <3>2. CASE \E t \in threads : t.fn = "deploy" /\ t.root = r
            BY <1>2, <1>3, <3>2, DeploysFacts
        <3> QED
            BY <2>1, <3>1, <3>2 DEF PipelineInv, RollbackInv
    <2> QED
        BY <1>1, <2>1 DEF RollbackInv, Active
<1>6. RollbackChainsAreShort' /\ H!AtMostOneCurrent'
    BY <1>1 DEF PipelineInv, RollbackChainsAreShort, H!AtMostOneCurrent
<1>7. TypeOK'
    <2>1. 0 \in 0 .. tip
        BY BoundsAssumption DEF PipelineInv, TypeOK, Commits
    <2> QED
        BY <1>1, <1>2, <2>1 DEF Q!QueueInv, H!HistoryTypeOK, PipelineInv, TypeOK, NoCommit
<1>8. DataInv'
    BY <1>1 DEF PipelineInv, DataInv
<1>9. RecordInv'
    <2>1. Len(history) \in Nat /\ RecordInv
        BY HistoryTyped DEF PipelineInv, TypeOK
    <2> QED
        BY <1>1, <1>2, <1>3, <2>1 DEF RecordInv, Ahead
<1> QED
    BY <1>2, <1>4, <1>5, <1>6, <1>7, <1>8, <1>9 DEF PipelineInv

-----------------------------------------------------------------------------
(* The steps that start a goroutine.                                       *)

LEMMA ThreadAdded ==
    ASSUME PipelineInv, NEW n \in Thread, threads' = threads \cup {n}, ShapeOK(n),
           UNCHANGED <<tip, head, autoRollbacks, history>>, finished' = finished,
           rollbacks' \in Nat, rollbacks' >= rollbacks,
           n.fn # "stop" => RootOK(n)' /\ \A t \in Active : t.root # n.root,
           n.fn # "stop" /\ MayRollBack(n) => n.root <= MaxRequests /\ autoRollbacks[n.root] = 0,
           workers' = workers \/ \A t \in threads : t.fn # "deploy"
    PROVE  /\ ShapeInv' /\ RootInv' /\ RollbackInv' /\ RollbackChainsAreShort'
           /\ H!AtMostOneCurrent' /\ threads' \subseteq Thread
<1>1. ShapeInv'
    BY DEF PipelineInv, ShapeInv, ShapeOK
<1>2. ASSUME NEW t \in Active PROVE RootOK(t)'
    <2>1. RootOK(t) /\ t.root \in Nat /\ rollbacks \in Nat
        BY ThreadTyped DEF PipelineInv, RootInv, Active, Thread, Roots, DataInv
    <2> QED
        BY <2>1, BoundsAssumption DEF RootOK, Active
<1>3. RootInv'
    BY <1>2 DEF PipelineInv, RootInv, Active
<1>4. RollbackInv'
    BY DEF PipelineInv, RollbackInv, Active, MayRollBack
<1>5. RollbackChainsAreShort' /\ H!AtMostOneCurrent'
    BY DEF PipelineInv, RollbackChainsAreShort, H!AtMostOneCurrent
<1>6. threads' \subseteq Thread
    BY DEF PipelineInv, TypeOK
<1> QED
    BY <1>1, <1>3, <1>4, <1>5, <1>6

\* The worker calls FullDeployPipeline for the request it was given.
LEMMA DeployingKeepsInv ==
    ASSUME PipelineInv, NEW w \in workers, BeginDeploy(w) \/ PopPending(w)
    PROVE  PipelineInv'
<1> DEFINE r == taken'[Project]
<1>1. /\ Q!BeginDeploy(w) \/ Q!PopPending(w)
      /\ Q!BeginDeploy(w) => Deploying(w.req)
      /\ Q!PopPending(w) => Deploying(pending[Project])
      /\ Q!QueueInv
    BY DEF BeginDeploy, PopPending, PipelineInv, Q!BeginDeploy, Q!PopPending
<1>2. /\ Q!QueueInv' /\ accepted' = accepted /\ finished' = finished
      /\ \E v : workers' = {v} /\ v.at = "deploying" /\ v.req = r
      /\ w.at \in {"spawned", "checking"}
    BY <1>1, BeginKeepsQueue
<1>3. /\ Deploying(r)
      /\ w.at = "spawned" => r = taken[Project]
      /\ w.at = "checking" => r > taken[Project]
    BY <1>1, BeginKeepsQueue
<1>4. /\ finished[Project] \in Nat /\ taken[Project] \in Nat /\ finished[Project] < r
      /\ r \in 1 .. accepted[Project] /\ accepted[Project] \in 0 .. MaxRequests
    <2>1. /\ finished[Project] \in 0 .. taken[Project] /\ taken[Project] \in 0 .. accepted[Project]
          /\ accepted[Project] \in 0 .. MaxRequests
          /\ w.at # "checking" => finished[Project] < taken[Project]
        BY <1>1, QueueFacts
    <2>2. taken'[Project] \in 0 .. MaxRequests /\ taken'[Project] <= accepted'[Project]
        <3>1. Q!QueueInv' => taken'[Project] \in 0 .. MaxRequests
            BY DEF Q!QueueInv, Q!TypeOK
        <3>2. pending[Project] # None => pending[Project] = accepted[Project]
            BY <1>1, QueueFacts
        <3>3. r = taken[Project] \/ r = pending[Project]
            BY <1>1, BeginKeepsQueue
        <3>4. Q!PopPending(w) => pending[Project] # None
            <4>1. w.proj = Project
                BY <1>1, QueueFacts
            <4> QED
                BY <4>1 DEF Q!PopPending
        <3>5. r = taken[Project] \/ r = accepted[Project]
            BY <1>1, <3>2, <3>4, BeginKeepsQueue
        <3> QED
            BY <1>2, <2>1, <3>1, <3>5, BoundsAssumption
    <2> QED
        BY <1>2, <1>3, <2>1, <2>2, BoundsAssumption
<1>5. \A t \in threads : t.fn # "deploy"
    BY <1>2, DeploysFacts
<1>6. /\ asked[r] \in Commits \cup {NoCommit} /\ asked[r] <= tip
    <2>1. /\ asked \in Seq(Commits \cup {NoCommit}) /\ Len(asked) = accepted[Project]
          /\ \A i \in DOMAIN asked : asked[i] <= tip
        BY DEF PipelineInv, TypeOK, DataInv
    <2>2. r \in DOMAIN asked
        BY <1>4, <2>1
    <2> QED
        BY <2>1, <2>2
<1>7. PICK n \in Thread : /\ threads' = threads \cup {n}
                          /\ n.root = r /\ n.fn = "deploy" /\ n.at = "sync"
                          /\ n.hash = asked[r] /\ n.depth = 0
    <2>1. r \in Roots
        BY <1>4, BoundsAssumption DEF Roots
    <2>2. [root |-> r, fn |-> "deploy", at |-> "sync", hash |-> asked[r], depth |-> 0] \in Thread
        BY <1>6, <2>1 DEF Thread, DeployAt
    <2> WITNESS [root |-> r, fn |-> "deploy", at |-> "sync", hash |-> asked[r], depth |-> 0]
                   \in Thread
    <2> QED
        BY <1>3 DEF Deploying
<1>8. /\ status' = "deploying"
      /\ UNCHANGED <<asked, tip, hooks, booting, history, head, app, attempted, autoRollbacks,
                     rollbacks, crashes>>
    BY <1>3 DEF Deploying, repo, bounds
<1> HIDE DEF r
<1>9. ShapeOK(n)
    BY <1>6, <1>7 DEF ShapeOK, DeployAt, RollbackAt
<1>10. ASSUME NEW t \in Active PROVE t.root # r
    <2>1. t.fn # "deploy" /\ t.fn # "stop" /\ RootOK(t) /\ t \in Thread /\ t.root \in Nat
        BY <1>5, ThreadTyped DEF Active, PipelineInv, RootInv, Thread, Roots
    <2> QED
        BY <1>4, <2>1, BoundsAssumption DEF RootOK, Thread
<1>11. rollbacks \in Nat
    BY DEF PipelineInv, DataInv
<1>12. RootOK(n)'
    <2>1. n.root <= MaxRequests + rollbacks'
        BY <1>4, <1>7, <1>8, <1>11, BoundsAssumption
    <2> QED
        BY <1>2, <1>7, <2>1 DEF RootOK
<1>13. n.root <= MaxRequests /\ autoRollbacks[n.root] = 0
    <2>1. r \in Roots
        BY <1>4, BoundsAssumption DEF Roots
    <2>2. ~ (autoRollbacks[r] > 0)
        BY <1>4, <1>5, <2>1 DEF PipelineInv, RollbackInv
    <2>3. autoRollbacks[r] \in Nat
        BY <2>1 DEF PipelineInv, TypeOK
    <2> QED
        BY <1>4, <1>7, <2>2, <2>3, BoundsAssumption
<1>14. /\ ShapeInv' /\ RootInv' /\ RollbackInv' /\ RollbackChainsAreShort'
       /\ H!AtMostOneCurrent' /\ threads' \subseteq Thread
    BY <1>2, <1>5, <1>7, <1>8, <1>9, <1>10, <1>11, <1>12, <1>13, ThreadAdded
<1>15. TypeOK'
    BY <1>2, <1>8, <1>14 DEF PipelineInv, TypeOK, H!HistoryTypeOK, Q!QueueInv
<1>16. DataInv'
    BY <1>8 DEF PipelineInv, DataInv
<1>17. RecordInv'
    <2>1. Len(history) \in Nat /\ RecordInv
        BY HistoryTyped DEF PipelineInv, TypeOK
    <2>2. w.at = "spawned" => Ahead
        BY DEF Ahead
    <2>3. taken'[Project] = r
        BY DEF r
    <2> QED
        BY <1>2, <1>3, <1>4, <1>8, <2>1, <2>2, <2>3 DEF RecordInv
<1> QED
    BY <1>2, <1>14, <1>15, <1>16, <1>17 DEF PipelineInv

LEMMA RollbackByHandKeepsInv ==
    ASSUME PipelineInv, NEW c \in Commits, RollbackByHand(c)
    PROVE  PipelineInv'
<1>1. /\ rollbacks < MaxRollbacks /\ c <= tip /\ rollbacks' = rollbacks + 1
      /\ UNCHANGED <<queue, repo, history, status, head, app, attempted, autoRollbacks,
                     crashes>>
    BY DEF RollbackByHand
<1>2. rollbacks \in 0 .. MaxRollbacks
    BY DEF PipelineInv, DataInv
<1>3. c <= tip
    BY <1>1
<1>4. PICK n \in Thread : /\ threads' = threads \cup {n}
                          /\ n.root = MaxRequests + rollbacks + 1 /\ n.fn = "rollback"
                          /\ n.at = "rbbegin" /\ n.hash = c /\ n.depth = 0
    <2>1. MaxRequests + rollbacks + 1 \in Roots
        BY <1>1, <1>2, BoundsAssumption DEF Roots
    <2>2. [root |-> MaxRequests + rollbacks + 1, fn |-> "rollback", at |-> "rbbegin",
           hash |-> c, depth |-> 0] \in Thread
        BY <2>1 DEF Thread, RollbackAt
    <2> WITNESS [root |-> MaxRequests + rollbacks + 1, fn |-> "rollback", at |-> "rbbegin",
                 hash |-> c, depth |-> 0] \in Thread
    <2> QED
        BY DEF RollbackByHand
<1>5. ShapeOK(n)
    BY <1>3, <1>4, BoundsAssumption DEF ShapeOK, RollbackAt, Commits, NoCommit
<1>6. RootOK(n)'
    BY <1>1, <1>2, <1>4, BoundsAssumption DEF RootOK
<1>7. ASSUME NEW t \in Active PROVE t.root # n.root
    <2>1. RootOK(t) /\ t.root \in Nat
        BY ThreadTyped DEF Active, PipelineInv, RootInv, Thread, Roots
    <2> QED
        BY <1>2, <1>4, <2>1, BoundsAssumption DEF RootOK
<1>8. ~MayRollBack(n)
    BY <1>4 DEF MayRollBack, DeployAt, HealthAt
<1>9. workers' = workers /\ finished' = finished /\ taken' = taken /\ accepted' = accepted
      /\ asked' = asked /\ tip' = tip /\ hooks' = hooks /\ booting' = booting
    BY <1>1 DEF queue, repo
<1>10. /\ ShapeInv' /\ RootInv' /\ RollbackInv' /\ RollbackChainsAreShort'
       /\ H!AtMostOneCurrent' /\ threads' \subseteq Thread
    BY <1>1, <1>2, <1>4, <1>5, <1>6, <1>7, <1>8, <1>9, ThreadAdded
<1>11. Q!QueueInv'
    BY <1>1, QueueUnchanged DEF PipelineInv
<1>12. TypeOK'
    BY <1>1, <1>9, <1>10, <1>11 DEF PipelineInv, TypeOK, H!HistoryTypeOK, Q!QueueInv
<1>13. DataInv'
    BY <1>1, <1>2, <1>9, BoundsAssumption DEF PipelineInv, DataInv
<1>14. RecordInv'
    <2>1. ~Recording(n)
        BY <1>4 DEF Recording
    <2>2. Ahead' <=> Ahead
        BY <1>4, <1>9, <2>1 DEF Ahead, Recording
    <2> QED
        BY <1>1, <1>9, <2>2 DEF PipelineInv, RecordInv
<1> QED
    BY <1>10, <1>11, <1>12, <1>13, <1>14 DEF PipelineInv

LEMMA StopByHandKeepsInv == PipelineInv /\ StopByHand => PipelineInv'
<1> SUFFICES ASSUME PipelineInv, StopByHand PROVE PipelineInv'
    OBVIOUS
<1>1. /\ app' = NoCommit
      /\ UNCHANGED <<queue, repo, history, status, head, attempted, autoRollbacks,
                     rollbacks, crashes>>
    BY DEF StopByHand
<1>2. PICK n \in Thread : /\ threads' = threads \cup {n}
                          /\ n.fn = "stop" /\ n.at = "idle" /\ n.hash = NoCommit
    <2>1. [root |-> 1, fn |-> "stop", at |-> "idle", hash |-> NoCommit, depth |-> 0] \in Thread
        BY BoundsAssumption DEF Thread, Roots
    <2> WITNESS [root |-> 1, fn |-> "stop", at |-> "idle", hash |-> NoCommit, depth |-> 0]
                   \in Thread
    <2> QED
        BY DEF StopByHand
<1>3. tip \in Nat /\ rollbacks \in Nat
    BY BoundsAssumption DEF PipelineInv, TypeOK, Commits, DataInv
<1>4. ShapeOK(n)
    BY <1>2, <1>3 DEF ShapeOK, NoCommit, RollbackAt
<1>5. workers' = workers /\ finished' = finished /\ taken' = taken /\ accepted' = accepted
      /\ asked' = asked /\ tip' = tip /\ hooks' = hooks /\ booting' = booting
    BY <1>1 DEF queue, repo
<1>6. /\ ShapeInv' /\ RootInv' /\ RollbackInv' /\ RollbackChainsAreShort'
      /\ H!AtMostOneCurrent' /\ threads' \subseteq Thread
    BY <1>1, <1>2, <1>3, <1>4, <1>5, ThreadAdded
<1>7. Q!QueueInv'
    BY <1>1, QueueUnchanged DEF PipelineInv
<1>8. TypeOK'
    BY <1>1, <1>3, <1>5, <1>6, <1>7 DEF PipelineInv, TypeOK, H!HistoryTypeOK, Q!QueueInv, NoCommit
<1>9. DataInv'
    BY <1>1, <1>5 DEF PipelineInv, DataInv
<1>10. RecordInv'
    <2>1. ~Recording(n)
        BY <1>2 DEF Recording
    <2>2. Ahead' <=> Ahead
        BY <1>2, <1>5, <2>1 DEF Ahead, Recording
    <2> QED
        BY <1>1, <1>5, <2>2 DEF PipelineInv, RecordInv
<1> QED
    BY <1>6, <1>7, <1>8, <1>9, <1>10 DEF PipelineInv

-----------------------------------------------------------------------------
(* The invariant.                                                          *)

LEMMA InitInv == Init => PipelineInv
<1> SUFFICES ASSUME Init PROVE PipelineInv
    OBVIOUS
<1> USE BoundsAssumption, NoneAssumption
<1>1. /\ Q!Init /\ history = <<>> /\ asked = <<>> /\ tip = 1 /\ hooks = {} /\ booting = FALSE
      /\ status = "idle" /\ head = 0 /\ app = 0 /\ threads = {} /\ attempted = 0
      /\ autoRollbacks = [r \in Roots |-> 0] /\ rollbacks = 0 /\ crashes = 0
    BY DEF Init, H!HistoryInit, NoCommit
<1>2. Q!TypeOK /\ workers = {} /\ taken[Project] = 0 /\ accepted[Project] = 0
    BY <1>1 DEF Q!Init, Q!TypeOK
<1>3. QueueOK
    BY <1>1 DEF QueueOK, Q!Init
<1>4. Q!QueueInv
    BY <1>2, <1>3, QueueOKSuffices
<1>5. Len(history) = 0 /\ DOMAIN history = {} /\ history \in Seq(H!Row)
      /\ Len(asked) = 0 /\ DOMAIN asked = {} /\ asked \in Seq(Commits \cup {NoCommit})
    BY <1>1
<1>6. TypeOK
    <2>1. H!HistoryTypeOK
        BY <1>5 DEF H!HistoryTypeOK
    <2>2. tip \in Commits /\ head \in 0 .. tip /\ app \in 0 .. tip /\ attempted \in 0 .. tip
        BY <1>1 DEF Commits
    <2>3. autoRollbacks \in [Roots -> Nat]
        BY <1>1
    <2>4. threads \subseteq Thread /\ hooks \subseteq Commits
        BY <1>1
    <2> QED
        BY <1>1, <1>2, <1>5, <2>1, <2>2, <2>3, <2>4 DEF TypeOK
<1>7. H!AtMostOneCurrent /\ RollbackChainsAreShort
    BY <1>1, <1>5 DEF H!AtMostOneCurrent, RollbackChainsAreShort
<1>8. DataInv
    BY <1>1, <1>5 DEF DataInv
<1>9. ShapeInv /\ RootInv /\ RollbackInv
    BY <1>1 DEF ShapeInv, RootInv, RollbackInv, Active
<1>10. RecordInv
    BY <1>1, <1>2, <1>5 DEF RecordInv, Ahead
<1> QED
    BY <1>4, <1>6, <1>7, <1>8, <1>9, <1>10 DEF PipelineInv

LEMMA StutterKeepsInv == PipelineInv /\ UNCHANGED vars => PipelineInv'
<1> SUFFICES ASSUME PipelineInv, UNCHANGED vars PROVE PipelineInv'
    OBVIOUS
<1>1. /\ UNCHANGED queue
      /\ UNCHANGED <<asked, tip, hooks, booting, history, status, head, app, threads, attempted,
                     autoRollbacks, rollbacks, crashes>>
    BY DEF vars, repo, bounds
<1>2. UNCHANGED <<workers, finished, taken, accepted>>
    BY <1>1 DEF queue
<1>3. tip \in Nat
    BY BoundsAssumption DEF PipelineInv, TypeOK, Commits
<1>4. /\ ShapeInv' /\ RootInv' /\ RollbackInv' /\ RollbackChainsAreShort' /\ H!AtMostOneCurrent'
    BY <1>1, <1>2, <1>3, ThreadsStay
<1>5. Q!QueueInv'
    BY <1>1, QueueUnchanged DEF PipelineInv
<1>6. TypeOK'
    BY <1>1, <1>2, <1>5 DEF PipelineInv, TypeOK, H!HistoryTypeOK, Q!QueueInv
<1>7. DataInv' /\ RecordInv'
    BY <1>1, <1>2 DEF PipelineInv, DataInv, RecordInv, Ahead, Recording
<1> QED
    BY <1>4, <1>5, <1>6, <1>7 DEF PipelineInv

LEMMA NextKeepsInv == PipelineInv /\ [Next]_vars => PipelineInv'
<1> SUFFICES ASSUME PipelineInv, [Next]_vars PROVE PipelineInv'
    OBVIOUS
<1>1. tip \in Nat /\ NoCommit \in 0 .. tip /\ \A c \in hooks : c \in 0 .. tip
    BY BoundsAssumption DEF PipelineInv, TypeOK, Commits, NoCommit, DataInv
<1>2. CASE WorkerStep
    BY <1>2, DeployingKeepsInv, GoIdleKeepsInv DEF WorkerStep
<1>3. CASE \E t \in threads : ThreadStep(t)
    BY <1>3, ThreadStepKeepsInv
<1>4. ASSUME NEW c \in hooks, Webhook(c) PROVE PipelineInv'
    <2>1. /\ Request(c) /\ hooks' \subseteq hooks /\ booting' = booting
          /\ UNCHANGED <<tip, history, status, head, app, threads, attempted, autoRollbacks,
                         rollbacks, crashes>>
        BY <1>4 DEF Webhook, bounds
    <2>2. booting' \in BOOLEAN
        BY <2>1 DEF PipelineInv, TypeOK
    <2> QED
        BY <1>1, <2>1, <2>2, RequestKeepsInv
<1>5. CASE ManualDeploy
    <2>1. /\ Request(NoCommit) /\ hooks' = hooks /\ booting' = booting
          /\ UNCHANGED <<tip, history, status, head, app, threads, attempted, autoRollbacks,
                         rollbacks, crashes>>
        BY <1>5 DEF ManualDeploy
    <2>2. booting' \in BOOLEAN
        BY <2>1 DEF PipelineInv, TypeOK
    <2> QED
        BY <1>1, <2>1, <2>2, RequestKeepsInv
<1>6. CASE Resurrect
    <2>1. /\ Request(NoCommit) /\ hooks' = hooks /\ booting' \in BOOLEAN
          /\ UNCHANGED <<tip, history, status, head, app, threads, attempted, autoRollbacks,
                         rollbacks, crashes>>
        BY <1>6 DEF Resurrect, bounds
    <2> QED
        BY <1>1, <2>1, RequestKeepsInv
<1> QED
    BY <1>2, <1>3, <1>4, <1>5, <1>6, PushKeepsInv, StopByHandKeepsInv, CrashKeepsInv,
       RollbackByHandKeepsInv, StutterKeepsInv DEF Next, Progress

\* Deployments, rollbacks, health checks, operators and crashes interleave,
\* and what they believe of each other stays true (executor.go:505-761).
THEOREM PipelineInvariant == Spec => []PipelineInv
BY InitInv, NextKeepsInv, PTL DEF Spec

-----------------------------------------------------------------------------
(* What follows from the invariant.                                        *)

\* The queue, the history, the goroutines and the status keep their types.
THEOREM TypeCorrect == Spec => []TypeOK
BY PipelineInvariant, PTL DEF PipelineInv

\* One request leads to one automatic rollback at most (executor.go:644-652),
\* whatever its deployment, its rollback and their health checks find.
THEOREM ShortRollbackChains == Spec => []RollbackChainsAreShort
BY PipelineInvariant, PTL DEF PipelineInv

\* "Only one deployment runs per project at a time" (queue.go:12), at the
\* level of FullDeployPipeline: two goroutines are never inside it, and the
\* one that is works for the newest request taken from the queue.
SerialDeployments ==
    \A t, u \in threads :
        t.fn = "deploy" /\ u.fn = "deploy" => t = u /\ t.root = taken[Project]

\* What the mutex of the queue gives to the pipeline it runs (queue.go:58-76).
THEOREM DeploymentsAreSerial == Spec => []SerialDeployments
<1>1. PipelineInv => SerialDeployments
    BY DeploysFacts DEF SerialDeployments
<1> QED
    BY <1>1, PipelineInvariant, PTL

-----------------------------------------------------------------------------
(* The status "deploying" always has an owner: somebody who has yet to     *)
(* write the outcome.                                                      *)

Resolves(t) == t.fn # "stop" /\ t.at \notin {"prev", "rbbegin"}

Owned ==
    status = "deploying" =>
       \/ booting
       \/ \E w \in workers : w.at = "spawned"
       \/ pending[Project] # None
       \/ \E t \in threads : Resolves(t)

\* The steps after which the status is not "deploying", and those that leave
\* it as it is.
LEMMA ThreadStepKeepsOwner ==
    ASSUME PipelineInv, Owned, NEW t \in threads, ThreadStep(t)
    PROVE  Owned'
<1> SUFFICES ASSUME status' = "deploying" PROVE Owned'
    BY DEF Owned
<1>1. PICK S : ThreadFact(t, S) /\ DataFact
    BY ThreadStepFacts DEF StepFact
<1>2. t \in Thread /\ ShapeOK(t)
    BY ThreadTyped
<1>3. threads' = (threads \ {t}) \cup S
    BY <1>1 DEF ThreadFact
\* What the owners other than t are does not change.
<1>4. CASE \E u \in threads : u # t /\ Resolves(u)
    BY <1>3, <1>4 DEF Owned, Resolves
<1>5. CASE status = "deploying" /\ (\/ booting \/ pending[Project] # None
                                    \/ \E w \in workers : w.at = "spawned")
    <2>1. booting' = booting
        BY <1>1 DEF DataFact, repo
    <2>2. pending' = pending
        BY <1>1 DEF ThreadFact, Continues, HandsBack, Q!DeployReturns, queue
    <2>3. \A w \in workers : w.at = "spawned" => w \in workers'
        BY <1>1 DEF ThreadFact, Continues, HandsBack, Q!DeployReturns, Q!Becomes, queue
    <2> QED
        BY <1>5, <2>1, <2>2, <2>3 DEF Owned
\* t hands its duty on, or it had none.
<1>6. (\E v \in threads' : Resolves(v)) \/ (status = "deploying" /\ ~Resolves(t))
    <2>1. CASE \/ SyncSucceeds(t) \/ RecordCommit(t) \/ InstallSucceeds(t)
               \/ StartNothing(t) \/ StartStopsOld(t) \/ StartSucceeds(t)
               \/ RollbackBegins(t) \/ RollbackStops(t) \/ RollbackChecksOut(t)
               \/ RollbackMarks(t) \/ RollbackSetsCurrent(t)
               \/ FindNoProcess(t) \/ WaitToStabilise(t) \/ HealthPasses(t) \/ HealthFails(t)
               \/ Promote(t)
        <3>1. PICK at : Goes(t, at) /\ at \notin {"prev", "rbbegin"} /\ t.at # "idle"
            BY <2>1 DEF SyncSucceeds, RecordCommit, InstallSucceeds, StartNothing, StartStopsOld,
                StartSucceeds, RollbackBegins, RollbackStops, RollbackChecksOut, RollbackMarks,
                RollbackSetsCurrent, FindNoProcess, WaitToStabilise, HealthPasses, HealthFails,
                Promote
        <3>2. t.fn # "stop"
            BY <1>2, <3>1 DEF ShapeOK
        <3>3. [t EXCEPT !.at = at] \in threads'
            BY <3>1 DEF Goes
        <3>4. Resolves([t EXCEPT !.at = at])
            BY <1>2, <3>1, <3>2 DEF Resolves, Thread
        <3> QED
            BY <3>3, <3>4
    <2>2. CASE DetectCommit(t)
        <3>1. PICK h : [t EXCEPT !.at = "record", !.hash = h] \in threads' /\ t.at = "detect"
            BY <2>2 DEF DetectCommit
        <3>2. Resolves([t EXCEPT !.at = "record", !.hash = h])
            BY <1>2, <3>1 DEF Resolves, Thread, ShapeOK
        <3> QED
            BY <3>1, <3>2
    <2>3. CASE Publish(t) \/ RollbackPublishes(t)
        <3>1. PICK d \in {0, 1} : HealthCheck(t, d) \in threads'
            BY <2>3 DEF Publish, RollbackPublishes, Returns
        <3>2. Resolves(HealthCheck(t, d))
            BY DEF Resolves, HealthCheck
        <3> QED
            BY <3>1, <3>2
    <2>4. CASE RollBackAutomatically(t) \/ GiveUp(t)
        BY <2>4 DEF RollBackAutomatically, GiveUp, Resolves
    <2>5. CASE \/ SyncFails(t) \/ InstallFails(t) \/ StartFails(t) \/ SkipInstallOnly(t)
               \/ MarkRunning(t) \/ MarkFailed(t) \/ StopSetsIdle(t)
        BY <2>5 DEF SyncFails, InstallFails, StartFails, SkipInstallOnly, MarkRunning, MarkFailed,
            StopSetsIdle
    <2> QED
        BY <2>1, <2>2, <2>3, <2>4, <2>5 DEF ThreadStep
<1> QED
    BY <1>4, <1>5, <1>6 DEF Owned

LEMMA RequestKeepsOwner ==
    ASSUME PipelineInv, Owned, Request(NoCommit) \/ \E c \in hooks : Request(c),
           UNCHANGED <<status, threads>>
    PROVE  Owned'
<1>1. Q!EnqueueDeployment(Project) /\ Q!QueueInv
    BY DEF Request, PipelineInv
<1>2. (\E w \in workers' : w.at = "spawned") \/ pending'[Project] # None
    BY <1>1, EnqueueKeepsQueue
<1> QED
    BY <1>2 DEF Owned

LEMMA NextKeepsOwner == PipelineInv /\ Owned /\ [Next]_vars => Owned'
<1> SUFFICES ASSUME PipelineInv, Owned, [Next]_vars PROVE Owned'
    OBVIOUS
<1>1. ASSUME NEW w \in workers, BeginDeploy(w) \/ PopPending(w) PROVE Owned'
    <2>1. PICK r : Deploying(r)
        BY <1>1 DEF BeginDeploy, PopPending
    <2>2. [root |-> r, fn |-> "deploy", at |-> "sync", hash |-> asked[r], depth |-> 0] \in threads'
        BY <2>1 DEF Deploying
    <2>3. \E t \in threads' : t.fn = "deploy" /\ t.at = "sync"
        <3> WITNESS [root |-> r, fn |-> "deploy", at |-> "sync", hash |-> asked[r], depth |-> 0]
                       \in threads'
        <3> QED
            OBVIOUS
    <2> QED
        BY <2>3 DEF Owned, Resolves
<1>2. ASSUME NEW w \in workers, GoIdle(w) PROVE Owned'
    <2>1. /\ Q!GoIdle(w) /\ Q!QueueInv
          /\ UNCHANGED <<status, threads, booting>>
        BY <1>2 DEF GoIdle, PipelineInv, repo
    <2>2. w.at = "checking" /\ workers = {w} /\ pending' = pending
        BY <2>1, IdleKeepsQueue
    <2> QED
        BY <2>1, <2>2 DEF Owned, Resolves
<1>3. ASSUME \/ ManualDeploy \/ Resurrect \/ \E c \in hooks : Webhook(c) PROVE Owned'
    <2>1. /\ Request(NoCommit) \/ \E c \in hooks : Request(c)
          /\ UNCHANGED <<status, threads>>
        BY <1>3 DEF ManualDeploy, Resurrect, Webhook
    <2> QED
        BY <2>1, RequestKeepsOwner
<1>4. ASSUME \/ Push \/ StopByHand \/ UNCHANGED vars \/ \E c \in Commits : RollbackByHand(c)
      PROVE  Owned'
    <2>1. /\ UNCHANGED <<queue, booting, status>> /\ threads \subseteq threads'
        BY <1>4 DEF Push, StopByHand, RollbackByHand, vars, repo
    <2> QED
        BY <2>1 DEF Owned, Resolves, queue
<1>5. Crash => Owned'
    BY DEF Crash, Owned
<1> QED
    BY <1>1, <1>2, <1>3, <1>4, <1>5, ThreadStepKeepsOwner DEF Next, Progress, WorkerStep

\* The safety half of DeployingIsResolved (executor.go:517, 716): whenever the
\* status is "deploying" there is a restart, a request or a goroutine that
\* will replace it; a stop by hand, a rollback that gives up and a goroutine
\* that looks for a rollback target do not count.
THEOREM DeployingHasOwner == Spec => []Owned
<1>1. Init => Owned
    BY DEF Init, Owned
<1>2. PipelineInv /\ Owned /\ [Next]_vars => Owned'
    BY NextKeepsOwner
<1> QED
    BY <1>1, <1>2, PipelineInvariant, PTL DEF Spec

-----------------------------------------------------------------------------
(* The composition keeps the specification of the queue.                   *)

LEMMA NextIsQueueStep ==
    ASSUME PipelineInv, [Next]_vars
    PROVE  [Q!Next \/ Crash]_queue
<1>1. ASSUME NEW w \in workers, BeginDeploy(w) \/ PopPending(w) \/ GoIdle(w) PROVE Q!Next
    BY <1>1 DEF BeginDeploy, PopPending, GoIdle, Q!Next, Q!Step
<1>2. ASSUME NEW t \in threads, ThreadStep(t) PROVE [Q!Next]_queue
    <2>1. PICK S : ThreadFact(t, S)
        BY <1>2, ThreadStepFacts DEF StepFact
    <2> QED
        BY <2>1 DEF ThreadFact, Continues, HandsBack, Q!Next, Q!Step
<1>3. ASSUME NEW c, Request(c) PROVE Q!Next
    BY <1>3 DEF Request, Q!Next
<1>4. ManualDeploy \/ Resurrect \/ (\E c \in hooks : Webhook(c)) => Q!Next
    BY <1>3 DEF ManualDeploy, Resurrect, Webhook
<1>5. Push \/ StopByHand \/ UNCHANGED vars \/ (\E c \in Commits : RollbackByHand(c))
         => UNCHANGED queue
    BY DEF Push, StopByHand, RollbackByHand, vars
<1> QED
    BY <1>1, <1>2, <1>4, <1>5 DEF Next, Progress, WorkerStep

\* Every step of the composition is a step of the queue, a crash, or leaves
\* the queue alone: FullDeployPipeline hands control back once per request,
\* by whichever path it ends (queue.go:76).
THEOREM QueueOrCrash == Spec => Q!Init /\ [][Q!Next \/ Crash]_queue
<1>1. Init => Q!Init
    BY DEF Init
<1> QED
    BY <1>1, NextIsQueueStep, PipelineInvariant, PTL DEF Spec

\* Without crashes the pipeline implements the safety part of the queue's
\* specification: all theorems about DeployQueue hold of it.
THEOREM QueueKeepsItsSafety ==
    ASSUME MaxCrashes = 0
    PROVE  Spec => Q!Spec
<1>1. PipelineInv => ~Crash
    BY DEF PipelineInv, DataInv, Crash
<1>2. Q!vars = queue /\ Q!vars' = queue'
    BY DEF Q!vars, queue
<1>3. PipelineInv /\ [Q!Next \/ Crash]_queue => [Q!Next]_(Q!vars)
    BY <1>1, <1>2
<1> QED
    BY <1>3, QueueOrCrash, PipelineInvariant, PTL DEF Q!Spec

\* Every step of the composition is one statement on the history, or leaves it
\* alone: what is proved of CommitHistory holds of the pipeline, crashes
\* included (rows are never removed, and a commit that is made current is the
\* one the next automatic rollback finds; executor.go:561-562, 625, 734).
THEOREM HistoryIsFollowed == Spec => H!HistorySpec
<1>1. Init => H!HistoryInit
    BY DEF Init
<1>2. PipelineInv /\ PipelineInv' /\ [Next]_vars => [H!HistoryNext]_history
    <2> SUFFICES ASSUME PipelineInv, PipelineInv', [Next]_vars
                 PROVE  [H!HistoryNext]_history
        OBVIOUS
    <2>1. Len(history') <= MaxRows /\ H!HistoryTypeOK
        BY DEF PipelineInv, TypeOK, H!HistoryTypeOK
    <2>2. ASSUME NEW t \in threads, ThreadStep(t) PROVE [H!HistoryNext]_history
        <3>1. PICK S : HistoryFact(t, S)
            BY <2>2, ThreadStepFacts DEF StepFact
        <3>2. CASE t.hash \in Commits \cup {NoCommit} /\ history' = H!Added(history, t.hash)
            <4>1. Len(history) < MaxRows
                <5>1. history \in Seq(H!Row) /\ Len(history) \in Nat
                    BY <2>1, HistoryTyped
                <5>2. Len(history') = Len(history) + 1
                    BY <3>2, <5>1 DEF H!Added
                <5> QED
                    BY <2>1, <5>1, <5>2, BoundsAssumption
            <4> QED
                BY <3>2, <4>1 DEF H!HistoryNext, H!AddCommitToHistory
        <3>3. CASE /\ t.hash \in Commits \cup {NoCommit}
                   /\ history' \in {H!Promoted(history, t.hash), H!RolledBack(history, t.hash)}
            BY <3>3 DEF H!HistoryNext, H!SetCurrentCommit, H!MarkCommitRolledBack
        <3> QED
            BY <3>1, <3>2, <3>3 DEF HistoryFact
    <2>3. ~ (\E t \in threads : ThreadStep(t)) => UNCHANGED history
        <3>1. WorkerStep => UNCHANGED history
            BY DEF WorkerStep, BeginDeploy, PopPending, Deploying, GoIdle
        <3>2. (\E c \in hooks : Webhook(c)) \/ ManualDeploy \/ Resurrect => UNCHANGED history
            BY DEF Webhook, ManualDeploy, Resurrect
        <3>3. Push \/ StopByHand \/ (\E c \in Commits : RollbackByHand(c)) => UNCHANGED history
            BY DEF Push, StopByHand, RollbackByHand
        <3>4. Crash \/ UNCHANGED vars => UNCHANGED history
            BY DEF Crash, vars
        <3> QED
            BY <3>1, <3>2, <3>3, <3>4 DEF Next, Progress
    <2> QED
        BY <2>2, <2>3
<1> QED
    BY <1>1, <1>2, PipelineInvariant, PTL DEF Spec, H!HistorySpec

=============================================================================
