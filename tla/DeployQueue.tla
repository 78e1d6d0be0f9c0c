----------------------------- MODULE DeployQueue -----------------------------
(***************************************************************************)
(* The per-project deployment queue, actions/queue.go.                     *)
(*                                                                         *)
(* Every call of EnqueueDeployment and every turn of the loop of           *)
(* runQueuedDeploy is one critical section under ProjectQueue.mu, so each  *)
(* is one action here; deployFn runs outside the mutex, between two of     *)
(* them.  The goroutines that run runQueuedDeploy are the records of the   *)
(* set workers: that there is at most one for a project is a property of   *)
(* the code and not of this representation.                                *)
(*                                                                         *)
(* A request carries a commit hash, a message and a configuration, which   *)
(* the queue never looks at: it is represented by the number of its call   *)
(* in the order in which the calls got the mutex.                          *)
(***************************************************************************)
EXTENDS Naturals

CONSTANTS
    Projects,     \* keys of the map "queues": the service directories
    MaxRequests,  \* bound: calls of EnqueueDeployment per project
    MaxPanics,    \* bound: panics of deployFn per project
    None          \* the nil pointer of ProjectQueue.pending

ASSUME NoneAssumption == None \notin Nat
ASSUME BoundsAssumption == MaxRequests \in Nat /\ MaxPanics \in Nat

VARIABLES
    isRunning,    \* ProjectQueue.isRunning
    pending,      \* ProjectQueue.pending: a request or None
    workers,      \* the live goroutines of runQueuedDeploy
    accepted,     \* calls of EnqueueDeployment so far
    taken,        \* the newest request a worker was given
    finished,     \* the newest request whose deployFn ended
    panics        \* panics recovered so far

queueVars == <<isRunning, pending>>
vars == <<isRunning, pending, workers, accepted, taken, finished, panics>>

Request == 1 .. MaxRequests

\* "spawned": the go statement was executed, deployFn not yet called;
\* "deploying": inside deployFn; "checking": about to lock the mutex.
Worker == [proj : Projects, req : Request, at : {"spawned", "deploying", "checking"}]

WorkersOf(p) == {w \in workers : w.proj = p}

Becomes(w, v) == workers' = (workers \ {w}) \cup {v}

Init ==
    /\ isRunning = [p \in Projects |-> FALSE]
    /\ pending = [p \in Projects |-> None]
    /\ workers = {}
    /\ accepted = [p \in Projects |-> 0]
    /\ taken = [p \in Projects |-> 0]
    /\ finished = [p \in Projects |-> 0]
    /\ panics = [p \in Projects |-> 0]

-----------------------------------------------------------------------------
(* EnqueueDeployment                                                       *)

Accept(p) ==
    /\ accepted[p] < MaxRequests
    /\ accepted' = [accepted EXCEPT ![p] = @ + 1]

\* A variant that starts a worker whether or not one is running.
StartUnguarded(p) ==
    /\ Accept(p)
    /\ isRunning' = [isRunning EXCEPT ![p] = TRUE]
    /\ taken' = [taken EXCEPT ![p] = accepted'[p]]
    /\ workers' = workers \cup {[proj |-> p, req |-> accepted'[p], at |-> "spawned"]}
    /\ UNCHANGED <<pending, finished, panics>>

\* Nothing runs: mark the queue busy and spawn the worker.
EnqueueStart(p) ==
    /\ Accept(p)
    /\ ~isRunning[p]
    /\ isRunning' = [isRunning EXCEPT ![p] = TRUE]
    /\ taken' = [taken EXCEPT ![p] = accepted'[p]]
    /\ workers' = workers \cup {[proj |-> p, req |-> accepted'[p], at |-> "spawned"]}
    /\ UNCHANGED <<pending, finished, panics>>

\* A variant that keeps the request that is already pending.
PendKeepingOldest(p) ==
    /\ Accept(p)
    /\ isRunning[p]
    /\ pending' = [pending EXCEPT ![p] = IF @ = None THEN accepted'[p] ELSE @]
    /\ UNCHANGED <<isRunning, workers, taken, finished, panics>>

\* A deployment runs: the request takes the only slot, whatever was in it.
EnqueuePend(p) ==
    /\ Accept(p)
    /\ isRunning[p]
    /\ pending' = [pending EXCEPT ![p] = accepted'[p]]
    /\ UNCHANGED <<isRunning, workers, taken, finished, panics>>

EnqueueDeployment(p) == EnqueueStart(p) \/ EnqueuePend(p)

-----------------------------------------------------------------------------
(* runQueuedDeploy                                                         *)

\* The goroutine is scheduled and calls deployFn.
BeginDeploy(w) ==
    /\ w.at = "spawned"
    /\ Becomes(w, [w EXCEPT !.at = "deploying"])
    /\ UNCHANGED <<isRunning, pending, accepted, taken, finished, panics>>

\* A variant that runs one deployment and ends.
ReturnForGood(w) ==
    /\ w.at = "deploying"
    /\ workers' = workers \ {w}
    /\ finished' = [finished EXCEPT ![w.proj] = w.req]
    /\ UNCHANGED <<isRunning, pending, accepted, taken, panics>>

\* deployFn returns, having succeeded or failed: it returns nothing.
DeployReturns(w) ==
    /\ w.at = "deploying"
    /\ Becomes(w, [w EXCEPT !.at = "checking"])
    /\ finished' = [finished EXCEPT ![w.proj] = w.req]
    /\ UNCHANGED <<isRunning, pending, accepted, taken, panics>>

\* deployFn panics: the deferred recover logs and the goroutine ends.  The
\* queue itself is left as it is, isRunning included.
DeployPanics(w) ==
    /\ w.at = "deploying"
    /\ panics[w.proj] < MaxPanics
    /\ panics' = [panics EXCEPT ![w.proj] = @ + 1]
    /\ workers' = workers \ {w}
    /\ finished' = [finished EXCEPT ![w.proj] = w.req]
    /\ UNCHANGED <<isRunning, pending, accepted, taken>>

\* A variant that does not look whether something is pending.
PopBlindly(w) ==
    /\ w.at = "checking"
    /\ pending' = [pending EXCEPT ![w.proj] = None]
    /\ taken' = [taken EXCEPT ![w.proj] = pending[w.proj]]
    /\ Becomes(w, [w EXCEPT !.at = "deploying", !.req = pending[w.proj]])
    /\ UNCHANGED <<isRunning, accepted, finished, panics>>

\* A variant that reuses the request it has just deployed.
PopWithoutClearing(w) ==
    /\ w.at = "checking"
    /\ pending[w.proj] # None
    /\ taken' = [taken EXCEPT ![w.proj] = pending[w.proj]]
    /\ Becomes(w, [w EXCEPT !.at = "deploying", !.req = pending[w.proj]])
    /\ UNCHANGED <<isRunning, pending, accepted, finished, panics>>

\* A request is pending: empty the slot and deploy it.
PopPending(w) ==
    /\ w.at = "checking"
    /\ pending[w.proj] # None
    /\ pending' = [pending EXCEPT ![w.proj] = None]
    /\ taken' = [taken EXCEPT ![w.proj] = pending[w.proj]]
    /\ Becomes(w, [w EXCEPT !.at = "deploying", !.req = pending[w.proj]])
    /\ UNCHANGED <<isRunning, accepted, finished, panics>>

\* A variant that goes idle without looking at the slot again.
IdleUnchecked(w) ==
    /\ w.at = "checking"
    /\ isRunning' = [isRunning EXCEPT ![w.proj] = FALSE]
    /\ workers' = workers \ {w}
    /\ UNCHANGED <<pending, accepted, taken, finished, panics>>

\* Nothing is pending: the queue is idle again and the goroutine ends.
GoIdle(w) ==
    /\ w.at = "checking"
    /\ pending[w.proj] = None
    /\ isRunning' = [isRunning EXCEPT ![w.proj] = FALSE]
    /\ workers' = workers \ {w}
    /\ UNCHANGED <<pending, accepted, taken, finished, panics>>

\* The steps a live worker takes by itself.
Step(w) == BeginDeploy(w) \/ DeployReturns(w) \/ PopPending(w) \/ GoIdle(w)

-----------------------------------------------------------------------------

Next ==
    \/ \E p \in Projects : EnqueueDeployment(p)
    \/ \E w \in workers : Step(w) \/ DeployPanics(w)

Spec == Init /\ [][Next]_vars

\* The Go scheduler runs every goroutine and deployFn returns: git is under a
\* timeout of ten minutes (executor.go:262) and install.sh under the deploy
\* timeout (executor.go:448).
Fairness == \A p \in Projects : WF_vars(\E w \in WorkersOf(p) : Step(w))

FairSpec == Spec /\ Fairness

-----------------------------------------------------------------------------
(* Properties                                                              *)

\* The variables have the types of their Go declarations (queue.go:16-26).
TypeOK ==
    /\ isRunning \in [Projects -> BOOLEAN]
    /\ pending \in [Projects -> Request \cup {None}]
    /\ workers \subseteq Worker
    /\ accepted \in [Projects -> 0 .. MaxRequests]
    /\ taken \in [Projects -> 0 .. MaxRequests]
    /\ finished \in [Projects -> 0 .. MaxRequests]
    /\ panics \in [Projects -> 0 .. MaxPanics]

\* "Only one deployment runs per project at a time" (queue.go:12): two
\* goroutines never work on the queue of one project, however the calls of
\* EnqueueDeployment and the turns of the worker's loop interleave.
OneDeploymentPerProject ==
    \A w, v \in workers : w.proj = v.proj => w = v

\* No wakeup is lost (queue.go:79-84): a request that is accepted while the
\* worker is about to stop is either seen by that worker or finds the queue
\* idle.  So an idle queue has nothing pending and the newest request has
\* been deployed.
IdleMeansCaughtUp ==
    \A p \in Projects :
        ~isRunning[p] => pending[p] = None /\ finished[p] = accepted[p]

\* "Latest pending commit wins" (queue.go:13): whenever a worker is given a
\* request, there is no newer one, and requests never run out of order.
LatestWins ==
    [][\A p \in Projects :
          taken'[p] # taken[p] => taken'[p] = accepted'[p] /\ taken'[p] > taken[p]]_vars

\* IsDeploymentRunning (queue.go:97-103) answers true only while a worker
\* lives, with one exception: a panic of deployFn leaves the flag set.
WedgedOnlyByPanic ==
    \A p \in Projects : isRunning[p] /\ WorkersOf(p) = {} => panics[p] > 0

\* A live worker keeps the flag set and works on the newest request taken.
WorkerOK(w) ==
    /\ isRunning[w.proj]
    /\ w.req = taken[w.proj]
    /\ w.at = "checking" => finished[w.proj] = taken[w.proj]
    /\ w.at # "checking" => finished[w.proj] < taken[w.proj]

WorkerInv == \A w \in workers : WorkerOK(w)

\* The slot holds the newest request, unless that one was taken already.
SlotOK(p) ==
    /\ pending[p] = None => taken[p] = accepted[p]
    /\ pending[p] # None => /\ isRunning[p]
                            /\ pending[p] = accepted[p]
                            /\ taken[p] < accepted[p]

\* Deployments end in order, and an idle queue has ended all of them.
IdleOK(p) ==
    /\ finished[p] <= taken[p]
    /\ ~isRunning[p] => pending[p] = None /\ finished[p] = taken[p]

ProjectInv == \A p \in Projects : SlotOK(p) /\ IdleOK(p)

\* The inductive invariant behind all of the above: what the flag, the slot
\* and the position of the worker say about each other (queue.go:41-95).
QueueInv ==
    /\ TypeOK
    /\ OneDeploymentPerProject
    /\ WorkerInv
    /\ ProjectInv
    /\ WedgedOnlyByPanic

-----------------------------------------------------------------------------
(* The queue implements DeployOrder: a deployment runs while its worker is *)
(* inside deployFn.                                                        *)

Deploying(p) == {w \in WorkersOf(p) : w.at = "deploying"}

RunningRequest ==
    [p \in Projects |->
        IF Deploying(p) = {} THEN None ELSE (CHOOSE w \in Deploying(p) : TRUE).req]

Order == INSTANCE DeployOrder
            WITH requested <- accepted, running <- RunningRequest, settled <- finished

\* Every step of the queue is a step of DeployOrder or changes nothing that
\* DeployOrder can see, panics included.
ImplementsOrder == Order!SafeSpec

NoPanic == \A p \in Projects : panics[p] = 0

\* If deployFn never panics, the queue also keeps the liveness promise of
\* DeployOrder: a request is not left in the slot (queue.go:79-94).
KeepsOrderFair == []NoPanic => Order!Fairness

\* Every request, or a newer one of its project, is deployed, unless a
\* deployment of that project panics (queue.go:69-73).
EveryRequestCovered ==
    \A p \in Projects : \A n \in Request :
        (accepted[p] >= n) ~> (finished[p] >= n \/ panics[p] > 0)

=============================================================================
