----------------------------- MODULE DeployOrder -----------------------------
(***************************************************************************)
(* What the per-project deployment queue promises to the code that calls   *)
(* it (the comment at actions/queue.go:10-13): the deployments of one      *)
(* project happen one at a time, in the order in which they were           *)
(* requested, intermediate requests may be skipped, and the newest request *)
(* is never left behind.                                                   *)
(*                                                                         *)
(* Requests of a project are numbered 1, 2, ... in the order in which the  *)
(* queue accepted them.                                                    *)
(***************************************************************************)
EXTENDS Naturals

CONSTANTS
    Projects,     \* the projects, one queue each (their service directories)
    MaxRequests,  \* bound: requests per project, a natural number
    None          \* no request, not a natural number

VARIABLES
    requested,    \* requested[p]: how many deployments were asked for
    running,      \* running[p]: the request being deployed, or None
    settled       \* settled[p]: the newest request whose deployment ended

vars == <<requested, running, settled>>

Init ==
    /\ requested = [p \in Projects |-> 0]
    /\ running = [p \in Projects |-> None]
    /\ settled = [p \in Projects |-> 0]

Submit(p) ==
    /\ requested[p] < MaxRequests
    /\ requested' = [requested EXCEPT ![p] = @ + 1]
    /\ UNCHANGED <<running, settled>>

\* Some request newer than the last one deployed: older ones are discarded.
Begin(p) ==
    /\ running[p] = None
    /\ \E r \in (settled[p] + 1) .. requested[p] :
          running' = [running EXCEPT ![p] = r]
    /\ UNCHANGED <<requested, settled>>

End(p) ==
    /\ running[p] # None
    /\ settled' = [settled EXCEPT ![p] = running[p]]
    /\ running' = [running EXCEPT ![p] = None]
    /\ UNCHANGED requested

Next == \E p \in Projects : Submit(p) \/ Begin(p) \/ End(p)

SafeSpec == Init /\ [][Next]_vars

Fairness == \A p \in Projects : WF_vars(Begin(p)) /\ WF_vars(End(p))

Spec == SafeSpec /\ Fairness

=============================================================================
