----------------------------- MODULE MCFleetSync -----------------------------
(***************************************************************************)
(* An instance of FleetSync for TLC: two nodes, one repository.            *)
(***************************************************************************)
EXTENDS FleetSync

CONSTANTS a, b, r1, main

Main == [id |-> 1, node |-> a, repo |-> r1, branch |-> main]
Copy == [id |-> 2, node |-> b, repo |-> r1, branch |-> main]

\* One branch on two nodes.
Replicas == {Main, Copy}
SecondReplica == {Copy}

GatewayA == {[node |-> a, repo |-> r1]}

=============================================================================
