-------------------------- MODULE MCProjectRegistry --------------------------
(***************************************************************************)
(* An instance of ProjectRegistry for TLC.                                 *)
(***************************************************************************)
EXTENDS ProjectRegistry

CONSTANTS k1, k2, v1, v2

Port == 1

\* One project asks for a port, the other leaves it to the gateway.
Creations == {[key |-> k1, port |-> Unsent, shared |-> Unsent, own |-> Unsent],
              [key |-> k2, port |-> Port, shared |-> Unsent, own |-> v1]}

\* New credentials, and a project renamed to another's name.
Edits == {[key |-> Unsent, port |-> Port, shared |-> Unsent, own |-> v2],
          [key |-> k2, port |-> Unsent, shared |-> Unsent, own |-> Unsent]}

=============================================================================
