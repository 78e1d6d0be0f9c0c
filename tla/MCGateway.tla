------------------------------- MODULE MCGateway -------------------------------
(***************************************************************************)
(* An instance of Gateway for TLC.                                         *)
(***************************************************************************)
EXTENDS Gateway

Input(e, p) == [email |-> e, port |-> p]

\* Nothing, everything, another port, and a port that is held by another program.
FourInputs ==
    {NoFlags, Input("admin", 9000), Input(NoEmail, DefaultPort)} \cup
    {Input(NoEmail, p) : p \in Unusable}

=============================================================================
