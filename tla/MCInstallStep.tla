----------------------------- MODULE MCInstallStep -----------------------------
(***************************************************************************)
(* An instance of InstallStep for TLC: two projects of one service user.   *)
(***************************************************************************)
EXTENDS InstallStep, TLC

CONSTANTS p1, p2, u1

OneUser == [p \in {p1, p2} |-> u1]

\* A script the patcher protects, and one that mentions set -e in a comment.
TwoScripts == {<<"shebang", "sudo">>, <<"mention", "command">>}

Alike == Permutations({p1, p2})

=============================================================================
