--------------------------- MODULE MCCommitHistory ---------------------------
(***************************************************************************)
(* Instances of CommitHistory for TLC.                                     *)
(***************************************************************************)
EXTENDS CommitHistory

=============================================================================
