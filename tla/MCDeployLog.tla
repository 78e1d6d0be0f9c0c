------------------------------ MODULE MCDeployLog ------------------------------
(***************************************************************************)
(* An instance of DeployLog for TLC.                                       *)
(***************************************************************************)
EXTENDS DeployLog

=============================================================================
