---------------------------- MODULE MCDeployQueue ----------------------------
(***************************************************************************)
(* Instances of DeployQueue for TLC: the bounds are in the cfg file.       *)
(***************************************************************************)
EXTENDS DeployQueue

=============================================================================
