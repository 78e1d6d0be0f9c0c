--------------------------- MODULE MCDeployPipeline ---------------------------
(***************************************************************************)
(* Instances of DeployPipeline for TLC: the bounds are in the cfg files.   *)
(***************************************************************************)
EXTENDS DeployPipeline

=============================================================================
