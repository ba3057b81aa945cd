-------------------------- MODULE MCDeployPipeline --------------------------
(* Instances of DeployPipeline for TLC.                                    *)
EXTENDS DeployPipeline, TLC

\* Images are only compared for equality.
Symmetry == Permutations(Image)
=============================================================================
