---------------------------- MODULE MCDeployLock ----------------------------
(* Model-checking instances of DeployLock: three or four bastionctl runs on *)
(* one lock file, any of which may be killed at any step.                  *)
EXTENDS DeployLock, TLC

Symmetry == Permutations(Runs)
=============================================================================
