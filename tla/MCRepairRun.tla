---------------------------- MODULE MCRepairRun ----------------------------
(* Instances of RepairRun for TLC; only equality tells two patches apart.   *)
EXTENDS RepairRun, TLC

Symmetry == Permutations(Patch)
=============================================================================
