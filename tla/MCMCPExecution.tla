--------------------------- MODULE MCMCPExecution ---------------------------
(***************************************************************************)
(* The instances of MCPExecution that TLC checks.  Overlapping workers need *)
(* two session slots; jobs that follow one another in time need one.        *)
(***************************************************************************)
EXTENDS MCPExecution, TLC

SessionSymmetry == Permutations(Session)
=============================================================================
