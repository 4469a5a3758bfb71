--------------------------- MODULE MCMCPApproval ---------------------------
(* The instances of MCPApproval that TLC checks; requests are alike.        *)
EXTENDS MCPApproval, TLC

RequestSymmetry == Permutations(Request)
=============================================================================
