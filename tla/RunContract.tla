---------------------------- MODULE RunContract ----------------------------
(***************************************************************************)
(* What a repair run promises to those who read only its row: its status,  *)
(* and what the tests said of the diff it stores. RepairRun implements it; *)
(* GitHubRepair knows of the run no more than this.                        *)
(***************************************************************************)
VARIABLES
  status,  \* AgentRun.status
  patch    \* AgentRun.final_diff: "none", "unverified" or "verified"

contractVars == <<status, patch>>

Paused == {"waiting_approval", "waiting_reconciliation"}
Verdict == {"verified_success", "unverified_patch", "not_reproduced", "failed", "infra_error"}

Init == status \in {"none", "pending"} /\ patch = "none"

\* A run that is created, works or waits keeps the diff it had.
Work ==
  /\ status' \in {"pending", "running"} \union Paused
  /\ UNCHANGED patch

\* A verdict comes with the diff of the graph; a run that an exception ended keeps the diff
\* it had. Only a verified run stores a diff on which the tests passed.
Give(outcome) ==
  /\ status' = outcome
  /\ patch' \in CASE outcome = "verified_success" -> {"verified"}
                  [] outcome = "infra_error" -> {patch, "none", "unverified"}
                  [] OTHER -> {"none", "unverified"}

Next == Work \/ \E outcome \in Verdict : Give(outcome)

Spec == Init /\ [][Next]_contractVars
=============================================================================
