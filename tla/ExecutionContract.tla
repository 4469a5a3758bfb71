-------------------------- MODULE ExecutionContract --------------------------
(***************************************************************************)
(* What the execution ledger promises to the rest of the system, as a       *)
(* status machine of one logical MCP call: who may move it, how often the   *)
(* remote server may be addressed, and that a settled call stays settled.   *)
(***************************************************************************)
EXTENDS Naturals

CONSTANT MaxAttempts

VARIABLES status, attempts, retrySafe

contractVars == <<status, attempts, retrySafe>>

Settled == {"succeeded", "failed"}

Init ==
  /\ status = "absent"
  /\ attempts = 0
  /\ retrySafe \in BOOLEAN

Move(from, to) ==
  /\ status \in from
  /\ status' \in to
  /\ UNCHANGED <<attempts, retrySafe>>

\* Each attempt is one lease, and at most one call to the server.
Attempt ==
  /\ attempts < MaxAttempts
  /\ attempts' = attempts + 1
  /\ status' = "executing"
  /\ UNCHANGED retrySafe

Record    == Move({"absent"}, {"prepared"})
Start     == status = "prepared" /\ Attempt
Answer    == Move({"executing"}, Settled)
LoseTrack == Move({"executing"}, {"unknown"})
Reconcile == Move({"unknown"}, Settled)

\* Only a call the server deduplicates may be tried again.
Reopen  == retrySafe /\ attempts < MaxAttempts /\ Move({"executing", "unknown"}, {"prepared"})
Restart == retrySafe /\ status = "executing" /\ Attempt

Next == Record \/ Start \/ Answer \/ LoseTrack \/ Reconcile \/ Reopen \/ Restart

Spec == Init /\ [][Next]_contractVars
=============================================================================
