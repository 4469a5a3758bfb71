-------------------------- MODULE ConsentContract --------------------------
(***************************************************************************)
(* What the human approval of a tool call promises to the rest of the      *)
(* system: in which order consent, calls, answers and the reported result  *)
(* come, whatever goes on in requests, workers, the watchdog and operators. *)
(***************************************************************************)
EXTENDS Naturals

CONSTANTS Caller, MaxCalls

VARIABLES consent, expired, ready, calls, repeatable, answered, reported

consentVars == <<consent, expired, ready, calls, repeatable, answered, reported>>

Init ==
  /\ consent = FALSE /\ expired = FALSE
  /\ ready = {} /\ calls = 0 /\ repeatable \in BOOLEAN
  /\ answered = FALSE /\ reported = FALSE

\* A human can approve until the approval expires.
Approve ==
  /\ ~expired
  /\ consent' = TRUE
  /\ UNCHANGED <<expired, ready, calls, repeatable, answered, reported>>

Expire ==
  /\ expired' = TRUE
  /\ UNCHANGED <<consent, ready, calls, repeatable, answered, reported>>

\* A caller gets ready for the first call, or for one that the server deduplicates.
Prepare(c) ==
  /\ calls = 0 \/ repeatable
  /\ ready' = ready \union {c}
  /\ UNCHANGED <<consent, expired, calls, repeatable, answered, reported>>

Withdraw(c) ==
  /\ ready' = ready \ {c}
  /\ UNCHANGED <<consent, expired, calls, repeatable, answered, reported>>

\* Callers that got ready side by side may all call, each of them once.
Call(c) ==
  /\ consent
  /\ calls < MaxCalls
  /\ c \in ready
  /\ ready' = ready \ {c}
  /\ calls' = calls + 1
  /\ UNCHANGED <<consent, expired, repeatable, answered, reported>>

\* The server answers, or an operator finds that it did.
Answer ==
  /\ calls > 0
  /\ answered' = TRUE
  /\ UNCHANGED <<consent, expired, ready, calls, repeatable, reported>>

\* A report of success may be withdrawn, but not made up.
Report ==
  /\ reported' \in {FALSE, answered}
  /\ UNCHANGED <<consent, expired, ready, calls, repeatable, answered>>

Next ==
  \/ Approve \/ Expire \/ Answer \/ Report
  \/ \E c \in Caller : Prepare(c) \/ Withdraw(c) \/ Call(c)

Spec == Init /\ [][Next]_consentVars
=============================================================================
