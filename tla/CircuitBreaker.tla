--------------------------- MODULE CircuitBreaker ---------------------------
(***************************************************************************)
(* The circuit of one MCP server (services/mcp_operations_service.py), its  *)
(* row shared by all workers.  Every operation locks and reads the row anew *)
(* and commits once, so it is one action; what interleaves is the remote    *)
(* call between before_execution and the record of its transport outcome.   *)
(* The version an administrator names is checked under the same lock: a     *)
(* conflict changes nothing and is not an action.                           *)
(***************************************************************************)
EXTENDS Naturals, FiniteSets

CONSTANTS
  Attempt,    \* slots for calls in flight
  Execution,  \* ledger executions that address this server
  None,       \* no trial, no call
  Threshold,  \* settings.mcp_circuit_failure_threshold
  MaxFailures \* bound on the failures counted in a row

VARIABLES
  circuit,   \* circuit_state
  failures,  \* consecutive_failures
  manual,    \* manual_open
  cooling,   \* cooldown_until lies in the future
  trial,     \* half_open_trial_id
  leased,    \* executions whose half-open lease has not run out
  flight     \* each attempt: None, or the execution and how it was admitted

circuitVars == <<circuit, failures, manual, cooling, trial, leased, flight>>

Kind == {"normal", "trial"}

ASSUME CircuitAssumption ==
  /\ Threshold \in Nat \ {0} /\ MaxFailures \in Nat
  /\ None \notin Execution \union [exec : Execution, kind : Kind]

CircuitInit ==
  /\ circuit = "closed" /\ failures = 0
  /\ manual = FALSE /\ cooling = FALSE
  /\ trial = None /\ leased = {}
  /\ flight = [a \in Attempt |-> None]

-----------------------------------------------------------------------------
(* before_execution *)
Depart(a, e, kind) ==
  /\ flight[a] = None
  /\ flight' = [flight EXCEPT ![a] = [exec |-> e, kind |-> kind]]

AdmitClosed(a, e) ==
  /\ circuit = "closed"
  /\ Depart(a, e, "normal")
  /\ UNCHANGED <<circuit, failures, manual, cooling, trial, leased>>

\* Another execution holds the trial and its lease has not run out.
TrialTakenIgnored(e) == FALSE  \* faulty variants come before what they replace
TrialTaken(e) == trial \notin {None, e} /\ trial \in leased

CooledDownManualIgnored == ~cooling
CooledDown == ~manual /\ ~cooling

AdmitTrial(a, e) ==
  /\ \/ circuit = "open" /\ CooledDown
     \/ circuit = "half_open" /\ ~TrialTaken(e)
  /\ Depart(a, e, "trial")
  /\ circuit' = "half_open"
  /\ trial' = e
  /\ leased' = leased \union {e}
  /\ UNCHANGED <<failures, manual, cooling>>

\* A rejected call gets a "circuit open" result and never leaves.

-----------------------------------------------------------------------------
(* The outcome of a call, a probe, an administrator *)
CloseUnlessManual ==
  IF manual THEN UNCHANGED <<circuit, cooling, trial>>
            ELSE circuit' = "closed" /\ cooling' = FALSE /\ trial' = None

\* Success of a call or of a probe.
Success ==
  /\ failures' = 0
  /\ CloseUnlessManual
  /\ UNCHANGED <<manual, leased>>

TripsAbove(count) == count > Threshold
Trips(count) == circuit = "half_open" \/ count >= Threshold

\* A transport failure or a failed probe.
Failure ==
  /\ failures' = failures + 1
  /\ IF Trips(failures') /\ ~manual
       THEN circuit' = "open" /\ cooling' = TRUE /\ trial' = None
       ELSE UNCHANGED <<circuit, cooling, trial>>
  /\ UNCHANGED <<manual, leased>>

Return(a) == flight[a] # None /\ flight' = [flight EXCEPT ![a] = None]

CallSucceeds(a) == Return(a) /\ Success
CallFails(a) == Return(a) /\ failures < MaxFailures /\ Failure
ProbeSucceeds == Success /\ UNCHANGED flight
ProbeFails == failures < MaxFailures /\ Failure /\ UNCHANGED flight

\* The worker died: nobody records the outcome of the call.
CallerCrash(a) ==
  /\ Return(a)
  /\ UNCHANGED <<circuit, failures, manual, cooling, trial, leased>>

OpenManually ==
  /\ circuit' = "open" /\ manual' = TRUE
  /\ cooling' = FALSE /\ trial' = None
  /\ UNCHANGED <<failures, leased, flight>>

Closed == circuit' = "closed"

\* "close" and "reset" differ only in the statistics.
CloseManually ==
  /\ Closed /\ failures' = 0 /\ manual' = FALSE
  /\ cooling' = FALSE /\ trial' = None
  /\ UNCHANGED <<leased, flight>>

-----------------------------------------------------------------------------
(* Time.  A cooldown starts when the circuit opens and is at least as long  *)
(* as a half-open lease (60 and 30 seconds by default), so a lease granted  *)
(* before the circuit opened has run out when the cooldown is over.         *)
CooldownEnds ==
  /\ cooling /\ leased = {}
  /\ cooling' = FALSE
  /\ UNCHANGED <<circuit, failures, manual, trial, leased, flight>>

LeaseEnds(e) ==
  /\ e \in leased
  /\ leased' = leased \ {e}
  /\ UNCHANGED <<circuit, failures, manual, cooling, trial, flight>>

CircuitNext ==
  \/ \E a \in Attempt, e \in Execution : AdmitClosed(a, e) \/ AdmitTrial(a, e)
  \/ \E a \in Attempt : CallSucceeds(a) \/ CallFails(a) \/ CallerCrash(a)
  \/ ProbeSucceeds \/ ProbeFails \/ OpenManually \/ CloseManually
  \/ CooldownEnds
  \/ \E e \in Execution : LeaseEnds(e)

CircuitSpec == CircuitInit /\ [][CircuitNext]_circuitVars

-----------------------------------------------------------------------------
\* The types of the circuit's columns and of the calls in flight.
CircuitTypeOK ==
  /\ circuit \in {"closed", "open", "half_open"}
  /\ failures \in Nat
  /\ manual \in BOOLEAN /\ cooling \in BOOLEAN
  /\ trial \in Execution \union {None}
  /\ leased \subseteq Execution
  /\ flight \in [Attempt -> [exec : Execution, kind : Kind] \union {None}]

\* "The half-open state allows one leased trial": two executions are never on
\* trial at once with their leases running, whatever late outcomes of older
\* calls, probes and administrators did to the circuit in between.
Trying == {e \in leased : \E a \in Attempt : flight[a] = [exec |-> e, kind |-> "trial"]}
OneLeasedTrial == Cardinality(Trying) <= 1

\* A circuit that an administrator opened is open until an administrator closes
\* it: no cooldown, probe, trial or late answer of an older call closes it.
ManualIsOpen == manual => circuit = "open" /\ trial = None

\* A closed circuit has seen fewer failures in a row than the threshold.
ClosedIsHealthy == circuit = "closed" => failures < Threshold
=============================================================================
