----------------------------- MODULE MCBackend -----------------------------
(***************************************************************************)
(* Instances for TLC of two components that must come to an end of what    *)
(* they do, the graph of a repair run and the start of the backends: they  *)
(* share no state, and a behaviour is one of a single component.           *)
(***************************************************************************)
EXTENDS RepairRun, SchemaStartup

VARIABLE part    \* the component that moves

backendVars == <<part, vars, schemaVars>>

\* A component that does not move starts anywhere it may; one such state is enough.
BackendInit ==
  /\ part \in {"repair", "schema"}
  /\ Init /\ SchemaInit
  /\ part # "schema" => schema = [version |-> Unversioned, holds |-> {"core"}]

BackendNext ==
  \/ part = "repair" /\ Next /\ UNCHANGED <<part, schemaVars>>
  \/ part = "schema" /\ SchemaNext /\ UNCHANGED <<part, vars>>

\* The fairness of FairSpec and of SchemaSpec, of the component that moves.
BackendFairness ==
  /\ \A w \in Worker : WF_vars(part = "repair" /\ (Node(w) \/ Raise(w)))
  /\ \A p \in Backend : WF_schemaVars(part = "schema" /\ StartUp(p))

BackendSpec == BackendInit /\ [][BackendNext]_backendVars /\ BackendFairness
=============================================================================
