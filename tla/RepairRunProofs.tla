-------------------------- MODULE RepairRunProofs --------------------------
(***************************************************************************)
(* Proofs about one repair run: for any diffs, budgets, rounds and tries,  *)
(* and for any crash, retry and resumption between its nodes.  The graph    *)
(* state lives in many places (memory, checkpoint, approval, ledger), each  *)
(* with the node it is for; the invariants are about such pairs.            *)
(***************************************************************************)
EXTENDS RepairRun, FiniteSetTheorems, TLAPS

\* The nodes that work on the repository as it was indexed.
Investigating ==
  {"Reproduce", "Plan", "Execute", "PlanMCP", "Asked", "CallMCP", "Calling", "Observe",
   "Generate", "Apply"}
Calls == {"CallMCP", "Calling"}
Untested == {"Apply", "Targeted"}

Running == Place \union {"idle", "Asked", "Calling"}
LedgerStatus == {"none", "prepared", "executing", "unknown", "settled"}

-----------------------------------------------------------------------------
(* A graph state that a node may start from: inside the budgets, and with a *)
(* diff for every iteration.                                                *)

Pending(place) == IF place \in Untested THEN 1 ELSE 0

Fits(place, st) ==
  /\ st \in State
  /\ place \in Investigating \union {"Targeted", "Reflect"} => st.iterations < MaxIterations
  /\ place \in Calls => st.rounds < MaxRounds
  /\ IsFiniteSet(st.tried)
  /\ st.iterations + Pending(place) <= Cardinality(st.tried)

\* Every graph state that is kept anywhere fits the node that will get it.
RunInv ==
  /\ run \in Terminal \union Waiting \union {"pending", "running"}
  /\ final = Nothing \/ final \in State
  /\ owed \in BOOLEAN /\ tries \in 0..MaxTries /\ resumes \in 0..MaxResumes
  /\ ws = Nothing \/ ws \subseteq Patch
  /\ saved \in [next : Place \union {"none"}, st : State]
  /\ Fits(saved.next, saved.st)
  /\ approval \in [open : BOOLEAN, st : State]
  /\ approval.open => Fits("CallMCP", approval.st)
  /\ execs \in [1..MaxRounds -> [status : LedgerStatus, st : State]]
  /\ \A r \in 1..MaxRounds : execs[r].status # "none" => Fits("CallMCP", execs[r].st)
  /\ node \in [Worker -> Running] /\ job \in [Worker -> {"run", "resume"}]
  /\ mem \in [Worker -> State]
  /\ \A w \in Worker : Fits(node[w], mem[w])

-----------------------------------------------------------------------------
(* A graph state and a workspace that belong together.  One worker runs the *)
(* run, and `git reset' and `git clean' do what they are asked.             *)

Alone == (\A v, w \in Worker : v = w) /\ ResetResults \subseteq {TRUE}

\* What the evidence in a graph state says of the patch in it.
Vouched(place, st) ==
  /\ st.base # "not_run" => st.baseOn = {}
  /\ place \in Investigating \union {"Targeted", "Reflect"} => st.regression # "passed"
  /\ place \in {"Targeted", "Regression"} /\ st.apply = "ok" => st.patch \in Patch
  /\ place = "Regression" =>
       st.apply = "ok" /\ st.targeted = "passed" /\ st.targetedOn = {st.patch}
  /\ place = "Final" /\ st.regression = "passed" =>
       /\ st.apply = "ok" /\ st.patch \in Patch /\ st.targeted = "passed"
       /\ st.targetedOn = {st.patch} /\ st.regressionOn = {st.patch}
  /\ place = "End" /\ st.status = "verified_success" => Shipped(st)

\* The workspace that a node finds.
Tree(place, st, tree) ==
  /\ place \in Investigating => tree = {}
  /\ place \in {"Targeted", "Regression"} => tree = IF st.apply = "ok" THEN {st.patch} ELSE {}
  /\ place = "Final" /\ st.regression = "passed" => tree = {st.patch}

TreeInv ==
  /\ Vouched(saved.next, saved.st)
  /\ approval.open => Vouched("CallMCP", approval.st)
  /\ \A r \in 1..MaxRounds : execs[r].status # "none" => Vouched("CallMCP", execs[r].st)
  /\ \A w \in Worker : Vouched(node[w], mem[w]) /\ Tree(node[w], mem[w], ws)
  /\ VerifiedAsShipped

-----------------------------------------------------------------------------
(* Evidence and graph states.                                              *)

\* Whatever a test command does, it is classified; a patch that did not apply ran no test.
LEMMA Outcomes ==
  /\ TestOutcome \subseteq {"infra_error", "skipped", "failed", "passed"}
  /\ NotApplied \in TestOutcome
  <1>1. \A r : Classify(r) \in {"infra_error", "skipped", "failed", "passed"}
    BY DEF Classify
  <1>2. NotApplied = "infra_error"
    BY DEF NotApplied, Classify
  <1> DEFINE r == [passed |-> FALSE, exit |-> 124, ran |-> FALSE, timedOut |-> TRUE,
                   skipped |-> FALSE, kind |-> "infrastructure"]
  <1>3. r \in RawResult
    BY DEF RawResult, Kind
  <1>4. Classify(Normalized(r)) = "infra_error"
    BY DEF Classify, Normalized
  <1> QED BY <1>1, <1>2, <1>3, <1>4 DEF TestOutcome

\* The verdict is always a terminal status, and verified only with all the evidence.
LEMMA Verdicts ==
  ASSUME NEW st \in State
  PROVE  /\ Verdict(st) \in Terminal
         /\ Verdict(st) = "verified_success" => EvidenceIsComplete(st)
  <1>1. /\ st.base \in {"infra_error", "skipped", "failed", "passed", "not_run"}
        /\ st.targeted \in {"infra_error", "skipped", "failed", "passed", "not_run"}
        /\ st.regression \in {"infra_error", "skipped", "failed", "passed", "not_run"}
    BY Outcomes DEF State
  <1>2. CASE st.base \in {"infra_error", "passed"}
    BY <1>2 DEF Verdict, Terminal
  <1>3. CASE st.base \notin {"infra_error", "passed"} /\ st.apply # "ok"
    BY <1>3 DEF Verdict, Terminal
  <1>4. CASE st.base \notin {"infra_error", "passed"} /\ st.apply = "ok" /\ st.targeted # "passed"
    BY <1>1, <1>4 DEF Verdict, Terminal
  <1>5. CASE st.base \notin {"infra_error", "passed"} /\ st.apply = "ok" /\ st.targeted = "passed"
    BY <1>1, <1>5 DEF Verdict, Terminal, EvidenceIsComplete
  <1> QED BY <1>2, <1>3, <1>4, <1>5

LEMMA Initials ==
  /\ InitialState \in State
  /\ \A place : place \notin Calls \union Untested => Fits(place, InitialState)
  <1>1. /\ MaxIterations \in Nat \ {0} /\ MaxPlannerCalls \in Nat /\ MaxToolCalls \in Nat
        /\ MaxIdle \in Nat /\ MaxRounds \in Nat
    BY RepairAssumption
  <1>2. InitialState \in State
    BY <1>1 DEF InitialState, State
  <1>3. IsFiniteSet({}) /\ Cardinality({}) = 0
    BY FS_EmptySet
  <1>4. InitialState.tried = {} /\ InitialState.iterations = 0
    BY DEF InitialState
  <1> HIDE DEF InitialState
  <1> QED BY <1>1, <1>2, <1>3, <1>4 DEF Fits, Pending

\* What a graph state is made of.
LEMMA StateFields ==
  ASSUME NEW st \in State
  PROVE  /\ st.iterations \in Nat /\ st.calls \in Nat /\ st.tools \in Nat /\ st.idle \in Nat
         /\ st.rounds \in Nat /\ st.tried \subseteq Patch \union {Nothing}
         /\ st.iterations <= MaxIterations /\ st.rounds <= MaxRounds
  BY RepairAssumption DEF State

\* A move that adds no iteration and no diff, to a node that asks for no more.
LEMMA FitsOn ==
  ASSUME NEW from, NEW next, NEW st, NEW t, Fits(from, st), t \in State,
         t.tried = st.tried, t.iterations = st.iterations,
         next \in Calls => t.rounds < MaxRounds,
         next \in Untested => from \in Untested,
         \/ from \in Investigating \union {"Targeted", "Reflect"}
         \/ next \notin Investigating \union {"Targeted", "Reflect"}
  PROVE  Fits(next, t)
  <1>1. st.iterations \in Nat /\ Cardinality(st.tried) \in Nat
    BY StateFields, FS_CardinalityType DEF Fits
  <1>2. Pending(next) <= Pending(from) /\ Pending(next) \in Nat /\ Pending(from) \in Nat
    BY DEF Pending
  <1>3. st.iterations + Pending(next) <= Cardinality(st.tried)
    BY <1>1, <1>2 DEF Fits
  <1> QED BY <1>3 DEF Fits

-----------------------------------------------------------------------------
(* The places where a graph state is kept.                                 *)

PairsFit ==
  /\ node \in [Worker -> Running] /\ mem \in [Worker -> State]
  /\ \A w \in Worker : Fits(node[w], mem[w])

SavedFits == saved \in [next : Place \union {"none"}, st : State] /\ Fits(saved.next, saved.st)

LEMMA GotoFits ==
  ASSUME RunInv, NEW w \in Worker, NEW next \in Running, NEW st, Fits(next, st), Goto(w, next, st)
  PROVE  PairsFit'
  <1>1. node \in [Worker -> Running] /\ mem \in [Worker -> State] /\ st \in State
    BY DEF RunInv, Fits
  <1>2. node' = [node EXCEPT ![w] = next] /\ mem' = [mem EXCEPT ![w] = st]
    BY DEF Goto
  <1>3. /\ node' \in [Worker -> Running] /\ mem' \in [Worker -> State]
        /\ \A v \in Worker : IF v = w THEN node'[v] = next /\ mem'[v] = st
                                      ELSE node'[v] = node[v] /\ mem'[v] = mem[v]
    BY <1>1, <1>2
  <1>4. ASSUME NEW v \in Worker PROVE Fits(node'[v], mem'[v])
    <2>1. CASE v = w
      BY <1>3, <2>1
    <2>2. CASE v # w
      BY <1>3, <2>2 DEF RunInv
    <2> QED BY <2>1, <2>2
  <1> QED BY <1>3, <1>4 DEF PairsFit

LEMMA IdleFits ==
  ASSUME RunInv, NEW w \in Worker, Idle(w)
  PROVE  PairsFit'
  <1>1. "idle" \in Running /\ "idle" \notin Calls \union Untested
    BY DEF Running, Calls, Untested
  <1>2. Goto(w, "idle", InitialState)
    BY DEF Idle, Goto
  <1> QED BY <1>1, <1>2, Initials, GotoFits

LEMMA StepFits ==
  ASSUME RunInv, NEW w \in Worker, NEW from, NEW next \in Place, NEW st, Step(w, from, next, st),
         Fits(next, st)
  PROVE  PairsFit' /\ SavedFits'
  <1>1. PairsFit'
    BY GotoFits DEF Step, Running
  <1>2. saved' = saved \/ saved' = [next |-> next, st |-> st]
    BY DEF Step
  <1>3. SavedFits /\ [next |-> next, st |-> st] \in [next : Place \union {"none"}, st : State]
    BY DEF RunInv, SavedFits, Fits
  <1>4. SavedFits'
    BY <1>2, <1>3 DEF SavedFits
  <1> QED BY <1>1, <1>4

\* Most nodes change the graph state and the checkpoint, and at most the workspace.
LEMMA NodeKeeps ==
  ASSUME RunInv, PairsFit', SavedFits', ws' = Nothing \/ ws' \subseteq Patch,
         UNCHANGED <<run, final, queueVars, mcpVars, job>>
  PROVE  RunInv'
  BY DEF RunInv, PairsFit, SavedFits, queueVars, mcpVars

\* One field, or a few of them, change their value within their type.
LEMMA FieldsMove ==
  ASSUME NEW st \in State
  PROVE  /\ \A o \in TestOutcome, tree \in SUBSET Patch :
              /\ [st EXCEPT !.base = o, !.baseOn = tree] \in State
              /\ [st EXCEPT !.regression = o, !.regressionOn = tree] \in State
         /\ \A a \in {"finish", "generate", "tool"} :
              [st EXCEPT !.action = a, !.calls = Count(@, MaxPlannerCalls)] \in State
         /\ \A b \in BOOLEAN : [st EXCEPT !.stop = b] \in State
         /\ \A s \in Terminal \union Waiting : [st EXCEPT !.status = s] \in State
         /\ \A a \in {"ok", "no"} : [st EXCEPT !.apply = a] \in State
         /\ [st EXCEPT !.patch = Nothing, !.apply = "no"] \in State
         /\ st.rounds < MaxRounds => [st EXCEPT !.rounds = @ + 1] \in State
         /\ \A tree \in SUBSET Patch, s \in Terminal :
              [st EXCEPT !.diff = tree, !.status = s] \in State
         /\ \A p \in Patch \union {Nothing, Unset}, a \in {Unset, "ok", "no"} :
              [st EXCEPT !.patch = p, !.apply = a] \in State
  <1>1. /\ MaxPlannerCalls \in Nat /\ MaxRounds \in Nat
        /\ st.calls \in 0..(MaxPlannerCalls + 1) /\ st.rounds \in 0..MaxRounds
    BY RepairAssumption DEF State
  <1>2. \A a \in {"finish", "generate", "tool"}, n \in 0..(MaxPlannerCalls + 1) :
          [st EXCEPT !.action = a, !.calls = n] \in State
    BY DEF State
  <1>3. Count(st.calls, MaxPlannerCalls) \in 0..(MaxPlannerCalls + 1)
    BY <1>1 DEF Count
  <1>4. \A n \in 0..MaxRounds : [st EXCEPT !.rounds = n] \in State
    BY DEF State
  <1>5. st.rounds < MaxRounds => st.rounds + 1 \in 0..MaxRounds
    BY <1>1
  <1>6. \A o \in TestOutcome, tree \in SUBSET Patch :
          [st EXCEPT !.base = o, !.baseOn = tree] \in State
    BY DEF State
  <1>15. \A o \in TestOutcome, tree \in SUBSET Patch :
           [st EXCEPT !.regression = o, !.regressionOn = tree] \in State
    BY DEF State
  <1>7. \A b \in BOOLEAN : [st EXCEPT !.stop = b] \in State
    BY DEF State
  <1>12. \A s \in Terminal \union Waiting : [st EXCEPT !.status = s] \in State
    BY DEF State
  <1>13. \A a \in {"ok", "no"} : [st EXCEPT !.apply = a] \in State
    BY DEF State
  <1>14. [st EXCEPT !.patch = Nothing, !.apply = "no"] \in State
    BY DEF State
  <1>8. \A tree \in SUBSET Patch, s \in Terminal :
          [st EXCEPT !.diff = tree, !.status = s] \in State
    BY DEF State
  <1>11. \A p \in Patch \union {Nothing, Unset}, a \in {Unset, "ok", "no"} :
           [st EXCEPT !.patch = p, !.apply = a] \in State
    BY DEF State
  <1>9. \A a \in {"finish", "generate", "tool"} :
          [st EXCEPT !.action = a, !.calls = Count(@, MaxPlannerCalls)] \in State
    BY <1>2, <1>3
  <1>10. st.rounds < MaxRounds => [st EXCEPT !.rounds = @ + 1] \in State
    BY <1>4, <1>5
  <1> QED BY <1>6, <1>7, <1>8, <1>9, <1>10, <1>11, <1>12, <1>13, <1>14, <1>15

\* What the agent loop reads of the evidence, and does not write.
SameEvidence(t, st) ==
  /\ t.tried = st.tried /\ t.iterations = st.iterations
  /\ t.base = st.base /\ t.baseOn = st.baseOn /\ t.regression = st.regression

\* What a step of the agent loop may leave: its counters stay inside the budgets.
LEMMA ObservationsFit ==
  ASSUME NEW st \in State, NEW t \in Observed(st)
  PROVE  t \in State /\ SameEvidence(t, st)
  <1>1. MaxIdle \in Nat /\ MaxToolCalls \in Nat /\ st.tools \in 0..MaxToolCalls
    BY RepairAssumption DEF State
  <1>2. ASSUME NEW x \in State
        PROVE  Stall(x) \in State /\ SameEvidence(Stall(x), x)
    <2>1. x.idle \in 0..(MaxIdle + 1)
      BY <1>1 DEF State
    <2>2. Count(x.idle, MaxIdle) \in 0..(MaxIdle + 1) /\ (x.idle + 1 >= MaxIdle) \in BOOLEAN
      BY <1>1, <2>1 DEF Count
    <2>3. \A n \in 0..(MaxIdle + 1), b \in BOOLEAN : [x EXCEPT !.idle = n, !.stop = b] \in State
      BY DEF State
    <2>4. \A n, b : SameEvidence([x EXCEPT !.idle = n, !.stop = b], x)
      BY DEF State, SameEvidence
    <2> QED BY <2>2, <2>3, <2>4 DEF Stall
  <1>3. CASE st.tools >= MaxToolCalls
    <2>1. t = Stall(st) \/ t = [st EXCEPT !.stop = TRUE]
      BY <1>3 DEF Observed
    <2>2. /\ [st EXCEPT !.stop = TRUE] \in State
          /\ SameEvidence([st EXCEPT !.stop = TRUE], st)
      BY DEF State, SameEvidence
    <2> QED BY <1>2, <2>1, <2>2
  <1>4. CASE ~(st.tools >= MaxToolCalls)
    <2> DEFINE u == [st EXCEPT !.tools = @ + 1]
               v == [st EXCEPT !.tools = @ + 1, !.idle = 0, !.stop = FALSE]
    <2>1. st.tools + 1 \in 0..MaxToolCalls /\ 0 \in 0..(MaxIdle + 1)
      BY <1>1, <1>4
    <2>2. u \in State /\ SameEvidence(u, st)
      BY <2>1 DEF State, SameEvidence
    <2>3. v \in State /\ SameEvidence(v, st)
      BY <2>1 DEF State, SameEvidence
    <2>4. t = Stall(st) \/ t = Stall(u) \/ t = v
      BY <1>4 DEF Observed
    <2> HIDE DEF u, v
    <2> QED BY <1>2, <2>2, <2>3, <2>4 DEF SameEvidence
  <1> QED BY <1>3, <1>4

-----------------------------------------------------------------------------
(* The nodes of the graph keep the run's types and budgets.                *)

\* The graph state of a node, and what the node's budget leaves it.
LEMMA AtNode ==
  ASSUME RunInv, NEW w \in Worker
  PROVE  /\ mem[w] \in State /\ Fits(node[w], mem[w])
         /\ ws = Nothing \/ ws \subseteq Patch
  BY DEF RunInv

\* Reproduction, planning, investigation and the rounds that call nothing.
LEMMA InvestigationFits ==
  ASSUME RunInv, NEW w \in Worker,
         Reproduce(w) \/ Plan(w) \/ Execute(w) \/ SkipMCP(w) \/ PlanCall(w) \/ Observe(w)
           \/ PauseForApproval(w)
  PROVE  RunInv'
  <1> DEFINE m == mem[w]
  <1>1. m \in State /\ Fits(node[w], m) /\ (ws = Nothing \/ ws \subseteq Patch)
    BY AtNode
  <1>2. UNCHANGED <<run, final, queueVars, mcpVars, job, ws>>
    BY DEF Reproduce, Plan, Execute, SkipMCP, PlanCall, Observe, PauseForApproval
  <1>3. ASSUME NEW from, NEW next \in Place, NEW st, Step(w, from, next, st), st \in State,
               st.tried = m.tried, st.iterations = m.iterations,
               from \in Investigating, next \notin Untested,
               next \in Calls => st.rounds < MaxRounds
        PROVE  RunInv'
    <2>1. node[w] = from
      BY <1>3 DEF Step
    <2>2. Fits(next, st)
      BY <1>1, <1>3, <2>1, FitsOn
    <2>3. PairsFit' /\ SavedFits'
      BY <1>3, <2>2, StepFits
    <2> QED BY <1>1, <1>2, <2>3, NodeKeeps
  <1>4. CASE Reproduce(w)
    <2>1. PICK outcome \in TestOutcome :
            /\ HasWorkspace
            /\ Step(w, "Reproduce", IF outcome \in {"passed", "infra_error"} THEN "Final" ELSE "Plan",
                    [m EXCEPT !.base = outcome, !.baseOn = ws])
      BY <1>4 DEF Reproduce
    <2>2. ws \in SUBSET Patch
      BY <1>1, <2>1 DEF HasWorkspace
    <2> DEFINE st == [m EXCEPT !.base = outcome, !.baseOn = ws]
    <2>3. st \in State
      BY <1>1, <2>2, FieldsMove
    <2>4. st.tried = m.tried /\ st.iterations = m.iterations
      BY <1>1 DEF State
    <2> HIDE DEF st
    <2>5. PICK next \in {"Final", "Plan"} : Step(w, "Reproduce", next, st)
      BY <2>1 DEF st
    <2> QED BY <1>3, <2>3, <2>4, <2>5 DEF Place, Investigating, Untested, Calls
  <1>5. CASE Plan(w)
    <2>1. PICK action \in {"finish", "generate", "tool"} :
            Step(w, "Plan", "Execute",
                 [m EXCEPT !.action = action, !.calls = Count(@, MaxPlannerCalls)])
      BY <1>5 DEF Plan
    <2> DEFINE st == [m EXCEPT !.action = action, !.calls = Count(@, MaxPlannerCalls)]
    <2>2. st \in State
      BY <1>1, FieldsMove
    <2>3. st.tried = m.tried /\ st.iterations = m.iterations
      BY <1>1 DEF State
    <2> HIDE DEF st
    <2>4. Step(w, "Plan", "Execute", st)
      BY <2>1 DEF st
    <2> QED BY <1>3, <2>2, <2>3, <2>4 DEF Place, Investigating, Untested, Calls
  <1>6. CASE Execute(w)
    <2>1. ASSUME NEW b \in BOOLEAN
          PROVE  /\ [m EXCEPT !.stop = b] \in State /\ [m EXCEPT !.stop = b].tried = m.tried
                 /\ [m EXCEPT !.stop = b].iterations = m.iterations
      <3>1. [m EXCEPT !.stop = b] \in State
        BY <1>1, FieldsMove
      <3> QED BY <1>1, <3>1 DEF State
    <2>2. CASE Step(w, "Execute", "Final", [m EXCEPT !.stop = TRUE])
      BY <1>3, <2>1, <2>2 DEF Place, Investigating, Untested, Calls
    <2>3. CASE Step(w, "Execute", "PlanMCP", [m EXCEPT !.stop = FALSE])
      BY <1>3, <2>1, <2>3 DEF Place, Investigating, Untested, Calls
    <2>4. ASSUME NEW st \in Observed(m), Step(w, "Execute", IF st.stop THEN "Final" ELSE "Plan", st)
          PROVE  RunInv'
      <3>1. st \in State /\ st.tried = m.tried /\ st.iterations = m.iterations
        BY <1>1, ObservationsFit DEF SameEvidence
      <3>2. PICK next \in {"Final", "Plan"} : Step(w, "Execute", next, st)
        BY <2>4
      <3> QED BY <1>3, <3>1, <3>2 DEF Place, Investigating, Untested, Calls
    <2> QED BY <1>6, <2>2, <2>3, <2>4 DEF Execute
  <1>7. CASE SkipMCP(w) \/ PlanCall(w) \/ Observe(w)
    <2>1. PICK from \in {"PlanMCP", "Observe"}, next \in {"Generate", "CallMCP", "PlanMCP"} :
            /\ Step(w, from, next, m)
            /\ next = "CallMCP" => m.rounds < MaxRounds
      BY <1>7 DEF SkipMCP, PlanCall, Observe
    <2> QED BY <1>1, <1>3, <2>1 DEF Place, Investigating, Untested, Calls
  <1>8. CASE PauseForApproval(w)
    <2> DEFINE st == [m EXCEPT !.status = "waiting_approval"]
    <2>1. st \in State
      BY <1>1, FieldsMove DEF Waiting
    <2>2. st.tried = m.tried /\ st.iterations = m.iterations
      BY <1>1 DEF State
    <2>3. Step(w, "Asked", "End", st)
      BY <1>8 DEF PauseForApproval
    <2> HIDE DEF st
    <2> QED BY <1>3, <2>1, <2>2, <2>3 DEF Place, Investigating, Untested, Calls
  <1> QED BY <1>4, <1>5, <1>6, <1>7, <1>8

\* The parts of the run that MCP calls share with other workers.
McpFits ==
  /\ run \in Terminal \union Waiting \union {"pending", "running"}
  /\ approval \in [open : BOOLEAN, st : State]
  /\ approval.open => Fits("CallMCP", approval.st)
  /\ execs \in [1..MaxRounds -> [status : LedgerStatus, st : State]]
  /\ \A r \in 1..MaxRounds : execs[r].status # "none" => Fits("CallMCP", execs[r].st)
  /\ resumes \in 0..MaxResumes

LEMMA McpKeeps ==
  ASSUME RunInv, PairsFit', SavedFits', McpFits',
         ws' = Nothing \/ ws' \subseteq Patch, job' \in [Worker -> {"run", "resume"}],
         UNCHANGED <<final, queueVars>>
  PROVE  RunInv'
  BY DEF RunInv, PairsFit, SavedFits, McpFits, queueVars

\* The ledger row of a round after a change of its status, with its checkpoint kept.
LEMMA LedgerMove ==
  ASSUME RunInv, NEW r \in 1..MaxRounds, NEW s \in LedgerStatus,
         execs[r].status # "none", execs' = [execs EXCEPT ![r].status = s]
  PROVE  /\ execs' \in [1..MaxRounds -> [status : LedgerStatus, st : State]]
         /\ \A q \in 1..MaxRounds : execs'[q].status # "none" => Fits("CallMCP", execs'[q].st)
  <1>1. /\ execs \in [1..MaxRounds -> [status : LedgerStatus, st : State]]
        /\ \A q \in 1..MaxRounds : execs[q].status # "none" => Fits("CallMCP", execs[q].st)
    BY DEF RunInv
  <1>2. execs' \in [1..MaxRounds -> [status : LedgerStatus, st : State]]
    BY <1>1
  <1>3. \A q \in 1..MaxRounds :
          /\ execs'[q].st = execs[q].st
          /\ execs'[q].status # "none" => execs[q].status # "none"
    BY <1>1
  <1> QED BY <1>1, <1>2, <1>3

\* A worker at a call is inside the round's budget.
LEMMA AtCall ==
  ASSUME RunInv, NEW w \in Worker, node[w] \in Calls
  PROVE  /\ Round(w) \in 1..MaxRounds /\ Called(w) \in State /\ Fits("Observe", Called(w))
         /\ Paused(w) \in State /\ Fits("End", Paused(w))
  <1> DEFINE m == mem[w]
  <1>1. m \in State /\ Fits(node[w], m) /\ m.rounds < MaxRounds
    BY AtNode DEF Fits
  <1>2. MaxRounds \in Nat /\ m.rounds \in 0..MaxRounds
    BY <1>1, RepairAssumption DEF State
  <1>3. Round(w) \in 1..MaxRounds
    BY <1>1, <1>2 DEF Round
  <1>4. Called(w) \in State /\ Called(w).tried = m.tried /\ Called(w).iterations = m.iterations
    <2>1. Called(w) \in State
      BY <1>1, FieldsMove DEF Called
    <2> QED BY <1>1, <2>1 DEF Called, State
  <1>5. Paused(w) \in State /\ Paused(w).tried = m.tried /\ Paused(w).iterations = m.iterations
    <2>1. Paused(w) \in State
      BY <1>1, FieldsMove DEF Paused, Waiting
    <2> QED BY <1>1, <2>1 DEF Paused, State
  <1> QED
    BY <1>1, <1>3, <1>4, <1>5, FitsOn DEF Calls, Untested, Investigating

LEMMA CallsFit ==
  ASSUME RunInv, NEW w \in Worker,
         AskApproval(w) \/ BeginCall(w) \/ ReadCall(w) \/ CallInProgress(w) \/ CallUnknown(w)
           \/ EndCall(w) \/ LoseCall(w)
  PROVE  RunInv'
  <1> DEFINE m == mem[w]
  <1>1. /\ m \in State /\ Fits(node[w], m) /\ (ws = Nothing \/ ws \subseteq Patch)
        /\ McpFits /\ SavedFits /\ job \in [Worker -> {"run", "resume"}]
    BY AtNode DEF RunInv, McpFits, SavedFits
  <1>2. UNCHANGED <<final, queueVars, job, ws>>
    BY DEF AskApproval, BeginCall, ReadCall, CallInProgress, CallUnknown, EndCall, LoseCall
  <1>3. ASSUME PairsFit', SavedFits', McpFits' PROVE RunInv'
    BY <1>1, <1>2, <1>3, McpKeeps
  <1>4. MarkWaiting => run' \in Terminal \union Waiting \union {"pending", "running"}
    BY DEF MarkWaiting, Waiting
  <1>5. CASE AskApproval(w)
    <2>1. /\ node[w] = "PlanMCP" /\ m.rounds < MaxRounds /\ Goto(w, "Asked", m)
          /\ UNCHANGED <<saved, execs, resumes>>
      BY <1>5 DEF AskApproval
    <2>2. Fits("Asked", m) /\ Fits("CallMCP", m)
      BY <1>1, <2>1, FitsOn DEF Calls, Untested, Investigating
    <2>3. PairsFit'
      BY <2>1, <2>2, GotoFits DEF Running
    <2>4. McpFits'
      <3>1. CASE approval.open
        BY <1>1, <1>5, <2>1, <3>1 DEF AskApproval, McpFits
      <3>2. CASE ~approval.open
        <4>1. approval' = [open |-> TRUE, st |-> m] /\ run' = "waiting_approval"
          BY <1>5, <3>2 DEF AskApproval
        <4> QED BY <1>1, <2>1, <2>2, <4>1 DEF McpFits, Waiting
      <3> QED BY <3>1, <3>2
    <2>5. SavedFits'
      BY <1>1, <2>1 DEF SavedFits
    <2> QED BY <1>3, <2>3, <2>4, <2>5
  <1>6. CASE BeginCall(w)
    <2> DEFINE row == execs[Round(w)]
               new == [status |-> "executing", st |-> IF row.status = "none" THEN m ELSE row.st]
    <2>1. /\ node[w] = "CallMCP" /\ Goto(w, "Calling", m) /\ execs' = [execs EXCEPT ![Round(w)] = new]
          /\ UNCHANGED <<run, saved, approval, resumes>>
      BY <1>6 DEF BeginCall
    <2>2. Fits("CallMCP", m) /\ Fits("Calling", m)
      <3>1. m.rounds < MaxRounds
        BY <1>1, <2>1 DEF Fits, Calls
      <3> QED BY <1>1, <2>1, <3>1, FitsOn DEF Calls, Untested, Investigating
    <2>3. Round(w) \in 1..MaxRounds
      BY <2>1, AtCall DEF Calls
    <2>4. new \in [status : LedgerStatus, st : State] /\ Fits("CallMCP", new.st)
      <3>1. row.st \in State /\ (row.status # "none" => Fits("CallMCP", row.st))
        BY <1>1, <2>3 DEF McpFits
      <3> QED BY <1>1, <2>2, <3>1 DEF LedgerStatus
    <2>5. McpFits'
      <3> HIDE DEF new
      <3>1. \A q \in 1..MaxRounds : execs'[q] = IF q = Round(w) THEN new ELSE execs[q]
        BY <1>1, <2>1 DEF McpFits
      <3>2. execs' \in [1..MaxRounds -> [status : LedgerStatus, st : State]]
        BY <1>1, <2>1, <2>4 DEF McpFits
      <3> QED BY <1>1, <2>1, <2>4, <3>1, <3>2 DEF McpFits
    <2>6. PairsFit'
      BY <2>1, <2>2, GotoFits DEF Running
    <2>7. SavedFits'
      BY <1>1, <2>1 DEF SavedFits
    <2> QED BY <1>3, <2>5, <2>6, <2>7
  <1>7. CASE ReadCall(w)
    <2>1. Step(w, "CallMCP", "Observe", Called(w)) /\ UNCHANGED <<run, mcpVars>>
      BY <1>7 DEF ReadCall
    <2>2. node[w] \in Calls
      BY <2>1 DEF Step, Calls
    <2>3. PairsFit' /\ SavedFits'
      BY <2>1, <2>2, AtCall, StepFits DEF Place
    <2> QED BY <1>1, <1>3, <2>1, <2>3 DEF McpFits, mcpVars
  <1>8. CASE CallInProgress(w)
    <2>1. Step(w, "CallMCP", "End", Paused(w)) /\ UNCHANGED <<run, mcpVars>>
      BY <1>8 DEF CallInProgress
    <2>2. node[w] \in Calls
      BY <2>1 DEF Step, Calls
    <2>3. PairsFit' /\ SavedFits'
      BY <2>1, <2>2, AtCall, StepFits DEF Place
    <2> QED BY <1>1, <1>3, <2>1, <2>3 DEF McpFits, mcpVars
  <1>9. CASE CallUnknown(w)
    <2>1. /\ Step(w, "CallMCP", "End", Paused(w)) /\ MarkWaiting /\ UNCHANGED <<approval, resumes>>
          /\ execs[Round(w)].status \in {"executing", "unknown"}
          /\ execs' = [execs EXCEPT ![Round(w)].status = "unknown"]
      BY <1>9 DEF CallUnknown
    <2>2. node[w] \in Calls
      BY <2>1 DEF Step, Calls
    <2>3. PairsFit' /\ SavedFits'
      BY <2>1, <2>2, AtCall, StepFits DEF Place
    <2>4. Round(w) \in 1..MaxRounds /\ "unknown" \in LedgerStatus /\ execs[Round(w)].status # "none"
      BY <2>1, <2>2, AtCall DEF LedgerStatus
    <2>5. /\ execs' \in [1..MaxRounds -> [status : LedgerStatus, st : State]]
          /\ \A q \in 1..MaxRounds : execs'[q].status # "none" => Fits("CallMCP", execs'[q].st)
      BY <2>1, <2>4, LedgerMove
    <2> QED BY <1>1, <1>3, <1>4, <2>1, <2>3, <2>5 DEF McpFits
  <1>10. ASSUME NEW s \in {"settled", "unknown"}, NEW r \in 1..MaxRounds, Settle(r, s)
         PROVE  /\ execs' \in [1..MaxRounds -> [status : LedgerStatus, st : State]]
                /\ \A q \in 1..MaxRounds : execs'[q].status # "none" => Fits("CallMCP", execs'[q].st)
    <2> DEFINE to == IF execs[r].status = "executing" THEN s ELSE execs[r].status
    <2>1. execs' = [execs EXCEPT ![r].status = to] /\ to \in LedgerStatus
      BY <1>1, <1>10 DEF Settle, McpFits, LedgerStatus
    <2>2. to # "none" => execs[r].status # "none"
      OBVIOUS
    <2>3. CASE execs[r].status # "none"
      BY <2>1, <2>3, LedgerMove
    <2>4. CASE execs[r].status = "none"
      <3>1. execs' = execs
        BY <1>1, <2>1, <2>4 DEF McpFits
      <3> QED BY <1>1, <3>1 DEF McpFits
    <2> QED BY <2>3, <2>4
  <1>11. CASE EndCall(w)
    <2>1. /\ Step(w, "Calling", "Observe", Called(w)) /\ Settle(Round(w), "settled")
          /\ UNCHANGED <<run, approval, resumes>>
      BY <1>11 DEF EndCall
    <2>2. node[w] \in Calls
      BY <2>1 DEF Step, Calls
    <2>3. PairsFit' /\ SavedFits'
      BY <2>1, <2>2, AtCall, StepFits DEF Place
    <2>4. Round(w) \in 1..MaxRounds
      BY <2>2, AtCall
    <2> QED BY <1>1, <1>3, <1>10, <2>1, <2>3, <2>4 DEF McpFits
  <1>12. CASE LoseCall(w)
    <2>1. /\ Step(w, "Calling", "End", Paused(w)) /\ Settle(Round(w), "unknown") /\ MarkWaiting
          /\ UNCHANGED <<approval, resumes>>
      BY <1>12 DEF LoseCall
    <2>2. node[w] \in Calls
      BY <2>1 DEF Step, Calls
    <2>3. PairsFit' /\ SavedFits'
      BY <2>1, <2>2, AtCall, StepFits DEF Place
    <2>4. Round(w) \in 1..MaxRounds
      BY <2>2, AtCall
    <2> QED BY <1>1, <1>3, <1>4, <1>10, <2>1, <2>3, <2>4 DEF McpFits
  <1> QED BY <1>5, <1>6, <1>7, <1>8, <1>9, <1>11, <1>12

\* A diff that was not tried before pays for one more iteration.
LEMMA NewDiff ==
  ASSUME NEW st \in State, NEW p \in Patch \union {Nothing}, Fits("Generate", st), p \notin st.tried,
         NEW t \in State, t.tried = st.tried \union {p}, t.iterations = st.iterations
  PROVE  Fits("Apply", t)
  <1>1. /\ IsFiniteSet(st.tried) /\ st.iterations < MaxIterations
        /\ st.iterations \in Nat /\ st.iterations <= Cardinality(st.tried)
    BY StateFields DEF Fits, Investigating, Pending, Untested
  <1>2. /\ IsFiniteSet(t.tried) /\ Cardinality(t.tried) = Cardinality(st.tried) + 1
        /\ Cardinality(st.tried) \in Nat
    BY <1>1, FS_AddElement, FS_CardinalityType
  <1>3. t.iterations + 1 <= Cardinality(t.tried)
    BY <1>1, <1>2
  <1> QED BY <1>1, <1>2, <1>3 DEF Fits, Pending, Untested, Calls

\* The iteration that was paid for is counted.
LEMMA OneMore ==
  ASSUME NEW st \in State, Fits("Targeted", st), NEW t \in State,
         t.tried = st.tried, t.iterations = st.iterations + 1,
         NEW next \in {"Regression", "Final", "Reflect"},
         next = "Reflect" => t.iterations < MaxIterations
  PROVE  Fits(next, t)
  <1>1. st.iterations \in Nat /\ IsFiniteSet(st.tried) /\ st.iterations + 1 <= Cardinality(st.tried)
    BY StateFields DEF Fits, Pending, Untested
  <1>2. Pending(next) = 0 /\ next \notin Calls /\ next \notin Investigating \union {"Targeted"}
    BY DEF Pending, Untested, Calls, Investigating
  <1>3. Cardinality(st.tried) \in Nat
    BY <1>1, FS_CardinalityType
  <1>4. t.iterations + Pending(next) <= Cardinality(t.tried)
    BY <1>1, <1>2, <1>3
  <1> QED BY <1>1, <1>2, <1>4 DEF Fits

\* Another iteration starts only below the limit.
LEMMA Routes ==
  ASSUME NEW st \in State
  PROVE  /\ RetryOrFinish(st) \in {"Final", "Reflect"}
         /\ RetryOrFinish(st) = "Reflect" => st.iterations < MaxIterations
         /\ st.targeted \in TestOutcome => AfterTargeted(st) \in {"Regression", "Final", "Reflect"}
         /\ AfterTargeted(st) = "Reflect" => st.iterations < MaxIterations
  <1>1. st.iterations \in Nat /\ MaxIterations \in Nat
    BY StateFields, RepairAssumption
  <1>2. RetryOrFinish(st) \in {"Final", "Reflect"}
        /\ (RetryOrFinish(st) = "Reflect" => st.iterations < MaxIterations)
    BY <1>1 DEF RetryOrFinish
  <1>3. \/ st.apply # "ok" /\ AfterTargeted(st) = RetryOrFinish(st)
        \/ st.apply = "ok" /\ st.targeted = "passed" /\ AfterTargeted(st) = "Regression"
        \/ st.apply = "ok" /\ st.targeted = "failed" /\ AfterTargeted(st) = RetryOrFinish(st)
        \/ st.apply = "ok" /\ st.targeted \notin {"passed", "failed"} /\ AfterTargeted(st) = "Final"
    BY DEF AfterTargeted
  <1> QED BY <1>2, <1>3

\* What the test phases and the generator write.
LEMMA PatchFields ==
  ASSUME NEW st \in State
  PROVE  /\ \A o \in TestOutcome, tree \in SUBSET Patch, n \in 0..MaxIterations :
              [st EXCEPT !.targeted = o, !.targetedOn = tree, !.regression = "not_run",
                         !.iterations = n] \in State
         /\ \A p \in Patch \union {Nothing} :
              /\ [st EXCEPT !.patch = p, !.idle = Count(@, MaxIdle)] \in State
              /\ [st EXCEPT !.patch = p, !.idle = 0, !.tried = @ \union {p}] \in State
  <1>1. MaxIdle \in Nat /\ st.idle \in 0..(MaxIdle + 1)
    BY RepairAssumption DEF State
  <1>2. Count(st.idle, MaxIdle) \in 0..(MaxIdle + 1) /\ 0 \in 0..(MaxIdle + 1)
    BY <1>1 DEF Count
  <1>3. \A o \in TestOutcome, tree \in SUBSET Patch, n \in 0..MaxIterations :
          [st EXCEPT !.targeted = o, !.targetedOn = tree, !.regression = "not_run",
                     !.iterations = n] \in State
    BY DEF State
  <1>4. \A p \in Patch \union {Nothing}, n \in 0..(MaxIdle + 1) :
          [st EXCEPT !.patch = p, !.idle = n] \in State
    BY DEF State
  <1>5. \A p \in Patch \union {Nothing}, n \in 0..(MaxIdle + 1), s \in SUBSET (Patch \union {Nothing}) :
          [st EXCEPT !.patch = p, !.idle = n, !.tried = s] \in State
    BY DEF State
  <1>6. \A p \in Patch \union {Nothing} : st.tried \union {p} \in SUBSET (Patch \union {Nothing})
    BY StateFields
  <1> QED BY <1>2, <1>3, <1>4, <1>5, <1>6

LEMMA PatchesFit ==
  ASSUME RunInv, NEW w \in Worker,
         GeneratePatch(w) \/ ApplyPatch(w) \/ TargetedTests(w) \/ RegressionChecks(w)
           \/ Reflect(w) \/ FinalAnswer(w)
  PROVE  RunInv'
  <1> DEFINE m == mem[w]
  <1>1. m \in State /\ Fits(node[w], m) /\ (ws = Nothing \/ ws \subseteq Patch)
    BY AtNode
  <1>2. UNCHANGED <<run, final, queueVars, mcpVars, job>>
    BY DEF GeneratePatch, ApplyPatch, TargetedTests, RegressionChecks, Reflect, FinalAnswer
  <1>3. ASSUME NEW from, NEW next \in Place, NEW st, Step(w, from, next, st), Fits(next, st),
               ws' = Nothing \/ ws' \subseteq Patch
        PROVE  RunInv'
    BY <1>2, <1>3, StepFits, NodeKeeps
  <1>4. CASE GeneratePatch(w)
    <2>1. PICK p \in Patch \union {Nothing} :
            LET st == [m EXCEPT !.patch = p]
            IN /\ IF AlreadyTried(m, p)
                    THEN Step(w, "Generate", "Plan", [st EXCEPT !.idle = Count(@, MaxIdle)])
                    ELSE Step(w, "Generate", "Apply", [st EXCEPT !.idle = 0, !.tried = @ \union {p}])
               /\ ws' = ws
      BY <1>4 DEF GeneratePatch
    <2>2. node[w] = "Generate"
      BY <2>1 DEF Step
    <2>3. CASE AlreadyTried(m, p)
      <3> DEFINE t == [m EXCEPT !.patch = p, !.idle = Count(@, MaxIdle)]
      <3>1. t \in State
        BY <1>1, PatchFields
      <3>2. t.tried = m.tried /\ t.iterations = m.iterations
        BY <1>1 DEF State
      <3>3. Step(w, "Generate", "Plan", t)
        BY <1>1, <2>1, <2>3 DEF State
      <3> HIDE DEF t
      <3>4. Fits("Plan", t)
        BY <1>1, <2>2, <3>1, <3>2, FitsOn DEF Investigating, Calls, Untested
      <3> QED BY <1>1, <1>3, <2>1, <3>3, <3>4 DEF Place
    <2>4. CASE ~AlreadyTried(m, p)
      <3> DEFINE t == [m EXCEPT !.patch = p, !.idle = 0, !.tried = @ \union {p}]
      <3>1. t \in State
        BY <1>1, PatchFields
      <3>2. t.tried = m.tried \union {p} /\ t.iterations = m.iterations
        BY <1>1 DEF State
      <3>3. Step(w, "Generate", "Apply", t)
        BY <1>1, <2>1, <2>4 DEF State
      <3> HIDE DEF t
      <3>4. Fits("Apply", t)
        BY <1>1, <2>2, <2>4, <3>1, <3>2, NewDiff DEF AlreadyTried
      <3> QED BY <1>1, <1>3, <2>1, <3>3, <3>4 DEF Place
    <2> QED BY <2>3, <2>4
  <1>5. CASE ApplyPatch(w)
    <2>1. PICK a \in {"ok", "no"} :
            /\ Step(w, "Apply", "Targeted", [m EXCEPT !.apply = a])
            /\ a = "ok" => m.patch \in Patch /\ ws' = ws \union {m.patch}
            /\ a = "no" => ws' = ws
            /\ HasWorkspace
      BY <1>5 DEF ApplyPatch
    <2> DEFINE t == [m EXCEPT !.apply = a]
    <2>2. t \in State
      BY <1>1, FieldsMove
    <2>3. t.tried = m.tried /\ t.iterations = m.iterations
      BY <1>1 DEF State
    <2>4. node[w] = "Apply" /\ Step(w, "Apply", "Targeted", t)
      BY <2>1 DEF Step
    <2> HIDE DEF t
    <2>5. Fits("Targeted", t)
      BY <1>1, <2>2, <2>3, <2>4, FitsOn DEF Investigating, Calls, Untested
    <2>6. ws' = Nothing \/ ws' \subseteq Patch
      BY <1>1, <2>1 DEF HasWorkspace
    <2> QED BY <1>3, <2>4, <2>5, <2>6 DEF Place
  <1>6. CASE TargetedTests(w)
    <2>1. PICK outcome \in TestOutcome :
            /\ HasWorkspace /\ UNCHANGED ws
            /\ LET st == [m EXCEPT !.targeted = outcome, !.targetedOn = ws,
                                   !.regression = "not_run", !.iterations = @ + 1]
               IN Step(w, "Targeted", AfterTargeted(st), st)
      BY <1>6, Outcomes DEF TargetedTests
    <2> DEFINE t == [m EXCEPT !.targeted = outcome, !.targetedOn = ws,
                              !.regression = "not_run", !.iterations = @ + 1]
    <2>2. node[w] = "Targeted" /\ Step(w, "Targeted", AfterTargeted(t), t)
      BY <2>1 DEF Step
    <2>3. ws \in SUBSET Patch /\ m.iterations + 1 \in 0..MaxIterations
      BY <1>1, <2>1, <2>2, StateFields, RepairAssumption DEF HasWorkspace, Fits
    <2>4. t \in State
      BY <1>1, <2>3, PatchFields
    <2>5. t.tried = m.tried /\ t.iterations = m.iterations + 1 /\ t.targeted = outcome
      BY <1>1 DEF State
    <2> HIDE DEF t
    <2>6. Fits(AfterTargeted(t), t) /\ AfterTargeted(t) \in {"Regression", "Final", "Reflect"}
      BY <1>1, <2>2, <2>4, <2>5, Routes, OneMore
    <2> QED BY <1>1, <1>3, <2>1, <2>2, <2>6 DEF Place
  <1>7. CASE RegressionChecks(w)
    <2>1. PICK outcome \in TestOutcome :
            /\ HasWorkspace /\ UNCHANGED ws
            /\ LET st == [m EXCEPT !.regression = outcome, !.regressionOn = ws]
               IN Step(w, "Regression", IF outcome = "failed" THEN RetryOrFinish(st) ELSE "Final", st)
      BY <1>7 DEF RegressionChecks
    <2> DEFINE t == [m EXCEPT !.regression = outcome, !.regressionOn = ws]
    <2>2. ws \in SUBSET Patch
      BY <1>1, <2>1 DEF HasWorkspace
    <2>3. t \in State
      BY <1>1, <2>2, FieldsMove
    <2>4. t.tried = m.tried /\ t.iterations = m.iterations
      BY <1>1 DEF State
    <2>5. node[w] = "Regression"
      BY <2>1 DEF Step
    <2>6. PICK next \in {"Final", "Reflect"} :
            Step(w, "Regression", next, t) /\ (next = "Reflect" => t.iterations < MaxIterations)
      <3>1. Step(w, "Regression", IF outcome = "failed" THEN RetryOrFinish(t) ELSE "Final", t)
        BY <2>1
      <3> HIDE DEF t
      <3> QED BY <2>3, <3>1, Routes
    <2> HIDE DEF t
    <2>7. Fits(next, t)
      <3>1. t.iterations + Pending(next) <= Cardinality(t.tried)
        BY <1>1, <2>4, <2>5, <2>6 DEF Fits, Pending, Untested
      <3> QED BY <1>1, <2>3, <2>4, <2>6, <3>1 DEF Fits, Investigating, Calls
    <2> QED BY <1>1, <1>3, <2>1, <2>6, <2>7 DEF Place
  <1>8. CASE Reflect(w)
    <2>1. PICK ok \in ResetResults :
            /\ HasWorkspace /\ ws' = CleanedUp(ws, ok)
            /\ Step(w, "Reflect", IF m.stop THEN "Final" ELSE "Plan",
                    [m EXCEPT !.patch = Nothing, !.apply = "no"])
      BY <1>8 DEF Reflect
    <2> DEFINE t == [m EXCEPT !.patch = Nothing, !.apply = "no"]
    <2>2. t \in State
      BY <1>1, FieldsMove
    <2>3. t.tried = m.tried /\ t.iterations = m.iterations
      BY <1>1 DEF State
    <2>4. node[w] = "Reflect"
      BY <2>1 DEF Step
    <2>5. PICK next \in {"Final", "Plan"} : Step(w, "Reflect", next, t)
      BY <2>1
    <2> HIDE DEF t
    <2>6. Fits(next, t)
      BY <1>1, <2>2, <2>3, <2>4, FitsOn DEF Investigating, Calls, Untested
    <2>7. ws' = Nothing \/ ws' \subseteq Patch
      BY <1>1, <2>1 DEF CleanedUp
    <2> QED BY <1>3, <2>5, <2>6, <2>7 DEF Place
  <1>9. CASE FinalAnswer(w)
    <2> DEFINE t == [m EXCEPT !.diff = ws, !.status = Verdict(m)]
    <2>1. HasWorkspace /\ UNCHANGED ws /\ Step(w, "Final", "End", t) /\ node[w] = "Final"
      BY <1>9 DEF FinalAnswer, Step
    <2>2. ws \in SUBSET Patch /\ Verdict(m) \in Terminal
      BY <1>1, <2>1, Verdicts DEF HasWorkspace
    <2>3. t \in State
      BY <1>1, <2>2, FieldsMove
    <2>4. t.tried = m.tried /\ t.iterations = m.iterations
      BY <1>1 DEF State
    <2> HIDE DEF t
    <2>5. Fits("End", t)
      BY <1>1, <2>1, <2>3, <2>4, FitsOn DEF Investigating, Calls, Untested
    <2> QED BY <1>1, <1>3, <2>1, <2>5 DEF Place
  <1> QED BY <1>4, <1>5, <1>6, <1>7, <1>8, <1>9

\* The end of an invocation, an exception and a crash.
LEMMA EndsFit ==
  ASSUME RunInv, NEW w \in Worker, Return(w) \/ Raise(w) \/ Crash(w)
  PROVE  RunInv'
  <1>1. PairsFit'
    BY IdleFits DEF Return, Raise, Crash
  <1>2. /\ owed' \in BOOLEAN /\ UNCHANGED <<saved, tries, mcpVars, job>>
        /\ ws' = Nothing \/ ws' = ws
    <2>1. CASE Return(w) \/ Raise(w)
      BY <2>1 DEF Return, Raise, queueVars, RunInv
    <2>2. CASE Crash(w)
      <3>1. owed' \in BOOLEAN
        BY <2>2, Zenon DEF Crash, RunInv
      <3> QED BY <2>2, <3>1 DEF Crash
    <2> QED BY <2>1, <2>2
  <1>3. /\ run' \in Terminal \union Waiting \union {"pending", "running"}
        /\ final' = Nothing \/ final' \in State
    <2>1. CASE Return(w)
      <3>1. mem[w] \in State
        BY AtNode
      <3>2. mem[w].status \in Terminal \union Waiting \union {"running"}
        BY <3>1 DEF State
      <3> QED BY <2>1, <3>1, <3>2 DEF Return, RunInv, Terminal
    <2>2. CASE Raise(w) \/ Crash(w)
      BY <2>2 DEF Raise, Crash, RunInv, Terminal
    <2> QED BY <2>1, <2>2
  <1> QED BY <1>1, <1>2, <1>3 DEF RunInv, PairsFit, mcpVars

\* The run's job starts, continues from the checkpoint or returns what is saved.
LEMMA RunJobFits ==
  ASSUME RunInv, NEW w \in Worker, RunJob(w) \/ RehydrationFails(w)
  PROVE  RunInv'
  <1>1. /\ tries \in 0..MaxTries /\ MaxTries \in Nat /\ job \in [Worker -> {"run", "resume"}]
        /\ SavedFits /\ PairsFit
    BY RepairAssumption DEF RunInv, SavedFits, PairsFit
  <1>2. /\ owed' = FALSE /\ tries < MaxTries /\ tries' = tries + 1
        /\ job' = [job EXCEPT ![w] = "run"] /\ UNCHANGED <<final, mcpVars>>
    BY DEF RunJob, RehydrationFails, TakeJob
  <1>3. tries' \in 0..MaxTries /\ job' \in [Worker -> {"run", "resume"}]
    BY <1>1, <1>2
  <1>4. ASSUME PairsFit', SavedFits', ws' = Nothing \/ ws' \subseteq Patch,
               run' \in Terminal \union Waiting \union {"pending", "running"}
        PROVE  RunInv'
    BY <1>2, <1>3, <1>4 DEF RunInv, PairsFit, SavedFits, mcpVars
  <1>5. CASE RehydrationFails(w)
    <2>1. UNCHANGED <<node, mem, saved>> /\ run' = "infra_error" /\ ws' = Nothing
      BY <1>5 DEF RehydrationFails
    <2> QED BY <1>1, <1>4, <2>1 DEF PairsFit, SavedFits, Terminal
  <1>6. CASE RunJob(w) /\ run \in Terminal
    <2>1. UNCHANGED <<run, node, mem, saved, ws>>
      BY <1>6 DEF RunJob
    <2> QED BY <1>1, <1>4, <2>1 DEF PairsFit, SavedFits, RunInv
  <1>7. CASE RunJob(w) /\ run \notin Terminal
    <2>1. run' = "running" /\ ws' = IF saved.next = "End" THEN {} ELSE Rehydrated(saved)
      BY <1>7 DEF RunJob
    <2>2. ws' = Nothing \/ ws' \subseteq Patch
      BY <2>1 DEF Rehydrated, NeedsPatch
    <2>3. CASE saved.next = "none"
      <3>1. /\ Goto(w, "Reproduce", InitialState)
            /\ saved' \in {saved, [next |-> "Reproduce", st |-> InitialState]}
        BY <1>7, <2>3 DEF RunJob
      <3>2. /\ "Reproduce" \in Place /\ "Reproduce" \in Running
            /\ Fits("Reproduce", InitialState) /\ InitialState \in State
        BY Initials DEF Place, Running, Calls, Untested
      <3>3. PairsFit'
        BY <3>1, <3>2, GotoFits
      <3>4. SavedFits'
        BY <1>1, <3>1, <3>2 DEF SavedFits
      <3> QED BY <1>4, <2>1, <2>2, <3>3, <3>4
    <2>4. CASE saved.next # "none"
      <3>1. Goto(w, saved.next, saved.st) /\ UNCHANGED saved
        BY <1>7, <2>4 DEF RunJob
      <3>2. saved.next \in Running /\ Fits(saved.next, saved.st)
        BY <1>1, <2>4 DEF SavedFits, Running
      <3>3. PairsFit'
        BY <3>1, <3>2, GotoFits
      <3> QED BY <1>1, <1>4, <2>1, <2>2, <3>1, <3>3 DEF SavedFits
    <2> QED BY <2>3, <2>4
  <1> QED BY <1>5, <1>6, <1>7

\* A graph state that keeps the values it has and takes patch and result of the thread.
Merged(st) ==
  [st EXCEPT !.patch = IF @ = Unset THEN saved.st.patch ELSE @,
             !.apply = IF @ = Unset THEN saved.st.apply ELSE @]

LEMMA Merges ==
  ASSUME RunInv, NEW st \in State
  PROVE  /\ Merged(st) \in State
         /\ Merged(st).tried = st.tried /\ Merged(st).iterations = st.iterations
         /\ Merged(st).rounds = st.rounds
         /\ Merged(st).base = st.base /\ Merged(st).baseOn = st.baseOn
         /\ Merged(st).regression = st.regression
  <1> DEFINE p == IF st.patch = Unset THEN saved.st.patch ELSE st.patch
             a == IF st.apply = Unset THEN saved.st.apply ELSE st.apply
  <1>1. saved.st \in State
    BY DEF RunInv
  <1>2. p \in Patch \union {Nothing, Unset} /\ a \in {Unset, "ok", "no"}
    BY <1>1 DEF State
  <1>3. Merged(st) = [st EXCEPT !.patch = p, !.apply = a]
    BY DEF Merged, State
  <1> HIDE DEF p, a
  <1>4. Merged(st) \in State
    <2>1. [st EXCEPT !.patch = p, !.apply = a] \in State
      BY <1>2, FieldsMove
    <2> QED BY <1>3, <2>1
  <1> QED BY <1>3, <1>4 DEF State

LEMMA ResumeFits ==
  ASSUME RunInv, NEW w \in Worker, NEW next \in {"Observe", "CallMCP"}, NEW st, Fits(next, st),
         Resume(w, next, st)
  PROVE  /\ PairsFit' /\ SavedFits' /\ run' = "running" /\ ws' = {}
         /\ job' \in [Worker -> {"run", "resume"}]
  <1>1. /\ run' = "running" /\ ws' = {} /\ job' = [job EXCEPT ![w] = "resume"]
        /\ Goto(w, next, Merged(st)) /\ saved' \in {saved, [next |-> next, st |-> Merged(st)]}
    BY DEF Resume, Merged
  <1>2. st \in State
    BY DEF Fits
  <1>3. Fits(next, Merged(st)) /\ Merged(st) \in State
    BY <1>2, Merges DEF Fits
  <1>4. next \in Running /\ next \in Place
    BY DEF Running, Place
  <1>5. PairsFit'
    BY <1>1, <1>3, <1>4, GotoFits
  <1>6. SavedFits'
    BY <1>1, <1>3, <1>4 DEF SavedFits, RunInv
  <1>7. job' \in [Worker -> {"run", "resume"}]
    BY <1>1 DEF RunInv
  <1> QED BY <1>1, <1>5, <1>6, <1>7

\* What a resumption starts from fits the node it starts at.
LEMMA ResumptionsFit ==
  ASSUME RunInv, NEW w \in Worker
  PROVE  /\ approval.open =>
              /\ [approval.st EXCEPT !.rounds = @ + 1] \in State
              /\ Fits("Observe", [approval.st EXCEPT !.rounds = @ + 1])
         /\ \A r \in 1..MaxRounds : execs[r].status # "none" => Fits("CallMCP", execs[r].st)
  <1>1. ASSUME approval.open
        PROVE  /\ [approval.st EXCEPT !.rounds = @ + 1] \in State
               /\ Fits("Observe", [approval.st EXCEPT !.rounds = @ + 1])
    <2> DEFINE s == approval.st
               t == [s EXCEPT !.rounds = @ + 1]
    <2>1. Fits("CallMCP", s) /\ s \in State /\ s.rounds < MaxRounds
      BY <1>1 DEF RunInv, Fits, Calls
    <2>2. t \in State
      BY <2>1, FieldsMove
    <2>3. t.tried = s.tried /\ t.iterations = s.iterations
      BY <2>1 DEF State
    <2> HIDE DEF t
    <2>4. Fits("Observe", t)
      BY <2>1, <2>2, <2>3, FitsOn DEF Investigating, Calls, Untested
    <2> QED BY <2>2, <2>4 DEF t
  <1> QED BY <1>1 DEF RunInv

LEMMA JobsFit ==
  ASSUME RunInv, NEW w \in Worker,
         ResumeApproval(w) \/ \E r \in 1..MaxRounds :
           ResumeExecution(w, r) \/ Watchdog(w, r)
  PROVE  RunInv'
  <1>1. /\ PairsFit /\ SavedFits /\ McpFits /\ job \in [Worker -> {"run", "resume"}]
        /\ ws = Nothing \/ ws \subseteq Patch
        /\ resumes \in 0..MaxResumes /\ MaxResumes \in Nat
    BY RepairAssumption DEF RunInv, SavedFits, PairsFit, McpFits
  <1>2. resumes < MaxResumes => resumes + 1 \in 0..MaxResumes
    BY <1>1
  <1>3. CASE ResumeApproval(w)
    <2>1. /\ approval.open /\ approval' = [approval EXCEPT !.open = FALSE]
          /\ Resume(w, "Observe", [approval.st EXCEPT !.rounds = @ + 1])
          /\ UNCHANGED <<final, queueVars, execs, resumes>>
      BY <1>3 DEF ResumeApproval
    <2>2. /\ PairsFit' /\ SavedFits' /\ run' = "running" /\ ws' = {}
          /\ job' \in [Worker -> {"run", "resume"}]
      BY <2>1, ResumptionsFit, ResumeFits
    <2>3. McpFits'
      BY <1>1, <2>1, <2>2 DEF McpFits
    <2> QED BY <2>1, <2>2, <2>3, McpKeeps
  <1>4. ASSUME NEW r \in 1..MaxRounds, ResumeExecution(w, r) PROVE RunInv'
    <2>1. /\ execs[r].status \in {"settled", "prepared"} /\ resumes < MaxResumes
          /\ resumes' = resumes + 1 /\ Resume(w, "CallMCP", execs[r].st)
          /\ UNCHANGED <<final, queueVars, approval, execs>>
      BY <1>4 DEF ResumeExecution
    <2>2. /\ PairsFit' /\ SavedFits' /\ run' = "running" /\ ws' = {}
          /\ job' \in [Worker -> {"run", "resume"}]
      BY <2>1, ResumptionsFit, ResumeFits
    <2>3. McpFits'
      BY <1>1, <1>2, <2>1, <2>2 DEF McpFits
    <2> QED BY <2>1, <2>2, <2>3, McpKeeps
  <1>5. ASSUME NEW r \in 1..MaxRounds, Watchdog(w, r) PROVE RunInv'
    <2>1. execs[r].status = "executing" /\ UNCHANGED <<final, queueVars, approval>>
      BY <1>5 DEF Watchdog
    <2>2. ASSUME NEW s \in {"prepared", "unknown"}, execs' = [execs EXCEPT ![r].status = s]
          PROVE  /\ execs' \in [1..MaxRounds -> [status : LedgerStatus, st : State]]
                 /\ \A q \in 1..MaxRounds : execs'[q].status # "none" => Fits("CallMCP", execs'[q].st)
      BY <2>1, <2>2, LedgerMove DEF LedgerStatus
    <2>3. CASE /\ resumes < MaxResumes /\ resumes' = resumes + 1
               /\ execs' = [execs EXCEPT ![r].status = "prepared"]
               /\ Resume(w, "CallMCP", execs[r].st)
      <3>1. /\ PairsFit' /\ SavedFits' /\ run' = "running" /\ ws' = {}
            /\ job' \in [Worker -> {"run", "resume"}]
        BY <2>1, <2>3, ResumptionsFit, ResumeFits
      <3>2. McpFits'
        BY <1>1, <1>2, <2>1, <2>2, <2>3, <3>1 DEF McpFits
      <3> QED BY <2>1, <3>1, <3>2, McpKeeps
    <2>4. CASE /\ execs' = [execs EXCEPT ![r].status = "unknown"]
               /\ MarkWaiting
               /\ UNCHANGED <<saved, node, job, mem, ws, resumes>>
      <3>1. McpFits'
        BY <1>1, <2>1, <2>2, <2>4 DEF McpFits, MarkWaiting, Waiting
      <3>2. PairsFit' /\ SavedFits'
        BY <1>1, <2>4 DEF PairsFit, SavedFits
      <3> QED BY <1>1, <2>1, <2>4, <3>1, <3>2, McpKeeps
    <2> QED BY <1>5, <2>3, <2>4 DEF Watchdog
  <1> QED BY <1>3, <1>4, <1>5

\* An operator settles a call or lets it run again.
LEMMA ReconcileFits ==
  ASSUME RunInv, NEW r \in 1..MaxRounds, Reconcile(r)
  PROVE  RunInv'
  <1>1. PICK s \in {"settled", "prepared"} :
          /\ execs[r].status = "unknown" /\ execs' = [execs EXCEPT ![r].status = s]
          /\ UNCHANGED <<run, final, saved, queueVars, approval, resumes, workerVars, ws>>
    BY DEF Reconcile
  <1>2. /\ execs' \in [1..MaxRounds -> [status : LedgerStatus, st : State]]
        /\ \A q \in 1..MaxRounds : execs'[q].status # "none" => Fits("CallMCP", execs'[q].st)
    BY <1>1, LedgerMove DEF LedgerStatus
  <1> QED BY <1>1, <1>2 DEF RunInv, workerVars, queueVars

LEMMA RunInit == Init => RunInv
  <1> SUFFICES ASSUME Init PROVE RunInv
    OBVIOUS
  <1>1. /\ InitialState \in State
        /\ \A place : place \notin Calls \union Untested => Fits(place, InitialState)
    BY Initials
  <1>2. "none" \notin Calls \union Untested /\ "idle" \notin Calls \union Untested
    BY DEF Calls, Untested
  <1>3. /\ saved \in [next : Place \union {"none"}, st : State] /\ Fits(saved.next, saved.st)
        /\ approval \in [open : BOOLEAN, st : State] /\ ~approval.open
    BY <1>1, <1>2 DEF Init
  <1>4. /\ execs \in [1..MaxRounds -> [status : LedgerStatus, st : State]]
        /\ \A r \in 1..MaxRounds : execs[r].status = "none"
    BY <1>1 DEF Init, LedgerStatus
  <1>5. /\ node \in [Worker -> Running] /\ job \in [Worker -> {"run", "resume"}]
        /\ mem \in [Worker -> State] /\ \A w \in Worker : Fits(node[w], mem[w])
    BY <1>1, <1>2 DEF Init, Running
  <1>6. /\ run = "pending" /\ final = Nothing /\ owed \in BOOLEAN /\ ws = Nothing
        /\ tries \in 0..MaxTries /\ resumes \in 0..MaxResumes
    BY RepairAssumption DEF Init
  <1> QED BY <1>3, <1>4, <1>5, <1>6 DEF RunInv

LEMMA RunStep == RunInv /\ [Next]_vars => RunInv'
  <1> SUFFICES ASSUME RunInv, [Next]_vars PROVE RunInv'
    OBVIOUS
  <1>1. ASSUME NEW w \in Worker, Node(w) PROVE RunInv'
    BY <1>1, InvestigationFits, CallsFit, PatchesFit, EndsFit DEF Node
  <1>2. ASSUME NEW w \in Worker,
               RunJob(w) \/ RehydrationFails(w) \/ ResumeApproval(w) \/ Raise(w) \/ Crash(w)
                 \/ \E r \in 1..MaxRounds : ResumeExecution(w, r) \/ Watchdog(w, r)
        PROVE  RunInv'
    BY <1>2, RunJobFits, JobsFit, EndsFit
  <1>3. ASSUME NEW r \in 1..MaxRounds, Reconcile(r) PROVE RunInv'
    BY <1>3, ReconcileFits
  <1>4. CASE UNCHANGED vars
    BY <1>4 DEF vars, RunInv
  <1> QED BY <1>1, <1>2, <1>3, <1>4 DEF Next

LEMMA RunAlways == Spec => []RunInv
  BY RunInit, RunStep, PTL DEF Spec

\* In whatever order jobs, crashes, retries and resumptions hand a graph state on, every
\* counter of the agent loop stays inside its budget (agent/loop.py, _retry_or_finish).
THEOREM RepairTypes == Spec => []TypeOK
  <1>1. RunInv => TypeOK
    BY DEF RunInv, TypeOK, Running, LedgerStatus
  <1> QED BY <1>1, RunAlways, PTL

\* The guardrail of generate_patch holds for any number of workers: a state that is
\* resumed brings with it the diffs that its iterations have tested.
THEOREM IterationsAreNew == Spec => []EachIterationIsNew
  <1>1. ASSUME RunInv, NEW w \in Worker PROVE mem[w].iterations <= Cardinality(mem[w].tried)
    <2>1. Fits(node[w], mem[w]) /\ mem[w] \in State
      BY <1>1, AtNode
    <2>2. mem[w].iterations \in Nat /\ Cardinality(mem[w].tried) \in Nat
      BY <2>1, StateFields, FS_CardinalityType DEF Fits
    <2> QED BY <2>1, <2>2 DEF Fits, Pending
  <1>2. RunInv => EachIterationIsNew
    BY <1>1 DEF EachIterationIsNew
  <1> QED BY <1>2, RunAlways, PTL

-----------------------------------------------------------------------------
(* One worker: the workspace is the one that the graph state stands for.   *)

\* Steps inside the investigation, and out of it without a new verdict.
LEMMA VouchedOn ==
  ASSUME NEW from \in Investigating \union {"Targeted", "Reflect"}, NEW st, Vouched(from, st),
         NEW next \in Investigating \union {"Reflect", "Final", "End"}, NEW t,
         t.base = st.base, t.baseOn = st.baseOn, t.regression = st.regression,
         next = "End" => t.status # "verified_success"
  PROVE  Vouched(next, t) /\ t.regression # "passed"
  BY DEF Vouched, Investigating

\* The conditions on a move of the only worker.
LEMMA AloneKeeps ==
  ASSUME RunInv, TreeInv, Alone, NEW w \in Worker, NEW next \in Running, NEW st \in State,
         Goto(w, next, st), Vouched(next, st), Tree(next, st, ws'),
         Vouched(saved'.next, saved'.st),
         approval'.open => Vouched("CallMCP", approval'.st),
         \A r \in 1..MaxRounds : execs'[r].status # "none" => Vouched("CallMCP", execs'[r].st),
         VerifiedAsShipped'
  PROVE  TreeInv'
  <1>1. node'[w] = next /\ mem'[w] = st
    BY DEF Goto, RunInv
  <1>2. \A v \in Worker : v = w
    BY DEF Alone
  <1> QED BY <1>1, <1>2 DEF TreeInv

\* The common case: a step that touches neither the run nor its calls.
LEMMA AloneSteps ==
  ASSUME RunInv, TreeInv, Alone, NEW w \in Worker, NEW from, NEW next \in Place, NEW st \in State,
         Step(w, from, next, st), Vouched(next, st), Tree(next, st, ws'),
         UNCHANGED <<run, final, mcpVars>>
  PROVE  TreeInv'
  <1>1. Goto(w, next, st) /\ (saved' = saved \/ saved' = [next |-> next, st |-> st])
    BY DEF Step
  <1>2. Vouched(saved'.next, saved'.st)
    BY <1>1 DEF TreeInv
  <1>3. next \in Running /\ VerifiedAsShipped'
    BY DEF Running, TreeInv, VerifiedAsShipped
  <1> QED BY <1>1, <1>2, <1>3, AloneKeeps DEF TreeInv, mcpVars

\* What the only worker knows at its node.
LEMMA AtTree ==
  ASSUME RunInv, TreeInv, NEW w \in Worker
  PROVE  /\ mem[w] \in State /\ Vouched(node[w], mem[w]) /\ Tree(node[w], mem[w], ws)
         /\ node[w] \in Investigating => ws = {}
  BY DEF RunInv, TreeInv, Tree

LEMMA InvestigationIsClean ==
  ASSUME RunInv, TreeInv, Alone, NEW w \in Worker,
         Reproduce(w) \/ Plan(w) \/ Execute(w) \/ SkipMCP(w) \/ PlanCall(w) \/ Observe(w)
           \/ PauseForApproval(w) \/ ReadCall(w) \/ CallInProgress(w) \/ GeneratePatch(w)
  PROVE  TreeInv'
  <1> DEFINE m == mem[w]
  <1>1. /\ m \in State /\ Vouched(node[w], m)
        /\ node[w] \in Investigating => ws = {}
    BY AtTree
  <1>2. UNCHANGED <<run, final, mcpVars, ws>>
    BY DEF Reproduce, Plan, Execute, SkipMCP, PlanCall, Observe, PauseForApproval, ReadCall,
           CallInProgress, GeneratePatch
  <1>3. ASSUME NEW from \in Investigating, NEW next \in (Investigating \intersect Place) \union {"Final", "End"},
               NEW t \in State, Step(w, from, next, t),
               t.base = m.base, t.baseOn = m.baseOn, t.regression = m.regression,
               next = "End" => t.status # "verified_success"
        PROVE  TreeInv'
    <2>1. node[w] = from /\ next \in Place
      BY <1>3 DEF Step, Place
    <2>2. Vouched(next, t) /\ t.regression # "passed"
      BY <1>1, <1>3, <2>1, VouchedOn
    <2>3. Tree(next, t, ws')
      BY <1>1, <1>2, <1>3, <2>1, <2>2 DEF Tree, Investigating
    <2> QED BY <1>2, <1>3, <2>1, <2>2, <2>3, AloneSteps
  <1>4. CASE Reproduce(w)
    <2>1. PICK outcome \in TestOutcome :
            Step(w, "Reproduce", IF outcome \in {"passed", "infra_error"} THEN "Final" ELSE "Plan",
                 [m EXCEPT !.base = outcome, !.baseOn = ws])
      BY <1>4 DEF Reproduce
    <2> DEFINE t == [m EXCEPT !.base = outcome, !.baseOn = ws]
    <2>2. node[w] = "Reproduce" /\ ws = {}
      BY <1>1, <2>1 DEF Step, Investigating
    <2>3. t \in State
      BY <1>1, <2>2, FieldsMove
    <2>4. t.baseOn = ws /\ t.regression = m.regression
      BY <1>1 DEF State
    <2> HIDE DEF t
    <2>5. PICK next \in {"Final", "Plan"} : Step(w, "Reproduce", next, t)
      BY <2>1 DEF t
    <2>6. m.regression # "passed"
      BY <1>1, <2>2 DEF Vouched, Investigating
    <2>7. Vouched(next, t) /\ Tree(next, t, ws')
      BY <1>2, <2>2, <2>4, <2>6 DEF Vouched, Tree
    <2> QED BY <1>2, <2>3, <2>5, <2>7, AloneSteps DEF Place
  <1>5. CASE Plan(w)
    <2>1. PICK action \in {"finish", "generate", "tool"} :
            Step(w, "Plan", "Execute",
                 [m EXCEPT !.action = action, !.calls = Count(@, MaxPlannerCalls)])
      BY <1>5 DEF Plan
    <2> DEFINE t == [m EXCEPT !.action = action, !.calls = Count(@, MaxPlannerCalls)]
    <2>2. t \in State
      BY <1>1, FieldsMove
    <2>3. t.base = m.base /\ t.baseOn = m.baseOn /\ t.regression = m.regression
      BY <1>1 DEF State
    <2> HIDE DEF t
    <2>4. Step(w, "Plan", "Execute", t)
      BY <2>1 DEF t
    <2> QED BY <1>3, <2>2, <2>3, <2>4 DEF Place, Investigating
  <1>6. CASE Execute(w)
    <2>1. ASSUME NEW b \in BOOLEAN
          PROVE  /\ [m EXCEPT !.stop = b] \in State /\ [m EXCEPT !.stop = b].base = m.base
                 /\ [m EXCEPT !.stop = b].baseOn = m.baseOn
                 /\ [m EXCEPT !.stop = b].regression = m.regression
      <3>1. [m EXCEPT !.stop = b] \in State
        BY <1>1, FieldsMove
      <3> QED BY <1>1, <3>1 DEF State
    <2>2. CASE Step(w, "Execute", "Final", [m EXCEPT !.stop = TRUE])
      BY <1>3, <2>1, <2>2 DEF Place, Investigating
    <2>3. CASE Step(w, "Execute", "PlanMCP", [m EXCEPT !.stop = FALSE])
      BY <1>3, <2>1, <2>3 DEF Place, Investigating
    <2>4. ASSUME NEW st \in Observed(m), Step(w, "Execute", IF st.stop THEN "Final" ELSE "Plan", st)
          PROVE  TreeInv'
      <3>1. /\ st \in State /\ st.base = m.base /\ st.baseOn = m.baseOn
            /\ st.regression = m.regression
        BY <1>1, ObservationsFit DEF SameEvidence
      <3>2. PICK next \in {"Final", "Plan"} : Step(w, "Execute", next, st)
        BY <2>4
      <3> QED BY <1>3, <3>1, <3>2 DEF Place, Investigating
    <2> QED BY <1>6, <2>2, <2>3, <2>4 DEF Execute
  <1>7. CASE SkipMCP(w) \/ PlanCall(w) \/ Observe(w)
    <2>1. PICK from \in {"PlanMCP", "Observe"}, next \in {"Generate", "CallMCP", "PlanMCP"} :
            Step(w, from, next, m)
      BY <1>7 DEF SkipMCP, PlanCall, Observe
    <2> QED BY <1>1, <1>3, <2>1 DEF Place, Investigating
  <1>8. CASE PauseForApproval(w)
    <2> DEFINE t == [m EXCEPT !.status = "waiting_approval"]
    <2>1. t \in State
      BY <1>1, FieldsMove DEF Waiting
    <2>2. /\ t.base = m.base /\ t.baseOn = m.baseOn /\ t.regression = m.regression
          /\ t.status = "waiting_approval"
      BY <1>1 DEF State
    <2>3. Step(w, "Asked", "End", t)
      BY <1>8 DEF PauseForApproval
    <2> HIDE DEF t
    <2> QED BY <1>3, <2>1, <2>2, <2>3 DEF Investigating
  <1>9. CASE ReadCall(w) \/ CallInProgress(w)
    <2>1. \/ Step(w, "CallMCP", "Observe", Called(w))
          \/ Step(w, "CallMCP", "End", Paused(w))
      BY <1>9 DEF ReadCall, CallInProgress
    <2>2. node[w] \in Calls
      BY <2>1 DEF Step, Calls
    <2>3. /\ Called(w) \in State /\ Called(w).base = m.base /\ Called(w).baseOn = m.baseOn
          /\ Called(w).regression = m.regression
      BY <1>1, <2>2, AtCall DEF Called, State
    <2>4. /\ Paused(w) \in State /\ Paused(w).base = m.base /\ Paused(w).baseOn = m.baseOn
          /\ Paused(w).regression = m.regression /\ Paused(w).status = "waiting_reconciliation"
      BY <1>1, <2>2, AtCall DEF Paused, State
    <2> QED BY <1>3, <2>1, <2>3, <2>4 DEF Place, Investigating
  <1>10. CASE GeneratePatch(w)
    <2>1. PICK p \in Patch \union {Nothing} :
            LET st == [m EXCEPT !.patch = p]
            IN IF AlreadyTried(m, p)
                 THEN Step(w, "Generate", "Plan", [st EXCEPT !.idle = Count(@, MaxIdle)])
                 ELSE Step(w, "Generate", "Apply", [st EXCEPT !.idle = 0, !.tried = @ \union {p}])
      BY <1>10 DEF GeneratePatch
    <2> DEFINE t == [m EXCEPT !.patch = p, !.idle = Count(@, MaxIdle)]
               u == [m EXCEPT !.patch = p, !.idle = 0, !.tried = @ \union {p}]
    <2>2. t \in State /\ u \in State
      BY <1>1, PatchFields
    <2>3. /\ t.base = m.base /\ t.baseOn = m.baseOn /\ t.regression = m.regression
          /\ u.base = m.base /\ u.baseOn = m.baseOn /\ u.regression = m.regression
      BY <1>1 DEF State
    <2>4. Step(w, "Generate", "Plan", t) \/ Step(w, "Generate", "Apply", u)
      BY <1>1, <2>1 DEF State
    <2> HIDE DEF t, u
    <2> QED BY <1>3, <2>2, <2>3, <2>4 DEF Place, Investigating
  <1> QED BY <1>4, <1>5, <1>6, <1>7, <1>8, <1>9, <1>10

\* The evidence that an MCP call passes on, in the ledger or in an approval.
LEMMA CallsAreClean ==
  ASSUME RunInv, TreeInv, Alone, NEW w \in Worker,
         AskApproval(w) \/ BeginCall(w) \/ CallUnknown(w) \/ EndCall(w) \/ LoseCall(w)
  PROVE  TreeInv'
  <1> DEFINE m == mem[w]
  <1>1. /\ m \in State /\ Vouched(node[w], m)
        /\ node[w] \in Investigating => ws = {}
        /\ Vouched(saved.next, saved.st)
        /\ approval.open => Vouched("CallMCP", approval.st)
        /\ \A r \in 1..MaxRounds : execs[r].status # "none" => Vouched("CallMCP", execs[r].st)
        /\ execs \in [1..MaxRounds -> [status : LedgerStatus, st : State]]
    BY AtTree DEF TreeInv, RunInv
  <1>2. UNCHANGED <<final, ws>> /\ (run' = run \/ run' \in Waiting)
    BY DEF AskApproval, BeginCall, CallUnknown, EndCall, LoseCall, MarkWaiting, Waiting
  <1>3. VerifiedAsShipped'
    BY <1>2 DEF TreeInv, VerifiedAsShipped, Waiting
  <1>4. ASSUME NEW s \in LedgerStatus, NEW r \in 1..MaxRounds, execs[r].status # "none" \/ s = "none",
               execs' = [execs EXCEPT ![r].status = s]
        PROVE  \A q \in 1..MaxRounds : execs'[q].status # "none" => Vouched("CallMCP", execs'[q].st)
    <2>1. \A q \in 1..MaxRounds :
            /\ execs'[q].st = execs[q].st
            /\ execs'[q].status # "none" => execs[q].status # "none"
      BY <1>1, <1>4
    <2> QED BY <1>1, <2>1
  <1>5. CASE AskApproval(w)
    <2>1. /\ node[w] = "PlanMCP" /\ Goto(w, "Asked", m) /\ UNCHANGED <<saved, execs>>
          /\ approval' = approval \/ approval' = [open |-> TRUE, st |-> m]
      BY <1>5 DEF AskApproval
    <2>2. Vouched("Asked", m) /\ Vouched("CallMCP", m)
      BY <1>1, <2>1, VouchedOn DEF Investigating
    <2>3. Tree("Asked", m, ws')
      BY <1>1, <1>2, <2>1 DEF Tree, Investigating
    <2>4. approval'.open => Vouched("CallMCP", approval'.st)
      BY <1>1, <2>1, <2>2
    <2> QED BY <1>1, <1>3, <2>1, <2>2, <2>3, <2>4, AloneKeeps DEF Running
  <1>6. CASE BeginCall(w)
    <2> DEFINE row == execs[Round(w)]
               new == [status |-> "executing", st |-> IF row.status = "none" THEN m ELSE row.st]
    <2>1. /\ node[w] = "CallMCP" /\ Goto(w, "Calling", m) /\ execs' = [execs EXCEPT ![Round(w)] = new]
          /\ UNCHANGED <<saved, approval>>
      BY <1>6 DEF BeginCall
    <2>2. Vouched("Calling", m) /\ Vouched("CallMCP", m)
      BY <1>1, <2>1, VouchedOn DEF Investigating
    <2>3. Round(w) \in 1..MaxRounds
      BY <2>1, AtCall DEF Calls
    <2>4. Vouched("CallMCP", new.st)
      BY <1>1, <2>2, <2>3
    <2>5. \A q \in 1..MaxRounds : execs'[q].status # "none" => Vouched("CallMCP", execs'[q].st)
      <3> HIDE DEF new
      <3>1. \A q \in 1..MaxRounds : execs'[q] = IF q = Round(w) THEN new ELSE execs[q]
        BY <1>1, <2>1
      <3> QED BY <1>1, <2>4, <3>1
    <2>6. Tree("Calling", m, ws')
      BY <1>1, <1>2, <2>1 DEF Tree, Investigating
    <2> QED BY <1>1, <1>3, <2>1, <2>2, <2>5, <2>6, AloneKeeps DEF Running
  \* the three ends of a call that write its row
  <1>7. ASSUME NEW from \in Calls, NEW next \in {"Observe", "End"}, NEW t \in State,
               Step(w, from, next, t), t = Called(w) \/ t = Paused(w), next = "End" => t = Paused(w),
               UNCHANGED approval, NEW s \in LedgerStatus,
               execs' = [execs EXCEPT ![Round(w)].status = s],
               execs[Round(w)].status # "none" \/ s = "none"
        PROVE  TreeInv'
    <2>1. node[w] \in Calls /\ node[w] \in Investigating /\ Goto(w, next, t)
          /\ (saved' = saved \/ saved' = [next |-> next, st |-> t])
      BY <1>7 DEF Step, Calls, Investigating
    <2>2. Round(w) \in 1..MaxRounds
      BY <2>1, AtCall
    <2>3. /\ t.base = m.base /\ t.baseOn = m.baseOn /\ t.regression = m.regression
          /\ t = Paused(w) => t.status = "waiting_reconciliation"
      <3>1. CASE t = Called(w)
        BY <1>1, <3>1 DEF Called, Paused, State
      <3>2. CASE t = Paused(w)
        BY <1>1, <3>2 DEF Paused, State
      <3> QED BY <1>7, <3>1, <3>2
    <2>4. Vouched(next, t) /\ t.regression # "passed"
      BY <1>1, <1>7, <2>1, <2>3, VouchedOn DEF Investigating
    <2>5. Tree(next, t, ws')
      BY <1>1, <1>2, <2>1, <2>4 DEF Tree
    <2>6. Vouched(saved'.next, saved'.st)
      BY <1>1, <2>1, <2>4
    <2>7. \A q \in 1..MaxRounds : execs'[q].status # "none" => Vouched("CallMCP", execs'[q].st)
      BY <1>4, <1>7, <2>2
    <2>8. next \in Running
      BY <1>7 DEF Running, Place
    <2> QED BY <1>1, <1>3, <1>7, <2>1, <2>4, <2>5, <2>6, <2>7, <2>8, AloneKeeps
  <1>8. CASE CallUnknown(w)
    <2>1. /\ Step(w, "CallMCP", "End", Paused(w)) /\ UNCHANGED approval
          /\ execs[Round(w)].status \in {"executing", "unknown"}
          /\ execs' = [execs EXCEPT ![Round(w)].status = "unknown"]
      BY <1>8 DEF CallUnknown
    <2>2. "CallMCP" \in Calls /\ "unknown" \in LedgerStatus /\ node[w] \in Calls
      BY <2>1 DEF Step, Calls, LedgerStatus
    <2>3. Paused(w) \in State
      BY <2>2, AtCall
    <2> QED BY <1>7, <2>1, <2>2, <2>3
  <1>9. CASE EndCall(w) \/ LoseCall(w)
    <2>1. PICK s \in {"settled", "unknown"} : Settle(Round(w), s)
      BY <1>9 DEF EndCall, LoseCall
    <2> DEFINE to == IF execs[Round(w)].status = "executing" THEN s ELSE execs[Round(w)].status
    <2>2. /\ \/ Step(w, "Calling", "Observe", Called(w)) 
             \/ Step(w, "Calling", "End", Paused(w))
          /\ UNCHANGED approval
      BY <1>9 DEF EndCall, LoseCall
    <2>3. "Calling" \in Calls /\ node[w] \in Calls
      BY <2>2 DEF Step, Calls
    <2>4. Paused(w) \in State /\ Called(w) \in State /\ Round(w) \in 1..MaxRounds
      BY <2>3, AtCall
    <2>5. execs' = [execs EXCEPT ![Round(w)].status = to] /\ to \in LedgerStatus
      BY <1>1, <2>1, <2>4 DEF Settle, LedgerStatus
    <2>6. execs[Round(w)].status # "none" \/ to = "none"
      OBVIOUS
    <2> HIDE DEF to
    <2> QED BY <1>7, <2>2, <2>3, <2>4, <2>5, <2>6
  <1> QED BY <1>5, <1>6, <1>8, <1>9

\* Patch and tests: the evidence of an iteration is the evidence of the diff in the tree.
LEMMA TestsAreOfTheTree ==
  ASSUME RunInv, TreeInv, Alone, NEW w \in Worker,
         ApplyPatch(w) \/ TargetedTests(w) \/ RegressionChecks(w) \/ Reflect(w) \/ FinalAnswer(w)
  PROVE  TreeInv'
  <1> DEFINE m == mem[w]
  <1>1. m \in State /\ Vouched(node[w], m) /\ Tree(node[w], m, ws)
    BY AtTree
  <1>2. UNCHANGED <<run, final, mcpVars>>
    BY DEF ApplyPatch, TargetedTests, RegressionChecks, Reflect, FinalAnswer
  <1>3. CASE ApplyPatch(w)
    <2>1. PICK a \in {"ok", "no"} :
            /\ Step(w, "Apply", "Targeted", [m EXCEPT !.apply = a])
            /\ a = "ok" => m.patch \in Patch /\ ws' = ws \union {m.patch}
            /\ a = "no" => ws' = ws
      BY <1>3 DEF ApplyPatch
    <2> DEFINE t == [m EXCEPT !.apply = a]
    <2>2. t \in State
      BY <1>1, FieldsMove
    <2>3. /\ t.base = m.base /\ t.baseOn = m.baseOn /\ t.regression = m.regression
          /\ t.patch = m.patch /\ t.apply = a
      BY <1>1 DEF State
    <2>4. node[w] = "Apply" /\ Step(w, "Apply", "Targeted", t)
      BY <2>1 DEF Step
    <2> HIDE DEF t
    <2>5. ws = {} /\ m.regression # "passed" /\ (m.base # "not_run" => m.baseOn = {})
      BY <1>1, <2>4 DEF Tree, Vouched, Investigating
    <2>6. Vouched("Targeted", t)
      BY <2>1, <2>3, <2>5 DEF Vouched
    <2>7. Tree("Targeted", t, ws')
      BY <2>1, <2>3, <2>5 DEF Tree, Investigating
    <2> QED BY <1>2, <2>2, <2>4, <2>6, <2>7, AloneSteps DEF Place
  <1>4. CASE TargetedTests(w)
    <2>1. PICK outcome \in TestOutcome :
            /\ HasWorkspace /\ UNCHANGED ws
            /\ LET st == [m EXCEPT !.targeted = outcome, !.targetedOn = ws,
                                   !.regression = "not_run", !.iterations = @ + 1]
               IN Step(w, "Targeted", AfterTargeted(st), st)
      BY <1>4, Outcomes DEF TargetedTests
    <2> DEFINE t == [m EXCEPT !.targeted = outcome, !.targetedOn = ws,
                              !.regression = "not_run", !.iterations = @ + 1]
    <2>2. node[w] = "Targeted" /\ Step(w, "Targeted", AfterTargeted(t), t)
      BY <2>1 DEF Step
    <2>3. ws \in SUBSET Patch /\ m.iterations + 1 \in 0..MaxIterations
      BY <1>1, <2>1, <2>2, AtNode, StateFields, RepairAssumption DEF HasWorkspace, Fits
    <2>4. t \in State
      BY <1>1, <2>3, PatchFields
    <2>5. /\ t.base = m.base /\ t.baseOn = m.baseOn /\ t.regression = "not_run"
          /\ t.patch = m.patch /\ t.apply = m.apply
          /\ t.targeted = outcome /\ t.targetedOn = ws
      BY <1>1 DEF State
    <2> HIDE DEF t
    <2>6. /\ AfterTargeted(t) \in {"Regression", "Final", "Reflect"}
          /\ AfterTargeted(t) = "Regression" => t.apply = "ok" /\ t.targeted = "passed"
      <3>1. AfterTargeted(t) \in {"Regression", "Final", "Reflect"}
        BY <2>4, <2>5, Routes
      <3>2. RetryOrFinish(t) \in {"Final", "Reflect"}
        BY <2>4, Routes
      <3>3. \/ t.apply = "ok" /\ t.targeted = "passed"
            \/ AfterTargeted(t) \in {RetryOrFinish(t), "Final"}
        BY DEF AfterTargeted
      <3> QED BY <3>1, <3>2, <3>3
    <2>7. /\ ws = IF m.apply = "ok" THEN {m.patch} ELSE {}
          /\ m.apply = "ok" => m.patch \in Patch
          /\ m.base # "not_run" => m.baseOn = {}
      BY <1>1, <2>2 DEF Tree, Vouched
    <2>8. Vouched(AfterTargeted(t), t)
      BY <2>5, <2>6, <2>7 DEF Vouched, Investigating
    <2>9. Tree(AfterTargeted(t), t, ws')
      BY <2>1, <2>5, <2>6, <2>7 DEF Tree, Investigating
    <2> QED BY <1>2, <2>2, <2>4, <2>6, <2>8, <2>9, AloneSteps DEF Place
  <1>5. CASE RegressionChecks(w)
    <2>1. PICK outcome \in TestOutcome :
            /\ HasWorkspace /\ UNCHANGED ws
            /\ LET st == [m EXCEPT !.regression = outcome, !.regressionOn = ws]
               IN Step(w, "Regression", IF outcome = "failed" THEN RetryOrFinish(st) ELSE "Final", st)
      BY <1>5 DEF RegressionChecks
    <2> DEFINE t == [m EXCEPT !.regression = outcome, !.regressionOn = ws]
    <2>2. ws \in SUBSET Patch
      BY AtNode, <2>1 DEF HasWorkspace
    <2>3. t \in State
      BY <1>1, <2>2, FieldsMove
    <2>4. /\ t.base = m.base /\ t.baseOn = m.baseOn /\ t.regression = outcome
          /\ t.regressionOn = ws /\ t.targeted = m.targeted /\ t.targetedOn = m.targetedOn
          /\ t.patch = m.patch /\ t.apply = m.apply
      BY <1>1 DEF State
    <2>5. node[w] = "Regression"
      BY <2>1 DEF Step
    <2>6. PICK next \in {"Final", "Reflect"} :
            Step(w, "Regression", next, t) /\ (next = "Reflect" => outcome # "passed")
      <3>1. Step(w, "Regression", IF outcome = "failed" THEN RetryOrFinish(t) ELSE "Final", t)
        BY <2>1
      <3> HIDE DEF t
      <3> QED BY <2>3, <3>1, Routes
    <2> HIDE DEF t
    <2>7. /\ m.apply = "ok" /\ m.targeted = "passed" /\ m.patch \in Patch
          /\ ws = {m.patch} /\ m.targetedOn = {m.patch}
          /\ m.base # "not_run" => m.baseOn = {}
      BY <1>1, <2>5 DEF Tree, Vouched
    <2>8. Vouched(next, t) /\ Tree(next, t, ws')
      BY <2>1, <2>4, <2>6, <2>7 DEF Vouched, Tree, Investigating
    <2> QED BY <1>2, <2>3, <2>6, <2>8, AloneSteps DEF Place
  <1>6. CASE Reflect(w)
    <2>1. PICK ok \in ResetResults :
            /\ HasWorkspace /\ ws' = CleanedUp(ws, ok)
            /\ Step(w, "Reflect", IF m.stop THEN "Final" ELSE "Plan",
                    [m EXCEPT !.patch = Nothing, !.apply = "no"])
      BY <1>6 DEF Reflect
    <2> DEFINE t == [m EXCEPT !.patch = Nothing, !.apply = "no"]
    <2>2. t \in State
      BY <1>1, FieldsMove
    <2>3. t.base = m.base /\ t.baseOn = m.baseOn /\ t.regression = m.regression
      BY <1>1 DEF State
    <2>4. node[w] = "Reflect" /\ ws' = {}
      BY <2>1 DEF Step, CleanedUp, Alone
    <2>5. PICK next \in {"Final", "Plan"} : Step(w, "Reflect", next, t)
      BY <2>1
    <2> HIDE DEF t
    <2>6. Vouched(next, t) /\ t.regression # "passed"
      BY <1>1, <2>3, <2>4, VouchedOn DEF Investigating
    <2>7. Tree(next, t, ws')
      BY <2>4, <2>6 DEF Tree
    <2> QED BY <1>2, <2>2, <2>5, <2>6, <2>7, AloneSteps DEF Place
  <1>7. CASE FinalAnswer(w)
    <2> DEFINE t == [m EXCEPT !.diff = ws, !.status = Verdict(m)]
    <2>1. HasWorkspace /\ UNCHANGED ws /\ Step(w, "Final", "End", t) /\ node[w] = "Final"
      BY <1>7 DEF FinalAnswer, Step
    <2>2. ws \in SUBSET Patch /\ Verdict(m) \in Terminal
      BY <1>1, <2>1, AtNode, Verdicts DEF HasWorkspace
    <2>3. t \in State
      BY <1>1, <2>2, FieldsMove
    <2>4. /\ t.base = m.base /\ t.baseOn = m.baseOn /\ t.regression = m.regression
          /\ t.regressionOn = m.regressionOn /\ t.targeted = m.targeted
          /\ t.targetedOn = m.targetedOn /\ t.diff = ws /\ t.status = Verdict(m)
      BY <1>1 DEF State
    <2> HIDE DEF t
    <2>5. ASSUME t.status = "verified_success" PROVE Shipped(t)
      <3>1. EvidenceIsComplete(m)
        BY <1>1, <2>4, <2>5, Verdicts
      <3>2. /\ m.base = "failed" /\ m.targeted = "passed" /\ m.regression = "passed"
        BY <3>1 DEF EvidenceIsComplete
      <3>3. /\ m.baseOn = {} /\ m.targetedOn = {m.patch} /\ m.regressionOn = {m.patch}
            /\ ws = {m.patch}
        BY <1>1, <2>1, <3>2 DEF Vouched, Tree
      <3> QED BY <2>4, <3>2, <3>3 DEF Shipped
    <2>6. Vouched("End", t) /\ Tree("End", t, ws')
      BY <1>1, <2>4, <2>5 DEF Vouched, Tree, Investigating
    <2> QED BY <1>2, <2>1, <2>3, <2>6, AloneSteps DEF Place
  <1> QED BY <1>3, <1>4, <1>5, <1>6, <1>7

LEMMA FreshIsVouched ==
  /\ \A place \in {"none", "idle", "Reproduce"} : Vouched(place, InitialState)
  /\ Tree("Reproduce", InitialState, {}) /\ \A tree : Tree("idle", InitialState, tree)
  BY DEF Vouched, Tree, InitialState, Investigating

\* A verdict is stored with the evidence that it was given on.
LEMMA EndsAreVouched ==
  ASSUME RunInv, TreeInv, Alone, NEW w \in Worker, Return(w) \/ Raise(w) \/ Crash(w)
  PROVE  TreeInv'
  <1>1. Goto(w, "idle", InitialState) /\ UNCHANGED <<saved, mcpVars>>
    BY DEF Return, Raise, Crash, Idle, Goto
  <1>2. VerifiedAsShipped'
    <2>1. CASE Return(w) /\ mem[w].status \notin Waiting
      <3>1. /\ node[w] = "End" /\ final' = mem[w]
            /\ run' = "verified_success" => mem[w].status = "verified_success"
        BY <2>1 DEF Return
      <3>2. run' = "verified_success" => Shipped(mem[w])
        BY <3>1, AtTree DEF Vouched
      <3> QED BY <3>1, <3>2 DEF VerifiedAsShipped, Shipped
    <2>2. CASE Return(w) /\ mem[w].status \in Waiting
      BY <2>2 DEF Return, TreeInv, VerifiedAsShipped
    <2>3. CASE Raise(w) \/ Crash(w)
      BY <2>3 DEF Raise, Crash, TreeInv, VerifiedAsShipped
    <2> QED BY <2>1, <2>2, <2>3
  <1>3. "idle" \in Running /\ InitialState \in State
    BY Initials DEF Running
  <1> QED BY <1>1, <1>2, <1>3, FreshIsVouched, AloneKeeps DEF TreeInv, mcpVars

\* The tree that the job rebuilds is the one the checkpoint's node is for.
LEMMA RebuiltTree ==
  ASSUME RunInv, TreeInv, saved.next # "none"
  PROVE  Tree(saved.next, saved.st, IF saved.next = "End" THEN {} ELSE Rehydrated(saved))
  <1>1. Vouched(saved.next, saved.st)
    BY DEF TreeInv
  <1>2. CASE saved.next \in Investigating
    BY <1>2 DEF Tree, Rehydrated, NeedsPatch, Investigating
  <1>3. CASE saved.next \in {"Targeted", "Regression"}
    BY <1>1, <1>3 DEF Tree, Vouched, Rehydrated, NeedsPatch, Investigating
  <1>4. CASE saved.next = "Final"
    BY <1>1, <1>4 DEF Tree, Vouched, Rehydrated, NeedsPatch, Investigating
  <1>5. CASE saved.next \notin Investigating \union {"Targeted", "Regression", "Final"}
    BY <1>5 DEF Tree
  <1> QED BY <1>2, <1>3, <1>4, <1>5

LEMMA RunJobIsVouched ==
  ASSUME RunInv, TreeInv, Alone, NEW w \in Worker, RunJob(w) \/ RehydrationFails(w)
  PROVE  TreeInv'
  <1>1. /\ UNCHANGED <<final, mcpVars>> /\ node[w] = "idle"
        /\ \A v \in Worker : v = w
    BY DEF RunJob, RehydrationFails, TakeJob, Alone
  <1>2. CASE RehydrationFails(w)
    <2>1. UNCHANGED <<node, mem, saved>> /\ run' = "infra_error"
      BY <1>2 DEF RehydrationFails
    <2>2. \A v \in Worker : Tree(node[v], mem[v], ws')
      BY <1>1 DEF Tree, Investigating
    <2>3. VerifiedAsShipped'
      BY <2>1 DEF VerifiedAsShipped
    <2> QED BY <1>1, <2>1, <2>2, <2>3 DEF TreeInv, mcpVars
  <1>3. CASE RunJob(w) /\ run \in Terminal
    BY <1>1, <1>3 DEF RunJob, TreeInv, mcpVars, VerifiedAsShipped
  <1>4. CASE RunJob(w) /\ run \notin Terminal
    <2>1. run' = "running" /\ ws' = IF saved.next = "End" THEN {} ELSE Rehydrated(saved)
      BY <1>4 DEF RunJob
    <2>2. VerifiedAsShipped'
      BY <2>1 DEF VerifiedAsShipped
    <2>3. CASE saved.next = "none"
      <3>1. /\ Goto(w, "Reproduce", InitialState)
            /\ saved' \in {saved, [next |-> "Reproduce", st |-> InitialState]}
        BY <1>4, <2>3 DEF RunJob
      <3>2. ws' = {}
        BY <2>1, <2>3 DEF Rehydrated, NeedsPatch
      <3>3. Vouched(saved'.next, saved'.st)
        BY <3>1, FreshIsVouched DEF TreeInv
      <3>4. "Reproduce" \in Running /\ InitialState \in State
        BY Initials DEF Running, Place
      <3> QED
        BY <1>1, <2>2, <3>1, <3>2, <3>3, <3>4, FreshIsVouched, AloneKeeps DEF TreeInv, mcpVars
    <2>4. CASE saved.next # "none"
      <3>1. Goto(w, saved.next, saved.st) /\ UNCHANGED saved
        BY <1>4, <2>4 DEF RunJob
      <3>2. saved.next \in Running /\ saved.st \in State
        BY <2>4 DEF RunInv, Running
      <3>3. Tree(saved.next, saved.st, ws')
        BY <2>1, <2>4, RebuiltTree
      <3> QED BY <1>1, <2>2, <3>1, <3>2, <3>3, AloneKeeps DEF TreeInv, mcpVars
    <2> QED BY <2>3, <2>4
  <1> QED BY <1>2, <1>3, <1>4

\* A resumption starts in a new workspace, with evidence that is not complete.
LEMMA ResumeIsVouched ==
  ASSUME RunInv, TreeInv, Alone, NEW w \in Worker, NEW next \in {"Observe", "CallMCP"}, NEW st \in State,
         Vouched(next, st), Resume(w, next, st),
         approval'.open => Vouched("CallMCP", approval'.st),
         \A r \in 1..MaxRounds : execs'[r].status # "none" => Vouched("CallMCP", execs'[r].st)
  PROVE  TreeInv'
  <1>1. /\ run' = "running" /\ ws' = {}
        /\ Goto(w, next, Merged(st)) /\ saved' \in {saved, [next |-> next, st |-> Merged(st)]}
    BY DEF Resume, Merged
  <1>2. Merged(st) \in State /\ Vouched(next, Merged(st))
    BY Merges, VouchedOn DEF Investigating
  <1>3. Vouched(saved'.next, saved'.st)
    BY <1>1, <1>2 DEF TreeInv
  <1>4. next \in Running /\ Tree(next, Merged(st), ws') /\ VerifiedAsShipped'
    BY <1>1 DEF Running, Place, Tree, VerifiedAsShipped
  <1> QED BY <1>1, <1>2, <1>3, <1>4, AloneKeeps

LEMMA JobsAreVouched ==
  ASSUME RunInv, TreeInv, Alone, NEW w \in Worker,
         ResumeApproval(w) \/ \E r \in 1..MaxRounds : ResumeExecution(w, r) \/ Watchdog(w, r)
  PROVE  TreeInv'
  <1>1. /\ approval.open => Vouched("CallMCP", approval.st)
        /\ \A r \in 1..MaxRounds : execs[r].status # "none" => Vouched("CallMCP", execs[r].st)
        /\ execs \in [1..MaxRounds -> [status : LedgerStatus, st : State]]
        /\ approval \in [open : BOOLEAN, st : State]
    BY DEF TreeInv, RunInv
  <1>2. CASE ResumeApproval(w)
    <2> DEFINE s == approval.st
               t == [s EXCEPT !.rounds = @ + 1]
    <2>1. /\ approval.open /\ approval' = [approval EXCEPT !.open = FALSE]
          /\ Resume(w, "Observe", t) /\ UNCHANGED execs
      BY <1>2 DEF ResumeApproval
    <2>2. s \in State /\ t \in State
      BY <1>1, <2>1, ResumptionsFit
    <2>3. t.base = s.base /\ t.baseOn = s.baseOn /\ t.regression = s.regression
      BY <2>2 DEF State
    <2> HIDE DEF t
    <2>4. Vouched("Observe", t)
      BY <1>1, <2>1, <2>3, VouchedOn DEF Investigating
    <2>5. ~approval'.open
      BY <1>1, <2>1
    <2> QED BY <1>1, <2>1, <2>2, <2>4, <2>5, ResumeIsVouched
  <1>3. ASSUME NEW r \in 1..MaxRounds, ResumeExecution(w, r) PROVE TreeInv'
    <2>1. /\ execs[r].status # "none" /\ Resume(w, "CallMCP", execs[r].st)
          /\ UNCHANGED <<approval, execs>>
      BY <1>3 DEF ResumeExecution
    <2> QED BY <1>1, <2>1, ResumeIsVouched
  <1>4. ASSUME NEW r \in 1..MaxRounds, Watchdog(w, r) PROVE TreeInv'
    <2>1. /\ execs[r].status = "executing" /\ UNCHANGED <<final, approval>>
          /\ \E s \in {"prepared", "unknown"} : execs' = [execs EXCEPT ![r].status = s]
      BY <1>4 DEF Watchdog
    <2>2. \A q \in 1..MaxRounds :
            /\ execs'[q].st = execs[q].st
            /\ execs'[q].status # "none" => execs[q].status # "none"
      BY <1>1, <2>1
    <2>3. CASE Resume(w, "CallMCP", execs[r].st)
      BY <1>1, <2>1, <2>2, <2>3, ResumeIsVouched
    <2>4. CASE MarkWaiting /\ UNCHANGED <<saved, node, job, mem, ws, resumes>>
      <3>1. VerifiedAsShipped'
        BY <2>1, <2>4 DEF MarkWaiting, TreeInv, VerifiedAsShipped
      <3> QED BY <1>1, <2>1, <2>2, <2>4, <3>1 DEF TreeInv
    <2> QED BY <1>4, <2>3, <2>4 DEF Watchdog
  <1> QED BY <1>2, <1>3, <1>4

LEMMA TreeInit == Init => TreeInv
  <1> SUFFICES ASSUME Init PROVE TreeInv
    OBVIOUS
  <1>1. \A w \in Worker : node[w] = "idle" /\ mem[w] = InitialState
    BY DEF Init
  <1>2. saved.next = "none" /\ saved.st = InitialState /\ ~approval.open /\ run = "pending"
    BY DEF Init
  <1>3. \A r \in 1..MaxRounds : execs[r].status = "none"
    BY DEF Init
  <1> QED BY <1>1, <1>2, <1>3, FreshIsVouched DEF TreeInv, VerifiedAsShipped

LEMMA TreeStep == RunInv /\ TreeInv /\ Alone /\ [Next]_vars => TreeInv'
  <1> SUFFICES ASSUME RunInv, TreeInv, Alone, [Next]_vars PROVE TreeInv'
    OBVIOUS
  <1>1. ASSUME NEW w \in Worker, Node(w) PROVE TreeInv'
    BY <1>1, InvestigationIsClean, CallsAreClean, TestsAreOfTheTree, EndsAreVouched DEF Node
  <1>2. ASSUME NEW w \in Worker,
               RunJob(w) \/ RehydrationFails(w) \/ ResumeApproval(w) \/ Raise(w) \/ Crash(w)
                 \/ \E r \in 1..MaxRounds : ResumeExecution(w, r) \/ Watchdog(w, r)
        PROVE  TreeInv'
    BY <1>2, RunJobIsVouched, JobsAreVouched, EndsAreVouched
  <1>3. ASSUME NEW r \in 1..MaxRounds, Reconcile(r) PROVE TreeInv'
    <2>1. /\ \E s \in {"settled", "prepared"} : execs' = [execs EXCEPT ![r].status = s]
          /\ execs[r].status = "unknown"
          /\ UNCHANGED <<run, final, saved, approval, node, mem, ws>>
      BY <1>3 DEF Reconcile, workerVars
    <2>2. \A q \in 1..MaxRounds :
            /\ execs'[q].st = execs[q].st
            /\ execs'[q].status # "none" => execs[q].status # "none"
      BY <2>1 DEF RunInv
    <2> QED BY <2>1, <2>2 DEF TreeInv, VerifiedAsShipped
  <1>4. CASE UNCHANGED vars
    BY <1>4 DEF vars, TreeInv, VerifiedAsShipped
  <1> QED BY <1>1, <1>2, <1>3, <1>4 DEF Next

\* One worker at a time, and resets that work: the assumption under which the two
\* properties below hold; repair_overlap and repair_reset show that both are needed.
LEMMA TreeAlways == Spec => [](Alone => TreeInv)
  <1>1. Init => (Alone => TreeInv)
    BY TreeInit
  <1>2. RunInv /\ (Alone => TreeInv) /\ [Next]_vars => (Alone => TreeInv)'
    BY TreeStep DEF Alone
  <1> QED BY <1>1, <1>2, RunAlways, PTL DEF Spec

\* A run that one worker at a time takes through its crashes, retries, pauses and
\* resumptions stores as verified the tree on which the tests passed, and no other.
THEOREM VerifiedIsTested == Spec => [](Alone => VerifiedAsShipped)
  <1>1. (Alone => TreeInv) => (Alone => VerifiedAsShipped)
    BY DEF TreeInv
  <1> QED BY <1>1, TreeAlways, PTL

\* Under the same conditions no diff is stacked on a failed one (`reflect').
THEOREM InvestigationOfTheIndexed == Spec => [](Alone => CleanTree)
  <1>1. (Alone => TreeInv) => (Alone => CleanTree)
    BY DEF TreeInv, Tree, CleanTree, Investigating
  <1> QED BY <1>1, TreeAlways, PTL
-----------------------------------------------------------------------------
(* What the row tells those who do not see the graph.                      *)

\* A graph that has ended waits, or has the verdict that its evidence asks for.
Honest(st) ==
  \/ st.status \in Waiting
  \/ /\ st.status \in Terminal
     /\ st.status = "verified_success" => EvidenceIsComplete(st)
     /\ Shipped(st) => st.status = "verified_success"

EndsHonest ==
  /\ saved.next = "End" => Honest(saved.st)
  /\ \A w \in Worker : node[w] = "End" => Honest(mem[w])

\* A worker goes on, and the checkpoint stays or follows it.
LEMMA GotoIsHonest ==
  ASSUME RunInv, EndsHonest, NEW w \in Worker, NEW next, NEW st, Goto(w, next, st),
         next = "End" => Honest(st),
         saved' = saved \/ saved' = [next |-> next, st |-> st]
  PROVE  EndsHonest'
  <1>1. \A v \in Worker : IF v = w THEN node'[v] = next /\ mem'[v] = st
                                    ELSE node'[v] = node[v] /\ mem'[v] = mem[v]
    BY DEF Goto, RunInv
  <1>2. saved'.next = "End" => Honest(saved'.st)
    BY DEF EndsHonest
  <1> QED BY <1>1, <1>2 DEF EndsHonest

LEMMA StepIsHonest ==
  ASSUME RunInv, EndsHonest, NEW w \in Worker, NEW from, NEW next, NEW st,
         Step(w, from, next, st), next = "End" => Honest(st)
  PROVE  EndsHonest'
  <1>1. Goto(w, next, st) /\ (saved' = saved \/ saved' = [next |-> next, st |-> st])
    BY DEF Step
  <1> QED BY <1>1, GotoIsHonest

\* Nodes from which the graph goes on.
LEMMA NodesGoOn ==
  ASSUME RunInv, EndsHonest, NEW w \in Worker,
         \/ Reproduce(w) \/ Plan(w) \/ Execute(w) \/ SkipMCP(w) \/ PlanCall(w) \/ ReadCall(w)
         \/ EndCall(w) \/ Observe(w) \/ GeneratePatch(w) \/ ApplyPatch(w) \/ TargetedTests(w)
         \/ RegressionChecks(w) \/ Reflect(w)
  PROVE  EndsHonest'
  <1> DEFINE GoesOn == \E from, st : \E next \in Place \ {"End"} : Step(w, from, next, st)
  <1>0. GoesOn => EndsHonest'
    BY StepIsHonest
  <1> USE DEF Place
  <1>1. CASE Reproduce(w) \/ Plan(w)
    <2>1. CASE Reproduce(w)
      <3>1. PICK o : Step(w, "Reproduce", IF o \in {"passed", "infra_error"} THEN "Final" ELSE "Plan",
                         [mem[w] EXCEPT !.base = o, !.baseOn = ws])
        BY <2>1 DEF Reproduce
      <3>2. (IF o \in {"passed", "infra_error"} THEN "Final" ELSE "Plan") \in Place \ {"End"}
        OBVIOUS
      <3> QED BY <1>0, <3>1, <3>2
    <2>2. CASE Plan(w)
      BY <1>0, <2>2 DEF Plan
    <2> QED BY <1>1, <2>1, <2>2
  <1>2. CASE SkipMCP(w) \/ PlanCall(w) \/ ReadCall(w) \/ EndCall(w)
    BY <1>0, <1>2 DEF SkipMCP, PlanCall, ReadCall, EndCall
  <1>3. CASE Execute(w)
    BY <1>0, <1>3 DEF Execute
  <1>4. CASE Observe(w)
    BY <1>0, <1>4 DEF Observe
  <1>5. CASE GeneratePatch(w) \/ ApplyPatch(w)
    BY <1>0, <1>5 DEF GeneratePatch, ApplyPatch
  <1>6. CASE Reflect(w)
    BY <1>0, <1>6 DEF Reflect
  <1>7. CASE TargetedTests(w)
    <2>1. PICK st : Step(w, "Targeted", AfterTargeted(st), st)
      BY <1>7 DEF TargetedTests
    <2>2. AfterTargeted(st) \in Place \ {"End"}
      BY DEF AfterTargeted, RetryOrFinish
    <2> QED BY <1>0, <2>1, <2>2
  <1>8. CASE RegressionChecks(w)
    <2>1. PICK o, st : Step(w, "Regression", IF o = "failed" THEN RetryOrFinish(st) ELSE "Final", st)
      BY <1>8 DEF RegressionChecks
    <2>2. (IF o = "failed" THEN RetryOrFinish(st) ELSE "Final") \in Place \ {"End"}
      BY DEF RetryOrFinish
    <2> QED BY <1>0, <2>1, <2>2
  <1> QED BY <1>1, <1>2, <1>3, <1>4, <1>5, <1>6, <1>7, <1>8

\* A pause is no verdict.
LEMMA PausesAreHonest ==
  ASSUME RunInv, EndsHonest, NEW w \in Worker,
         \/ PauseForApproval(w) \/ CallInProgress(w) \/ CallUnknown(w) \/ LoseCall(w)
  PROVE  EndsHonest'
  <1>1. mem[w] \in State
    BY AtNode
  <1>2. PICK s \in Waiting : \E from : Step(w, from, "End", [mem[w] EXCEPT !.status = s])
    BY DEF PauseForApproval, CallInProgress, CallUnknown, LoseCall, Paused, Waiting
  <1>3. Honest([mem[w] EXCEPT !.status = s])
    BY <1>1 DEF Honest, State
  <1> QED BY <1>2, <1>3, StepIsHonest

\* The verdict is read off the evidence, and the diff off the tree it is about.
LEMMA VerdictIsHonest ==
  ASSUME RunInv, TreeInv, EndsHonest, NEW w \in Worker, FinalAnswer(w)
  PROVE  EndsHonest'
  <1> DEFINE m == mem[w]
             t == [m EXCEPT !.diff = ws, !.status = Verdict(m)]
  <1>1. m \in State /\ Vouched("Final", m) /\ Step(w, "Final", "End", t)
    BY AtTree DEF FinalAnswer, Step
  <1>2. /\ t.base = m.base /\ t.targeted = m.targeted /\ t.regression = m.regression
        /\ t.apply = m.apply /\ t.status = Verdict(m)
    BY <1>1 DEF State
  <1> HIDE DEF t
  <1>3. t.status \in Terminal /\ (t.status = "verified_success" => EvidenceIsComplete(t))
    BY <1>1, <1>2, Verdicts DEF EvidenceIsComplete
  <1>4. ASSUME Shipped(t) PROVE t.status = "verified_success"
    <2>1. m.base = "failed" /\ m.targeted = "passed" /\ m.regression = "passed"
      BY <1>2, <1>4 DEF Shipped
    <2>2. m.apply = "ok"
      BY <1>1, <2>1 DEF Vouched
    <2> QED BY <1>2, <2>1, <2>2 DEF Verdict
  <1>5. Honest(t)
    BY <1>3, <1>4 DEF Honest
  <1> QED BY <1>1, <1>5, StepIsHonest

LEMMA JobsAreHonest ==
  ASSUME RunInv, EndsHonest, NEW w \in Worker,
         \/ RunJob(w) \/ RehydrationFails(w) \/ ResumeApproval(w) \/ Return(w) \/ Raise(w)
         \/ Crash(w) \/ AskApproval(w) \/ BeginCall(w)
         \/ \E r \in 1..MaxRounds : ResumeExecution(w, r) \/ Watchdog(w, r)
  PROVE  EndsHonest'
  <1>1. CASE Return(w) \/ Raise(w) \/ Crash(w)
    <2>1. Goto(w, "idle", InitialState) /\ saved' = saved
      BY <1>1 DEF Return, Raise, Crash, Idle, Goto
    <2> QED BY <2>1, GotoIsHonest
  <1>2. CASE AskApproval(w) \/ BeginCall(w)
    <2>1. saved' = saved /\ \E next \in {"Asked", "Calling"} : Goto(w, next, mem[w])
      BY <1>2 DEF AskApproval, BeginCall
    <2> QED BY <2>1, GotoIsHonest
  <1>3. ASSUME NEW next \in {"Observe", "CallMCP"}, NEW st, Resume(w, next, st)
        PROVE  EndsHonest'
    <2>1. /\ Goto(w, next, Merged(st))
          /\ saved' = saved \/ saved' = [next |-> next, st |-> Merged(st)]
      BY <1>3 DEF Resume, Merged
    <2> QED BY <2>1, GotoIsHonest
  <1>4. CASE ResumeApproval(w)
    BY <1>3, <1>4 DEF ResumeApproval
  <1>5. ASSUME NEW r \in 1..MaxRounds, ResumeExecution(w, r) \/ Watchdog(w, r)
        PROVE  EndsHonest'
    <2>1. Resume(w, "CallMCP", execs[r].st) \/ UNCHANGED <<saved, node, mem>>
      BY <1>5 DEF ResumeExecution, Watchdog
    <2> QED BY <1>3, <2>1 DEF EndsHonest
  <1>6. CASE RehydrationFails(w) \/ (RunJob(w) /\ run \in Terminal)
    <2>1. UNCHANGED <<saved, node, mem>>
      BY <1>6 DEF RehydrationFails, RunJob
    <2> QED BY <2>1 DEF EndsHonest
  <1>7. CASE RunJob(w) /\ run \notin Terminal
    <2>1. CASE saved.next = "none"
      <3>1. /\ Goto(w, "Reproduce", InitialState)
            /\ saved' = saved \/ saved' = [next |-> "Reproduce", st |-> InitialState]
        BY <1>7, <2>1 DEF RunJob
      <3> QED BY <3>1, GotoIsHonest
    <2>2. CASE saved.next # "none"
      <3>1. Goto(w, saved.next, saved.st) /\ saved' = saved
        BY <1>7, <2>2 DEF RunJob
      <3> QED BY <3>1, GotoIsHonest DEF EndsHonest
    <2> QED BY <2>1, <2>2
  <1> QED BY <1>1, <1>2, <1>4, <1>5, <1>6, <1>7

LEMMA HonestStep == RunInv /\ TreeInv /\ EndsHonest /\ [Next]_vars => EndsHonest'
  <1> SUFFICES ASSUME RunInv, TreeInv, EndsHonest, [Next]_vars PROVE EndsHonest'
    OBVIOUS
  <1>1. ASSUME NEW w \in Worker, Node(w) PROVE EndsHonest'
    BY <1>1, NodesGoOn, PausesAreHonest, VerdictIsHonest, JobsAreHonest DEF Node
  <1>2. ASSUME NEW w \in Worker,
               RunJob(w) \/ RehydrationFails(w) \/ ResumeApproval(w) \/ Raise(w) \/ Crash(w)
                 \/ \E r \in 1..MaxRounds : ResumeExecution(w, r) \/ Watchdog(w, r)
        PROVE  EndsHonest'
    BY <1>2, JobsAreHonest
  <1>3. ASSUME NEW r \in 1..MaxRounds, Reconcile(r) PROVE EndsHonest'
    BY <1>3 DEF Reconcile, workerVars, EndsHonest
  <1>4. CASE UNCHANGED vars
    BY <1>4 DEF vars, EndsHonest
  <1> QED BY <1>1, <1>2, <1>3, <1>4 DEF Next

\* What a step does to the row: only a graph that ends gives it another diff.
LEMMA RowMoves ==
  ASSUME [Next]_vars
  PROVE  \/ UNCHANGED <<run, final>>
         \/ run' \in Waiting \union {"running", "infra_error"} /\ final' = final
         \/ \E w \in Worker : Return(w) /\ mem[w].status \notin Waiting
  <1> DEFINE Kept == \/ UNCHANGED <<run, final>>
                     \/ run' \in Waiting \union {"running", "infra_error"} /\ final' = final
  <1> USE DEF Waiting
  <1>1. ASSUME NEW w \in Worker, Node(w), ~Return(w) PROVE Kept
    <2>1. CASE \/ Reproduce(w) \/ Plan(w) \/ Execute(w) \/ SkipMCP(w) \/ PlanCall(w)
               \/ PauseForApproval(w) \/ BeginCall(w) \/ ReadCall(w) \/ CallInProgress(w)
      BY <2>1 DEF Reproduce, Plan, Execute, SkipMCP, PlanCall, PauseForApproval, BeginCall,
                  ReadCall, CallInProgress
    <2>2. CASE \/ EndCall(w) \/ Observe(w) \/ GeneratePatch(w) \/ ApplyPatch(w)
               \/ TargetedTests(w) \/ RegressionChecks(w) \/ Reflect(w) \/ FinalAnswer(w)
      BY <2>2 DEF EndCall, Observe, GeneratePatch, ApplyPatch, TargetedTests,
                  RegressionChecks, Reflect, FinalAnswer
    <2>3. CASE AskApproval(w) \/ CallUnknown(w) \/ LoseCall(w)
      BY <2>3 DEF AskApproval, CallUnknown, LoseCall, MarkWaiting
    <2> QED BY <1>1, <2>1, <2>2, <2>3 DEF Node
  <1>2. ASSUME NEW w \in Worker, Return(w), mem[w].status \in Waiting PROVE Kept
    BY <1>2 DEF Return
  <1>3. ASSUME NEW w \in Worker,
               RunJob(w) \/ RehydrationFails(w) \/ ResumeApproval(w) \/ Raise(w) \/ Crash(w)
        PROVE  Kept
    BY <1>3 DEF RunJob, RehydrationFails, ResumeApproval, Resume, Raise, Crash
  <1>4. ASSUME NEW w \in Worker, NEW r \in 1..MaxRounds, ResumeExecution(w, r) \/ Watchdog(w, r)
        PROVE  Kept
    BY <1>4 DEF ResumeExecution, Watchdog, Resume, MarkWaiting
  <1>5. ASSUME NEW r \in 1..MaxRounds, Reconcile(r) PROVE Kept
    BY <1>5 DEF Reconcile
  <1>6. CASE UNCHANGED vars
    BY <1>6 DEF vars
  <1> QED BY <1>1, <1>2, <1>3, <1>4, <1>5, <1>6 DEF Next

LEMMA RowStep ==
  ASSUME RunInv, TreeInv, EndsHonest, [Next]_vars
  PROVE  [Shown!Next]_(Shown!contractVars)
  <1> USE DEF Shown!contractVars
  <1>1. CASE UNCHANGED <<run, final>>
    BY <1>1 DEF StoredDiff
  <1>2. CASE run' \in Waiting \union {"running", "infra_error"} /\ final' = final
    <2>1. StoredDiff' = StoredDiff
      BY <1>2 DEF StoredDiff
    <2>2. CASE run' = "infra_error"
      BY <2>1, <2>2 DEF Shown!Give, Shown!Verdict, Shown!Next
    <2>3. CASE run' # "infra_error"
      BY <1>2, <2>1, <2>3 DEF Waiting, Shown!Paused, Shown!Work, Shown!Next
    <2> QED BY <2>2, <2>3
  <1>3. ASSUME NEW w \in Worker, Return(w), mem[w].status \notin Waiting
        PROVE  Shown!Next
    <2>1. node[w] = "End" /\ final' = mem[w] /\ mem[w] \in State
      BY <1>3, AtNode DEF Return
    <2>2. final' # Nothing
      BY <2>1, NothingAssumption
    <2>3. /\ mem[w].status \in Terminal
          /\ mem[w].status = "verified_success" => EvidenceIsComplete(mem[w])
          /\ mem[w].status = "verified_success" <=> Shipped(mem[w])
      BY <1>3, <2>1, AtTree DEF EndsHonest, Honest, Vouched
    <2>4. run' = mem[w].status
      BY <1>3, <2>3 DEF Return
    <2>5. CASE Shipped(mem[w])
      <3>1. StoredDiff' = "verified"
        BY <2>1, <2>2, <2>5 DEF StoredDiff, Shipped
      <3> QED BY <2>3, <2>4, <2>5, <3>1 DEF Shown!Give, Shown!Verdict, Shown!Next
    <2>6. CASE ~Shipped(mem[w])
      <3>1. StoredDiff' \in {"none", "unverified"}
        BY <2>1, <2>2, <2>6 DEF StoredDiff, Shipped
      <3> QED BY <2>3, <2>4, <2>6, <3>1 DEF Terminal, Shown!Give, Shown!Verdict, Shown!Next
    <2> QED BY <2>5, <2>6
  <1> QED BY <1>1, <1>2, <1>3, RowMoves

\* One worker at a time, a run keeps to what GitHubRepair knows of it: it changes its diff only
\* with a verdict, and calls a run verified if and only if it stores with it the very tree on
\* which the tests passed (_persist_final_state, _invoke_fix_graph).
THEOREM RunKeepsContract == Spec /\ Alone => Shown!Spec
  <1>1. Init => Shown!Init /\ EndsHonest
    BY DEF Init, Shown!Init, StoredDiff, EndsHonest
  <1>2. RunInv /\ TreeInv /\ EndsHonest /\ [Next]_vars => [Shown!Next]_(Shown!contractVars)
    BY RowStep
  <1>3. Alone /\ [Next]_vars => Alone'
    BY DEF Alone
  <1> QED BY <1>1, <1>2, <1>3, HonestStep, RunAlways, TreeAlways, PTL DEF Spec, Shown!Spec
=============================================================================
