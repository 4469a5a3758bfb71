----------------------------- MODULE RepairRun -----------------------------
(***************************************************************************)
(* One repair run: the graph of agent/graph.py with the nodes that          *)
(* services/agent_service.py gives it, the verdict rules of                 *)
(* agent/verification.py, the budgets of agent/loop.py, and the jobs that   *)
(* start, retry and resume the run.                                         *)
(*                                                                          *)
(* A node is one super-step: it changes the graph state in the worker's     *)
(* memory and, through its tools, the workspace directory of the run.       *)
(* LangGraph writes the checkpoint of a super-step in the background, so a  *)
(* crash may find any earlier one; a finished invocation has written all.   *)
(* Nodes that only load data (InspectRepository, InitializeAgentLoop) and   *)
(* the two pause nodes are part of the node before or after them, and a     *)
(* planned MCP round has one call.                                          *)
(***************************************************************************)
EXTENDS Naturals, FiniteSets

CONSTANTS
  Patch,            \* diffs the language model may propose
  Worker,           \* RQ workers
  Nothing,          \* the empty diff, a missing row, a missing directory
  Unset,            \* a channel of the graph state that no node has written
  ResetResults,     \* what `git reset' and `git clean' may report
  MaxIterations,    \* settings.max_agent_iterations
  MaxPlannerCalls,  \* settings.agent_max_planner_calls
  MaxToolCalls,     \* settings.agent_max_local_tool_calls
  MaxIdle,          \* settings.agent_max_no_progress_steps
  MaxRounds,        \* settings.mcp_tool_router_max_rounds
  MaxTries,         \* executions of the run's job: 1 + Retry(max=...)
  MaxResumes        \* bound on the resumptions of executions

VARIABLES
  run,       \* AgentRun.status
  final,     \* the graph state that _persist_final_state stored last
  saved,     \* the latest checkpoint: [next, st]
  owed,      \* the run's job is in the queue
  tries,     \* how often it has been started
  approval,  \* the run's MCP approval: [open, st]
  execs,     \* ledger rows of automatic calls, by round: [status, st]
  resumes,   \* executions resumed so far
  node,      \* each worker: the node it runs
  job,       \* each worker: "run" or "resume"
  mem,       \* each worker: the graph state of its invocation
  ws         \* the patches applied in the directory sandbox-runs/<run id>

queueVars == <<owed, tries>>
mcpVars == <<approval, execs, resumes>>
workerVars == <<node, job, mem>>
vars == <<run, final, saved, owed, tries, approval, execs, resumes, node, job, mem, ws>>

ASSUME RepairAssumption ==
  /\ Nothing \notin Patch /\ Unset \notin Patch /\ Nothing # Unset
  /\ ResetResults \subseteq BOOLEAN
  /\ MaxIterations # 0    \* validate_security_config refuses to start with less
  /\ \A bound \in {MaxIterations, MaxPlannerCalls, MaxToolCalls, MaxIdle, MaxRounds,
                   MaxTries, MaxResumes} : bound \in Nat

-----------------------------------------------------------------------------
(* Evidence (agent/verification.py, sandbox/runner.py) *)
InfrastructureExits == {124, 125, 126, 127}
Kind == {"none", "test_failure", "skipped", "infrastructure"}

RawResult ==
  [passed : BOOLEAN, exit : {0, 1, 124}, ran : BOOLEAN, timedOut : BOOLEAN,
   skipped : BOOLEAN, kind : Kind]

\* SandboxTestResult.__post_init__ derives `passed' and `failure_kind'.
Normalized(r) ==
  [r EXCEPT
    !.passed = /\ r.ran /\ r.exit = 0 /\ @ /\ r.kind = "none"
               /\ ~r.timedOut /\ ~r.skipped,
    !.kind = IF @ # "none" THEN @
             ELSE IF r.skipped THEN "skipped"
             ELSE IF r.timedOut \/ ~r.ran \/ r.exit \in InfrastructureExits
               THEN "infrastructure"
             ELSE IF r.exit # 0 THEN "test_failure" ELSE "none"]

Classify(r) ==
  IF r.kind = "infrastructure" \/ r.timedOut THEN "infra_error"
  ELSE IF r.kind = "skipped" \/ r.skipped THEN "skipped"
  ELSE IF r.kind = "test_failure" THEN "failed"
  ELSE IF ~r.ran THEN "infra_error"
  ELSE IF r.passed /\ r.exit = 0 THEN "passed"
  ELSE IF r.exit \in InfrastructureExits THEN "infra_error"
  ELSE "failed"

\* What run_tests can bring back.
TestOutcome == {Classify(Normalized(r)) : r \in RawResult}

\* The result the targeted phase records for a patch that did not apply.
NotApplied ==
  Classify([passed |-> FALSE, exit |-> 1, ran |-> FALSE, timedOut |-> FALSE,
            skipped |-> FALSE, kind |-> "patch_error"])

Verdict(st) ==
  CASE st.base = "infra_error" -> "infra_error"
    [] st.base = "passed" -> "not_reproduced"
    [] OTHER ->
       CASE st.apply # "ok" -> "failed"
         [] st.apply = "ok" /\ st.targeted # "passed" ->
              (CASE st.targeted = "infra_error" -> "infra_error"
                 [] st.targeted \in {"skipped", "not_run"} -> "unverified_patch"
                 [] st.targeted = "failed" -> "failed")
         [] st.apply = "ok" /\ st.targeted = "passed" ->
              (CASE st.regression = "infra_error" -> "infra_error"
                 [] st.regression \in {"skipped", "not_run"} -> "unverified_patch"
                 [] st.regression = "failed" -> "failed"
                 [] OTHER -> IF st.base = "failed" THEN "verified_success"
                                                   ELSE "unverified_patch")

EvidenceIsComplete(st) ==
  /\ st.base = "failed" /\ st.targeted = "passed" /\ st.regression = "passed"
  /\ st.apply = "ok"

Terminal == {"verified_success", "unverified_patch", "not_reproduced", "failed",
             "infra_error"}
Waiting == {"waiting_approval", "waiting_reconciliation"}

-----------------------------------------------------------------------------
(* The graph state.  The *On fields are history: the workspace a phase ran in. *)
InitialState ==
  [base |-> "not_run", targeted |-> "not_run", regression |-> "not_run",
   baseOn |-> {}, targetedOn |-> {}, regressionOn |-> {}, diff |-> {},
   patch |-> Unset, apply |-> Unset, tried |-> {}, iterations |-> 0,
   calls |-> 0, tools |-> 0, idle |-> 0, rounds |-> 0,
   action |-> "none", stop |-> FALSE, status |-> "running"]

Init ==
  /\ run = "pending" /\ final = Nothing
  /\ saved = [next |-> "none", st |-> InitialState]
  /\ owed = TRUE /\ tries = 0
  /\ approval = [open |-> FALSE, st |-> InitialState]
  /\ execs = [r \in 1..MaxRounds |-> [status |-> "none", st |-> InitialState]]
  /\ resumes = 0
  /\ node = [w \in Worker |-> "idle"]
  /\ job = [w \in Worker |-> "run"]
  /\ mem = [w \in Worker |-> InitialState]
  /\ ws = Nothing

Goto(w, next, st) ==
  /\ node' = [node EXCEPT ![w] = next]
  /\ mem' = [mem EXCEPT ![w] = st]

\* The end of a super-step
Step(w, from, next, st) ==
  /\ node[w] = from
  /\ Goto(w, next, st)
  /\ LET checkpoint == [next |-> next, st |-> st]
     IN saved' \in (IF next = "End" THEN {checkpoint} ELSE {saved, checkpoint})

Idle(w) == node' = [node EXCEPT ![w] = "idle"] /\ mem' = [mem EXCEPT ![w] = InitialState]

-----------------------------------------------------------------------------
(* Reproduce, plan, investigate *)
RetryOrFinish(st) == IF st.iterations >= MaxIterations THEN "Final" ELSE "Reflect"

\* A tool that finds no directory raises.
HasWorkspace == ws # Nothing

\* A test phase on the workspace as it is.
Reproduce(w) ==
  \E outcome \in TestOutcome :
    /\ HasWorkspace
    /\ Step(w, "Reproduce", IF outcome \in {"passed", "infra_error"} THEN "Final" ELSE "Plan",
            [mem[w] EXCEPT !.base = outcome, !.baseOn = ws])
    /\ UNCHANGED <<run, final, queueVars, mcpVars, job, ws>>

\* Counters stop above their budget, where no guard tells them apart.
Count(n, budget) == IF n > budget THEN n ELSE n + 1

PlannerUnbounded(st) == FALSE  \* a faulty variant, used to test InvocationEnds
PlannerExhausted(st) == st.calls >= MaxPlannerCalls \/ st.idle >= MaxIdle

\* The planner may finish at any time: of its own accord, after an error, and
\* when its tokens or the run's time are used up.
Plan(w) ==
  \E action \in {"finish", "generate", "tool"} :
    /\ PlannerExhausted(mem[w]) => action = "finish"
    /\ Step(w, "Plan", "Execute", [mem[w] EXCEPT !.action = action, !.calls = Count(@, MaxPlannerCalls)])
    /\ UNCHANGED <<run, final, queueVars, mcpVars, job, ws>>

\* A step without progress: a rejected action, or an observation that is old.
Stall(st) == [st EXCEPT !.idle = Count(@, MaxIdle), !.stop = (st.idle + 1 >= MaxIdle)]

\* An action that fails its schema is rejected before the tool budget is looked at.
Observed(st) ==
  {Stall(st)} \union
  (IF st.tools >= MaxToolCalls THEN {[st EXCEPT !.stop = TRUE]}
   ELSE {Stall([st EXCEPT !.tools = @ + 1]),
         [st EXCEPT !.tools = @ + 1, !.idle = 0, !.stop = FALSE]})

Execute(w) ==
  /\ \/ /\ mem[w].action = "finish"
        /\ Step(w, "Execute", "Final", [mem[w] EXCEPT !.stop = TRUE])
     \/ /\ mem[w].action = "generate"
        /\ Step(w, "Execute", "PlanMCP", [mem[w] EXCEPT !.stop = FALSE])
     \/ /\ mem[w].action = "tool"
        /\ \E st \in Observed(mem[w]) :
             Step(w, "Execute", IF st.stop THEN "Final" ELSE "Plan", st)
  /\ UNCHANGED <<run, final, queueVars, mcpVars, job, ws>>

-----------------------------------------------------------------------------
(* The MCP rounds.  The ledger and the approval are the ones of MCPExecution *)
(* and MCPApproval, here with the checkpoint each of them stores.            *)
MarkWaiting == run' = IF run \in Terminal THEN run ELSE "waiting_reconciliation"

SkipMCP(w) ==
  /\ Step(w, "PlanMCP", "Generate", mem[w])
  /\ UNCHANGED <<run, final, queueVars, mcpVars, job, ws>>

PlanCall(w) ==
  /\ mem[w].rounds < MaxRounds
  /\ Step(w, "PlanMCP", "CallMCP", mem[w])
  /\ UNCHANGED <<run, final, queueVars, mcpVars, job, ws>>

\* create_pending commits the approval and the run; an approval that is still
\* open is returned as it is.  The node's own checkpoint comes later.
AskApproval(w) ==
  /\ node[w] = "PlanMCP" /\ mem[w].rounds < MaxRounds
  /\ IF approval.open
       THEN UNCHANGED <<approval, run>>
       ELSE approval' = [open |-> TRUE, st |-> mem[w]] /\ run' = "waiting_approval"
  /\ Goto(w, "Asked", mem[w])
  /\ UNCHANGED <<saved, final, queueVars, execs, resumes, job, ws>>

PauseForApproval(w) ==
  /\ Step(w, "Asked", "End", [mem[w] EXCEPT !.status = "waiting_approval"])
  /\ UNCHANGED <<run, final, queueVars, mcpVars, job, ws>>

Round(w) == mem[w].rounds + 1
Called(w) == [mem[w] EXCEPT !.rounds = @ + 1]
Paused(w) == [mem[w] EXCEPT !.status = "waiting_reconciliation"]

\* prepare keeps the checkpoint of the first attempt; claim takes a row whose
\* lease ran out only if the call may be retried.
BeginCall(w) ==
  LET row == execs[Round(w)]
  IN /\ node[w] = "CallMCP"
     /\ row.status \in {"none", "prepared", "executing"}
     /\ execs' = [execs EXCEPT ![Round(w)] =
          [status |-> "executing", st |-> IF row.status = "none" THEN mem[w] ELSE row.st]]
     /\ Goto(w, "Calling", mem[w])
     /\ UNCHANGED <<run, saved, final, queueVars, approval, resumes, job, ws>>

ReadCall(w) ==
  /\ Step(w, "CallMCP", "Observe", Called(w))
  /\ execs[Round(w)].status = "settled"
  /\ UNCHANGED <<run, final, queueVars, mcpVars, job, ws>>

\* Another worker holds the lease: the graph pauses, the run's row does not say so.
CallInProgress(w) ==
  /\ Step(w, "CallMCP", "End", Paused(w))
  /\ execs[Round(w)].status = "executing"
  /\ UNCHANGED <<run, final, queueVars, mcpVars, job, ws>>

CallUnknown(w) ==
  /\ Step(w, "CallMCP", "End", Paused(w))
  /\ execs[Round(w)].status \in {"executing", "unknown"}
  /\ execs' = [execs EXCEPT ![Round(w)].status = "unknown"]
  /\ MarkWaiting
  /\ UNCHANGED <<final, queueVars, approval, resumes, job, ws>>

Settle(r, status) ==
  execs' = [execs EXCEPT ![r].status = IF @ = "executing" THEN status ELSE @]

EndCall(w) ==
  /\ Step(w, "Calling", "Observe", Called(w))
  /\ Settle(Round(w), "settled")
  /\ UNCHANGED <<run, final, queueVars, approval, resumes, job, ws>>

LoseCall(w) ==
  /\ Step(w, "Calling", "End", Paused(w))
  /\ Settle(Round(w), "unknown")
  /\ MarkWaiting
  /\ UNCHANGED <<final, queueVars, approval, resumes, job, ws>>

Observe(w) ==
  /\ Step(w, "Observe", IF mem[w].rounds >= MaxRounds THEN "Generate" ELSE "PlanMCP", mem[w])
  /\ UNCHANGED <<run, final, queueVars, mcpVars, job, ws>>

-----------------------------------------------------------------------------
(* Patch, test, reflect *)
Repeats(st, p) == FALSE        \* a faulty variant, used to test EachIterationIsNew
AlreadyTried(st, p) == p \in st.tried

GeneratePatch(w) ==
  \E p \in Patch \union {Nothing} :
    LET st == [mem[w] EXCEPT !.patch = p]
    IN /\ IF AlreadyTried(mem[w], p)
            THEN Step(w, "Generate", "Plan", [st EXCEPT !.idle = Count(@, MaxIdle)])
            ELSE Step(w, "Generate", "Apply",
                      [st EXCEPT !.idle = 0, !.tried = @ \union {p}])
       /\ UNCHANGED <<run, final, queueVars, mcpVars, job, ws>>

\* `git apply --check' first: a patch that does not apply leaves no trace.
ApplyPatch(w) ==
  /\ HasWorkspace
  /\ \/ /\ mem[w].patch \in Patch
        /\ Step(w, "Apply", "Targeted", [mem[w] EXCEPT !.apply = "ok"])
        /\ ws' = ws \union {mem[w].patch}
     \/ /\ Step(w, "Apply", "Targeted", [mem[w] EXCEPT !.apply = "no"])
        /\ UNCHANGED ws
  /\ UNCHANGED <<run, final, queueVars, mcpVars, job>>

AfterTargeted(st) ==
  CASE st.apply # "ok" -> RetryOrFinish(st)
    [] st.apply = "ok" /\ st.targeted = "passed" -> "Regression"
    [] st.apply = "ok" /\ st.targeted = "failed" -> RetryOrFinish(st)
    [] OTHER -> "Final"

TargetedTests(w) ==
  \E outcome \in IF mem[w].apply = "ok" THEN TestOutcome ELSE {NotApplied} :
    HasWorkspace /\ LET st == [mem[w] EXCEPT !.targeted = outcome, !.targetedOn = ws,
                             !.regression = "not_run", !.iterations = @ + 1]
    IN /\ Step(w, "Targeted", AfterTargeted(st), st)
       /\ UNCHANGED <<run, final, queueVars, mcpVars, job, ws>>

RegressionChecks(w) ==
  \E outcome \in TestOutcome :
    HasWorkspace /\ LET st == [mem[w] EXCEPT !.regression = outcome, !.regressionOn = ws]
    IN /\ Step(w, "Regression", IF outcome = "failed" THEN RetryOrFinish(st) ELSE "Final", st)
       /\ UNCHANGED <<run, final, queueVars, mcpVars, job, ws>>

LeftAsIs(tree, ok) == tree     \* a faulty variant, used to test CleanTree
CleanedUp(tree, ok) == IF ok THEN {} ELSE tree

\* What reset_workspace reports is recorded and not looked at.
Reflect(w) ==
  \E ok \in ResetResults :
    /\ HasWorkspace
    /\ ws' = CleanedUp(ws, ok)
    /\ Step(w, "Reflect", IF mem[w].stop THEN "Final" ELSE "Plan",
            [mem[w] EXCEPT !.patch = Nothing, !.apply = "no"])
    /\ UNCHANGED <<run, final, queueVars, mcpVars, job>>

FinalAnswer(w) ==
  /\ HasWorkspace
  /\ Step(w, "Final", "End", [mem[w] EXCEPT !.diff = ws, !.status = Verdict(mem[w])])
  /\ UNCHANGED <<run, final, queueVars, mcpVars, job, ws>>

\* The workspace is removed, then a verdict is stored; a pause is not.
Return(w) ==
  /\ node[w] = "End"
  /\ ws' = Nothing
  /\ IF mem[w].status \in Waiting
       THEN UNCHANGED <<run, final>>
       ELSE /\ run' = IF mem[w].status = "verified_success" /\ ~EvidenceIsComplete(mem[w])
                        THEN "infra_error" ELSE mem[w].status
            /\ final' = mem[w]
  /\ Idle(w)
  /\ UNCHANGED <<saved, queueVars, mcpVars, job>>

-----------------------------------------------------------------------------
(* Jobs *)
NeedsPatch(checkpoint) ==
  /\ checkpoint.st.patch \in Patch /\ checkpoint.st.apply = "ok"
  /\ checkpoint.next \in {"Targeted", "Regression", "Reflect", "Final"}

NotRehydrated(checkpoint) == {}    \* a faulty variant, used to test VerifiedAsShipped
Rehydrated(checkpoint) == IF NeedsPatch(checkpoint) THEN {checkpoint.st.patch} ELSE {}

TakeJob(w) ==
  /\ node[w] = "idle" /\ owed /\ tries < MaxTries
  /\ owed' = FALSE /\ tries' = tries + 1
  /\ job' = [job EXCEPT ![w] = "run"]

\* run_fix: a terminal run is left alone; else start, continue from the next
\* node of the checkpoint, or return what a finished graph has saved.
RunJob(w) ==
  /\ TakeJob(w)
  /\ IF run \in Terminal
       THEN UNCHANGED <<run, saved, node, mem, ws>>
       ELSE /\ run' = "running"
            /\ IF saved.next = "none"
                 THEN /\ Goto(w, "Reproduce", InitialState)
                      /\ saved' \in {saved, [next |-> "Reproduce", st |-> InitialState]}
                 ELSE Goto(w, saved.next, saved.st) /\ UNCHANGED saved
            /\ ws' = IF saved.next = "End" THEN {} ELSE Rehydrated(saved)
  /\ UNCHANGED <<final, mcpVars>>

\* The saved patch no longer applies to the indexed repository.
RehydrationFails(w) ==
  /\ TakeJob(w)
  /\ run \notin Terminal /\ NeedsPatch(saved)
  /\ run' = "infra_error"
  /\ ws' = Nothing
  /\ UNCHANGED <<final, saved, mcpVars, node, mem>>

\* An invocation with an input: the keys of `st' overwrite the channels of the
\* thread, channels that `st' has no value for keep theirs.
Resume(w, next, st) ==
  LET merged == [st EXCEPT !.patch = IF @ = Unset THEN saved.st.patch ELSE @,
                           !.apply = IF @ = Unset THEN saved.st.apply ELSE @]
  IN /\ node[w] = "idle"
     /\ run' = "running"
     /\ job' = [job EXCEPT ![w] = "resume"]
     /\ ws' = {}
     /\ Goto(w, next, merged)
     /\ saved' \in {saved, [next |-> next, st |-> merged]}

\* A decided or expired approval, once its call is done (see MCPApproval).
ResumeApproval(w) ==
  /\ approval.open
  /\ approval' = [approval EXCEPT !.open = FALSE]
  /\ Resume(w, "Observe", [approval.st EXCEPT !.rounds = @ + 1])
  /\ UNCHANGED <<final, queueVars, execs, resumes>>

\* After a reconciliation, or when an administrator asks for it: neither the
\* route nor the job looks at the status of the run.
ResumeExecution(w, r) ==
  /\ execs[r].status \in {"settled", "prepared"}
  /\ resumes < MaxResumes /\ resumes' = resumes + 1
  /\ Resume(w, "CallMCP", execs[r].st)
  /\ UNCHANGED <<final, queueVars, approval, execs>>

Reconcile(r) ==
  /\ execs[r].status = "unknown"
  /\ \E status \in {"settled", "prepared"} : execs' = [execs EXCEPT ![r].status = status]
  /\ UNCHANGED <<run, final, saved, queueVars, approval, resumes, workerVars, ws>>

\* The watchdog of an expired lease: the call is resumed or given up.
Watchdog(w, r) ==
  /\ execs[r].status = "executing" /\ node[w] = "idle"
  /\ \/ /\ resumes < MaxResumes /\ resumes' = resumes + 1
        /\ execs' = [execs EXCEPT ![r].status = "prepared"]
        /\ Resume(w, "CallMCP", execs[r].st)
     \/ /\ execs' = [execs EXCEPT ![r].status = "unknown"]
        /\ MarkWaiting
        /\ UNCHANGED <<saved, node, job, mem, ws, resumes>>
  /\ UNCHANGED <<final, queueVars, approval>>

\* An exception in a node closes the run.
Raise(w) ==
  /\ node[w] \notin {"idle", "End"}
  /\ run' = "infra_error"
  /\ ws' = Nothing
  /\ Idle(w)
  /\ UNCHANGED <<final, saved, queueVars, mcpVars, job>>

\* RQ retries the run's job; the resume jobs have no retry.
Crash(w) ==
  /\ node[w] # "idle"
  /\ Idle(w)
  /\ owed' = (owed \/ (job[w] = "run" /\ tries < MaxTries))
  /\ UNCHANGED <<run, final, saved, tries, mcpVars, job, ws>>

-----------------------------------------------------------------------------
Node(w) ==
  \/ Reproduce(w) \/ Plan(w) \/ Execute(w)
  \/ SkipMCP(w) \/ PlanCall(w) \/ AskApproval(w) \/ PauseForApproval(w)
  \/ BeginCall(w) \/ ReadCall(w) \/ CallInProgress(w) \/ CallUnknown(w)
  \/ EndCall(w) \/ LoseCall(w) \/ Observe(w)
  \/ GeneratePatch(w) \/ ApplyPatch(w) \/ TargetedTests(w) \/ RegressionChecks(w)
  \/ Reflect(w) \/ FinalAnswer(w) \/ Return(w)

Next ==
  \/ \E w \in Worker :
       \/ Node(w) \/ RunJob(w) \/ RehydrationFails(w) \/ ResumeApproval(w)
       \/ Raise(w) \/ Crash(w)
       \/ \E r \in 1..MaxRounds : ResumeExecution(w, r) \/ Watchdog(w, r)
  \/ \E r \in 1..MaxRounds : Reconcile(r)

Spec == Init /\ [][Next]_vars

\* A worker that runs a graph goes on to its next node, or the node raises.
FairSpec == Spec /\ \A w \in Worker : WF_vars(Node(w) \/ Raise(w))

-----------------------------------------------------------------------------
(* Properties *)
Place == {"Reproduce", "Plan", "Execute", "PlanMCP", "CallMCP", "Observe", "Generate",
          "Apply", "Targeted", "Regression", "Reflect", "Final", "End"}

State ==
  [base : TestOutcome \union {"not_run"}, targeted : TestOutcome \union {"not_run"},
   regression : TestOutcome \union {"not_run"},
   baseOn : SUBSET Patch, targetedOn : SUBSET Patch, regressionOn : SUBSET Patch,
   diff : SUBSET Patch, patch : Patch \union {Nothing, Unset},
   apply : {Unset, "ok", "no"}, tried : SUBSET (Patch \union {Nothing}),
   iterations : 0..MaxIterations, calls : 0..(MaxPlannerCalls + 1),
   tools : 0..MaxToolCalls, idle : 0..(MaxIdle + 1), rounds : 0..MaxRounds,
   action : {"none", "finish", "generate", "tool"}, stop : BOOLEAN,
   status : Terminal \union Waiting \union {"running"}]

\* Every variable has its type.  The bounds on the counters of the graph state
\* are the budgets of agent/loop.py and _retry_or_finish: a loop that misses one
\* by a step, or a resumption that restarts a counter past it, leaves the type.
TypeOK ==
  /\ run \in Terminal \union Waiting \union {"pending", "running"}
  /\ final = Nothing \/ final \in State
  /\ saved.next \in Place \union {"none"} /\ saved.st \in State
  /\ owed \in BOOLEAN /\ tries \in 0..MaxTries
  /\ approval.open \in BOOLEAN /\ approval.st \in State
  /\ \A r \in 1..MaxRounds :
       /\ execs[r].status \in {"none", "prepared", "executing", "unknown", "settled"}
       /\ execs[r].st \in State
  /\ resumes \in 0..MaxResumes
  /\ \A w \in Worker :
       /\ node[w] \in Place \union {"idle", "Asked", "Calling"}
       /\ job[w] \in {"run", "resume"} /\ mem[w] \in State
  /\ ws = Nothing \/ ws \subseteq Patch

\* The failure was seen on the repository without a patch, and the diff is the tree on which
\* the targeted and the regression tests passed.
Shipped(st) ==
  /\ st.base = "failed" /\ st.baseOn = {}
  /\ st.targeted = "passed" /\ st.targetedOn = st.diff
  /\ st.regression = "passed" /\ st.regressionOn = st.diff
  /\ st.diff # {}

\* What a run calls verified is what was tested and is stored, through every crash,
\* retry and resumption (agent/verification.py, _invoke_fix_graph).
VerifiedAsShipped == run = "verified_success" => Shipped(final)

\* What the run's row tells those who do not see the graph: the diff, and whether the tests
\* passed on it, whatever the status says.
StoredDiff ==
  IF final = Nothing THEN "none"
  ELSE IF final.diff = {} THEN "none"
  ELSE IF Shipped(final) THEN "verified" ELSE "unverified"

Shown == INSTANCE RunContract WITH status <- run, patch <- StoredDiff

\* Null is not a graph state.
ASSUME NothingAssumption == Nothing \notin State

\* Investigation and the next patch start from the indexed repository: reflect
\* resets the workspace "so the next patch is never stacked on a failed attempt".
CleanTree ==
  \A w \in Worker :
    node[w] \in {"Reproduce", "Plan", "Execute", "PlanMCP", "Asked", "CallMCP", "Calling",
                 "Observe", "Generate", "Apply"} => ws = {}

\* Behind no graph state lie two iterations with the same diff (the duplicate_patch guardrail
\* of generate_patch), whatever pauses, crashes, retries and resumptions lie between them. A
\* resumption with the state of an older call does not know of what was tried after it.
EachIterationIsNew ==
  \A w \in Worker : mem[w].iterations <= Cardinality(mem[w].tried)

\* Whatever the planner answers, a started invocation of the graph comes to its
\* end: the budgets of agent/loop.py bound every loop of the graph.
InvocationEnds == \A w \in Worker : node[w] # "idle" ~> node[w] = "idle"
=============================================================================
