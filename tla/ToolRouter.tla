----------------------------- MODULE ToolRouter -----------------------------
(***************************************************************************)
(* Dynamic MCP calls of one repair run, as the planner asks for them and   *)
(* mcp/router.py lets them through (nodes PlanMCPTools, CallMCPTools and   *)
(* ObserveMCP of agent_service.py, tenant grants of mcp_tenancy_service.py)*)
(* The language model proposes anything; the router checks each proposal   *)
(* against the catalogue, its policies, what the run has observed and the  *)
(* calls it may still make. Whether a call under a key crosses the network *)
(* twice is the ledger's matter (MCPExecution), two graphs of a run that   *)
(* overlap are MCPApproval's.                                              *)
(***************************************************************************)
EXTENDS Integers, FiniteSets, Sequences, Functions

CONSTANTS
  Tool,           \* tools of the configured servers, each of a server of its own
  Argument,       \* arguments that fit the tools' schemas
  Misfit,         \* arguments that do not
  AnyTool,        \* wildcard of a grant
  CallLimit,       \* settings.mcp_tool_router_max_calls_per_run
  RoundLimit,      \* settings.mcp_tool_router_max_rounds
  MaxProposals,   \* bound: proposals of one plan (the router reads 20)
  MaxChanges,     \* bound: changes of policies and grants
  MaxCrashes      \* bound: crashes of the worker

ASSUME RouterAssumption ==
  /\ Misfit \notin Argument /\ AnyTool \notin Tool
  /\ {CallLimit, RoundLimit, MaxProposals, MaxChanges, MaxCrashes} \subseteq Nat

VARIABLES
  policies,   \* the registry's policy of each tool
  grants,     \* unexpired grants for the run's tenant, repository and principal
  client,     \* policies of the tools the running job's client was built with
  graph,      \* state of the run's graph
  savedGraph, \* the checkpoint a retry starts from
  resumed,    \* the graph goes on in a resume job, which RQ does not retry
  issued,     \* history: keys under which a call was issued
  takenBack,     \* history: keys of rounds that a crash took back
  rejected,   \* history: calls that a person has rejected
  changes, crashes

configVars == <<policies, grants, changes>>
runVars == <<client, graph, savedGraph, resumed, issued, takenBack, rejected, crashes>>
routerVars == <<configVars, runVars>>

Call == [tool : Tool, argument : Argument]
Proposal == [tool : Tool, argument : Argument \union {Misfit}]
Proposals == UNION {[1..n -> Proposal] : n \in 0..MaxProposals}
Policy == {"auto", "approval_required", "deny"}
Catalogue == [Tool -> Policy \union {"absent"}]
NoCatalogue == [tool \in Tool |-> "absent"]
Grant == [tool : Tool \union {AnyTool}, effect : {"allow", "deny"},
          permission : {"discover", "execute"}]
Key == [by : {"agent", "approval"}, round : Nat, index : Nat, call : Call]

Graph == [node : {"agent", "plan", "call", "observe", "approval", "execution", "lost"},
          round : 0..RoundLimit, count : Nat, catalogue : Catalogue, calls : Seq(Call),
          cursor : Nat, results : SUBSET Call, observed : SUBSET Call]

RouterTypeOK ==
  /\ policies \in [Tool -> Policy] /\ grants \subseteq Grant /\ client \in Catalogue
  /\ graph \in Graph /\ savedGraph \in Graph /\ resumed \in BOOLEAN
  /\ issued \subseteq Key /\ takenBack \subseteq issued /\ rejected \subseteq Call
  /\ changes \in 0..MaxChanges /\ crashes \in 0..MaxCrashes

-----------------------------------------------------------------------------
(* Grants and catalogue.                                                   *)

\* A matching denial wins over any permission.
IsAllowed(tool, permission) ==
  LET matching == {grant \in grants :
                     grant.tool \in {tool, AnyTool} /\ grant.permission = permission} IN
  /\ \E grant \in matching : grant.effect = "allow"
  /\ \A grant \in matching : grant.effect # "deny"

\* effective_configs filtered by filter_configs, when a job builds its client.
Configured ==
  [tool \in Tool |-> IF IsAllowed(tool, "discover") /\ IsAllowed(tool, "execute")
                     THEN policies[tool] ELSE "absent"]

\* Tools of the servers that answer; the others are errors of the catalogue.
Discovered(configured, answering) ==
  [tool \in Tool |-> IF tool \in answering THEN configured[tool] ELSE "absent"]

-----------------------------------------------------------------------------
(* validate_plan.                                                          *)

Passes(verdict, proposal, catalogue, remaining, observed) ==
  /\ catalogue[proposal.tool] \in {"auto", "approval_required"}
  /\ proposal.argument # Misfit
  /\ proposal \notin observed \union Range(verdict.calls) \union Range(verdict.requests)
  /\ Len(verdict.calls) + Len(verdict.requests) < remaining

\* A proposal that passes is a call or a request for an approval.
Judged(verdict, proposal, catalogue, remaining, observed) ==
  IF ~Passes(verdict, proposal, catalogue, remaining, observed) THEN verdict
  ELSE IF catalogue[proposal.tool] = "auto"
    THEN [verdict EXCEPT !.calls = Append(@, proposal)]
    ELSE [verdict EXCEPT !.requests = Append(@, proposal)]

\* One proposal after the other.
Validated(proposals, catalogue, remaining, observed) ==
  LET verdict[n \in 0..Len(proposals)] ==
        IF n = 0 THEN [calls |-> <<>>, requests |-> <<>>]
        ELSE Judged(verdict[n - 1], proposals[n], catalogue, remaining, observed)
  IN verdict[Len(proposals)]

-----------------------------------------------------------------------------
(* The graph.                                                              *)

RouterInit ==
  /\ policies \in [Tool -> Policy]
  /\ grants = [tool : {AnyTool}, effect : {"allow"}, permission : {"discover", "execute"}]
  /\ client = Configured
  /\ graph = [node |-> "agent", round |-> 0, count |-> 0, catalogue |-> NoCatalogue,
              calls |-> <<>>, cursor |-> 0, results |-> {}, observed |-> {}]
  /\ savedGraph = graph /\ resumed = FALSE
  /\ issued = {} /\ takenBack = {} /\ rejected = {} /\ changes = 0 /\ crashes = 0

\* The checkpoint is written in the background. No retry reads that of a resume job.
Move(new) ==
  /\ graph' = new
  /\ savedGraph' \in (IF resumed THEN {savedGraph} ELSE {savedGraph, new})

\* The local loop, patches and tests: the model asks for a patch once more.
AskForPatch ==
  /\ graph.node = "agent" /\ Move([graph EXCEPT !.node = "plan"])
  /\ UNCHANGED <<configVars, client, resumed, issued, takenBack, rejected, crashes>>

\* Faulty variant: the calls made so far are forgotten.
RemainingAlways(count) == CallLimit

Remaining(count) == CallLimit - count

\* The first request for an approval stands alone; calls and other requests are deferred.
Planned(listed, verdict) ==
  CASE verdict.requests # <<>> ->
         [listed EXCEPT !.node = "approval", !.calls = <<Head(verdict.requests)>>]
    [] verdict.requests = <<>> /\ verdict.calls # <<>> ->
         [listed EXCEPT !.node = "call", !.calls = verdict.calls]
    [] OTHER -> [listed EXCEPT !.node = "agent"]

PlanMCPTools(catalogue) ==
  LET Checked(proposals) ==
        Validated(proposals, catalogue, Remaining(graph.count), graph.observed) IN
  /\ graph.node = "plan"
  /\ IF graph.round >= RoundLimit THEN Move([graph EXCEPT !.node = "agent"])
     ELSE \E planned \in {Planned([graph EXCEPT !.catalogue = catalogue], Checked(proposals)) :
                           proposals \in Proposals} : Move(planned)
  /\ UNCHANGED <<configVars, client, resumed, issued, takenBack, rejected, crashes>>

\* execution_idempotency_key
AgentKey(call) ==
  [by |-> "agent", round |-> graph.round, index |-> graph.cursor, call |-> call]

Issue(key) == issued' = issued \union {key} /\ takenBack' = takenBack \ {key}

\* The next call of the round. A result names the arguments; an exception, a denial by the
\* tenant's grants of now among them, does not, and the call may be planned again.
CallMCPTool(answered) ==
  LET call == graph.calls[graph.cursor + 1] IN
  /\ graph.node = "call" /\ graph.cursor < Len(graph.calls)
  /\ IF IsAllowed(call.tool, "execute") THEN Issue(AgentKey(call))
     ELSE ~answered /\ UNCHANGED <<issued, takenBack>>
  /\ graph' = [graph EXCEPT !.cursor = @ + 1,
                            !.results = IF answered THEN @ \union {call} ELSE @]
  /\ UNCHANGED <<configVars, client, savedGraph, resumed, rejected, crashes>>

\* Its outcome is unknown or another worker has it: the execution's own checkpoint is resumed.
PauseForExecution ==
  /\ graph.node = "call" /\ graph.cursor < Len(graph.calls)
  /\ IsAllowed(graph.calls[graph.cursor + 1].tool, "execute")
  /\ Issue(AgentKey(graph.calls[graph.cursor + 1]))
  /\ Move([graph EXCEPT !.node = "execution"])
  /\ UNCHANGED <<configVars, client, resumed, rejected, crashes>>

ResumeFromExecution ==
  /\ graph.node = "execution" /\ client' = Configured /\ resumed' = TRUE
  /\ Move([graph EXCEPT !.node = "call"])
  /\ UNCHANGED <<configVars, issued, takenBack, rejected, crashes>>

EndRound ==
  /\ graph.node = "call" /\ graph.cursor = Len(graph.calls)
  /\ Move([graph EXCEPT !.node = "observe", !.round = @ + 1, !.cursor = 0,
                        !.count = @ + Len(graph.calls)])
  /\ UNCHANGED <<configVars, client, resumed, issued, takenBack, rejected, crashes>>

ObserveMCP ==
  /\ graph.node = "observe"
  /\ Move([graph EXCEPT
       !.node = IF graph.round >= RoundLimit \/ graph.count >= CallLimit THEN "agent" ELSE "plan",
       !.observed = @ \union graph.results, !.results = {}, !.calls = <<>>])
  /\ UNCHANGED <<configVars, client, resumed, issued, takenBack, rejected, crashes>>

-----------------------------------------------------------------------------
(* Approvals and the jobs.                                                 *)

\* Faulty variant: a rejection is reported as an error is.
RejectedAnonymously(call) == {}

\* A rejection names the arguments, so that it counts as observed.
Rejected(call) == {call}

\* resume_from_approval: the graph goes on at ObserveMCP with the one result.
Resumed(results, count) ==
  /\ client' = Configured /\ resumed' = TRUE
  /\ Move([graph EXCEPT !.node = "observe", !.round = @ + 1, !.count = @ + count,
                        !.results = results, !.catalogue = NoCatalogue])

ResumeRejected ==
  /\ graph.node = "approval" /\ rejected' = rejected \union Range(graph.calls)
  /\ Resumed(Rejected(graph.calls[1]), 0)
  /\ UNCHANGED <<configVars, issued, takenBack, crashes>>

\* execute_approved goes by the catalogue and the grants of now.
ResumeApproved(catalogue, answered) ==
  LET call == graph.calls[1]
      mayCall == /\ catalogue[call.tool] = "approval_required"
                 /\ IsAllowed(call.tool, "execute") IN
  /\ graph.node = "approval"
  /\ IF mayCall
       THEN Issue([by |-> "approval", round |-> graph.round, index |-> 0, call |-> call])
       ELSE ~answered /\ UNCHANGED <<issued, takenBack>>
  /\ Resumed(IF answered THEN {call} ELSE {}, 1)
  /\ UNCHANGED <<configVars, rejected, crashes>>

ChangePolicy(tool, policy) ==
  /\ changes < MaxChanges /\ changes' = changes + 1
  /\ policies[tool] # policy /\ policies' = [policies EXCEPT ![tool] = policy]
  /\ UNCHANGED <<grants, runVars>>

CreateGrant(grant) ==
  /\ changes < MaxChanges /\ changes' = changes + 1
  /\ grant \notin grants /\ grants' = grants \union {grant}
  /\ UNCHANGED <<policies, runVars>>

\* It is deleted or expires.
EndGrant(grant) ==
  /\ changes < MaxChanges /\ changes' = changes + 1
  /\ grant \in grants /\ grants' = grants \ {grant}
  /\ UNCHANGED <<policies, runVars>>

\* RQ retries run_fix, which goes on from the checkpoint; a resume job is not retried. Calls
\* of a round that has to be planned once more are outside what the graph remembers.
RouterCrash ==
  /\ graph.node \in {"agent", "plan", "call", "observe"} /\ crashes < MaxCrashes
  /\ crashes' = crashes + 1
  /\ IF resumed THEN graph' = [graph EXCEPT !.node = "lost"] /\ UNCHANGED <<client, takenBack>>
     ELSE /\ graph' = savedGraph /\ client' = Configured
          /\ takenBack' = takenBack \union {key \in issued :
               \/ key.round > savedGraph.round
               \/ key.round = savedGraph.round /\ savedGraph.node # "call"}
  /\ UNCHANGED <<configVars, savedGraph, resumed, issued, rejected>>

RouterNext ==
  \/ AskForPatch
  \/ \E catalogue \in IF graph.catalogue # NoCatalogue THEN {graph.catalogue}
                      ELSE {Discovered(client, answering) : answering \in SUBSET Tool} :
       PlanMCPTools(catalogue)
  \/ \E answered \in BOOLEAN :
       \/ CallMCPTool(answered)
       \/ \E catalogue \in {Discovered(Configured, answering) : answering \in SUBSET Tool} :
            ResumeApproved(catalogue, answered)
  \/ PauseForExecution \/ ResumeFromExecution \/ EndRound \/ ObserveMCP
  \/ ResumeRejected \/ RouterCrash
  \/ \E tool \in Tool, policy \in Policy : ChangePolicy(tool, policy)
  \/ \E grant \in Grant : CreateGrant(grant) \/ EndGrant(grant)

RouterSpec == RouterInit /\ [][RouterNext]_routerVars

-----------------------------------------------------------------------------
(* Properties.                                                             *)

\* mcp_tool_router_max_calls_per_run: rounds, pauses, resumes and approvals together issue no
\* more calls than the run may make, but for those of rounds that a crash took back.
CallsWithinBudget == Cardinality(issued \ takenBack) <= CallLimit

\* A call that a person has rejected is neither asked for nor issued afterwards by the run,
\* in whatever round, under whatever policy, the planner proposes it again.
RejectionHolds ==
  [][\A call \in rejected :
       /\ graph.node = "plan" /\ graph'.node \in {"call", "approval"}
            => call \notin Range(graph'.calls)
       /\ \A key \in issued' \ issued : key.call # call]_routerVars
=============================================================================
