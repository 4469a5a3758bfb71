---------------------------- MODULE MCPApproval ----------------------------
(***************************************************************************)
(* One human approval of an MCP tool call, from the pending request to the  *)
(* resumed run: services/mcp_approval_service.py, the decision and resume   *)
(* routes, the expiration, resume and watchdog jobs, and the resume path of *)
(* services/agent_service.py.                                               *)
(*                                                                          *)
(* Requests and workers keep the row object of their session (see           *)
(* MCPExecution for why a locked query does not reload it), and the workers *)
(* also that of the call's ledger row: claim tests what prepare loaded.  Of *)
(* the ledger only status, result and number of leases appear here; a claim *)
(* and the refresh after it are one step.  MCPExecution takes these apart.  *)
(***************************************************************************)
EXTENDS Naturals, FiniteSets

CONSTANTS
  Request,     \* decision requests being served at one time
  Worker,      \* RQ workers
  Nothing,     \* no object in the session
  MaxVersion,  \* bound on the version of the approval
  MaxLeases    \* bound on the ledger leases of one behaviour

VARIABLES
  row,       \* the committed approval
  due,       \* now >= expires_at
  aged,      \* now - execution_started_at >= the stale limit of a resume
  run,       \* status of the agent run
  expiry,    \* the expiration job is scheduled
  jobs,      \* resume jobs in the queue; the job id carries the version
  ask,       \* each request: its object, what it decides, the version it names
  phase,     \* each worker: where it is in the resume path
  held,      \* each worker: the approval object of its session
  outcome,   \* each worker: what _resolve_approval returned
  entry,     \* each worker: the status of its session's object of the ledger row
  exec,      \* status of the call's ledger row
  stored,    \* its result
  retrySafe, \* its retry_safe column
  leases,    \* ledger leases granted so far
  humanSaid, \* history: a human approved while the approval was not yet due
  remoteOk   \* history: the server answered ok, or an operator confirmed it

requestVars == <<ask>>
workerVars == <<phase, held, outcome, entry>>
ledgerVars == <<exec, stored, retrySafe, leases>>
historyVars == <<humanSaid, remoteOk>>
vars == <<row, due, aged, run, expiry, jobs, ask, phase, held, outcome, entry,
          exec, stored, retrySafe, leases, humanSaid, remoteOk>>

Decision == {"approved", "rejected"}
Outcome == {"none", "ok", "error", "refused"}
ApprovalRow ==
  [status : {"pending", "queued", "resuming", "reconciliation_required",
             "completed", "failed"},
   decision : Decision \union {"none"}, version : Nat, result : Outcome]
Asking == [seen : ApprovalRow, decision : Decision, expected : Nat]
Phase == {"idle", "held", "claimed", "resolving", "prepared", "calling",
          "resolved", "graph", "unknown", "failing"}
Settled == {"succeeded", "failed"}
ExecStatus == {"absent", "prepared", "executing", "unknown"} \union Settled

ASSUME ApprovalAssumption ==
  MaxVersion \in Nat /\ MaxLeases \in Nat /\ Nothing \notin ApprovalRow \union Asking

\* create_pending has committed the row and the waiting run; scheduling the
\* expiration may have failed, which the planner node only records.
Init ==
  /\ row = [status |-> "pending", decision |-> "none", version |-> 1, result |-> "none"]
  /\ due = FALSE /\ aged = FALSE
  /\ run = "waiting"
  /\ expiry \in BOOLEAN
  /\ jobs = {}
  /\ ask = [r \in Request |-> Nothing]
  /\ phase = [w \in Worker |-> "idle"]
  /\ held = [w \in Worker |-> Nothing]
  /\ outcome = [w \in Worker |-> "none"]
  /\ entry = [w \in Worker |-> "absent"]
  /\ exec = "absent" /\ stored = "none" /\ retrySafe \in BOOLEAN /\ leases = 0
  /\ humanSaid = FALSE /\ remoteOk = FALSE

\* A commit writes the columns that differ from the object as loaded.
Flush(loaded, new) == [c \in DOMAIN row |-> IF new[c] = loaded[c] THEN row[c] ELSE new[c]]
Bump(approval) == [approval EXCEPT !.version = @ + 1]

\* Redis may be down: the route answers 503 and the decision stays.
Enqueue(version) == jobs' \in {jobs, jobs \union {version}}

-----------------------------------------------------------------------------
(* Decision requests *)

\* The route reads the approval; the administrator's page may be old.
Submit(r, d, expected) ==
  /\ ask[r] = Nothing
  /\ ask' = [ask EXCEPT ![r] = [seen |-> row, decision |-> d, expected |-> expected]]
  /\ UNCHANGED <<row, due, aged, run, expiry, jobs, workerVars, ledgerVars, historyVars>>

Taken(d) == IF due THEN "rejected" ELSE d

Decide(r) ==
  LET seen == ask[r].seen
      d    == ask[r].decision
      new  == Bump([seen EXCEPT !.decision = Taken(d), !.status = "queued"])
  IN /\ ask[r] # Nothing
     /\ row.version < MaxVersion
     /\ seen.version = ask[r].expected /\ seen.status = "pending"
     /\ row' = Flush(seen, new)
     /\ humanSaid' = (humanSaid \/ (d = "approved" /\ ~due))
     /\ Enqueue(row'.version)
     /\ ask' = [ask EXCEPT ![r] = Nothing]
     /\ UNCHANGED <<due, aged, run, expiry, workerVars, ledgerVars, remoteOk>>

\* A conflict is a 409; the same decision again returns the row as it is, and
\* the route enqueues its resume once more if the row is still queued.
RepeatOrRefuse(r) ==
  LET seen == ask[r].seen
      same == seen.decision = ask[r].decision
  IN /\ ask[r] # Nothing
     /\ ~ (seen.version = ask[r].expected /\ seen.status = "pending")
     /\ IF same /\ seen.status = "queued" THEN Enqueue(seen.version) ELSE UNCHANGED jobs
     /\ ask' = [ask EXCEPT ![r] = Nothing]
     /\ UNCHANGED <<row, due, aged, run, expiry, workerVars, ledgerVars, historyVars>>

RetryResume ==
  /\ row.status \in {"queued", "resuming", "reconciliation_required"}
  /\ jobs' = jobs \union {row.version}
  /\ UNCHANGED <<row, due, aged, run, expiry, requestVars, workerVars, ledgerVars, historyVars>>

-----------------------------------------------------------------------------
(* The resume path of a worker *)
Leave(w) ==
  /\ phase' = [phase EXCEPT ![w] = "idle"]
  /\ held' = [held EXCEPT ![w] = Nothing]
  /\ outcome' = [outcome EXCEPT ![w] = "none"]
  /\ entry' = [entry EXCEPT ![w] = "absent"]

At(w, from, to) == phase[w] = from /\ phase' = [phase EXCEPT ![w] = to]

ExpireBeforeDue(approval) == approval.status = "pending" /\ ~due
Expirable(approval) == approval.status = "pending" /\ due

\* expire_mcp_approval_job: the session that expired the row resumes it.
Expire(w) ==
  /\ phase[w] = "idle"
  /\ expiry /\ due
  /\ expiry' = FALSE
  /\ row.version < MaxVersion
  /\ IF Expirable(row)
       THEN /\ row' = Bump([row EXCEPT !.decision = "rejected", !.status = "queued"])
            /\ held' = [held EXCEPT ![w] = row']
            /\ phase' = [phase EXCEPT ![w] = "held"]
       ELSE UNCHANGED <<row, held, phase>>
  /\ UNCHANGED <<due, aged, run, jobs, requestVars, outcome, entry, ledgerVars, historyVars>>

Claimable(approval) == approval.status = "queued" \/ (approval.status = "resuming" /\ aged)

ClaimOrLeave(w, approval) ==
  IF Claimable(approval)
    THEN /\ row.version < MaxVersion
         /\ row' = Flush(approval, Bump([approval EXCEPT !.status = "resuming"]))
         /\ held' = [held EXCEPT ![w] = row']
         /\ phase' = [phase EXCEPT ![w] = "claimed"]
         /\ aged' = FALSE
         /\ UNCHANGED <<outcome, entry>>
    ELSE Leave(w) /\ UNCHANGED <<row, aged>>

TakeJob(w, version) ==
  /\ phase[w] = "idle" /\ version \in jobs
  /\ jobs' = jobs \ {version}
  /\ ClaimOrLeave(w, row)
  /\ UNCHANGED <<due, run, expiry, requestVars, ledgerVars, historyVars>>

ClaimHeld(w) ==
  /\ phase[w] = "held"
  /\ ClaimOrLeave(w, held[w])
  /\ UNCHANGED <<due, run, expiry, jobs, requestVars, ledgerVars, historyVars>>

RunLeftWaiting(w) == UNCHANGED run
RunIsResumed(w) == run' = "running"

StartRun(w) ==
  /\ At(w, "claimed", "resolving")
  /\ RunIsResumed(w)
  /\ UNCHANGED <<row, due, aged, expiry, jobs, requestVars, held, outcome, entry, ledgerVars,
                 historyVars>>

Resolved(w, o) == outcome' = [outcome EXCEPT ![w] = o]

\* A refusal, an approval that ran out before execution, a router that is gone.
ResolveLocally(w) ==
  /\ At(w, "resolving", "resolved")
  /\ \/ held[w].decision # "approved" /\ Resolved(w, "refused")
     \/ held[w].decision = "approved" /\ Resolved(w, "error")
  /\ UNCHANGED <<row, due, aged, run, expiry, jobs, requestVars, held, entry, ledgerVars,
                 historyVars>>

PrepareCallAnyDecision(w) == ~due
MayCall(w) == held[w].decision = "approved" /\ ~due

\* The row is recorded or found; an object that the session has stays as it is.
PrepareCall(w) ==
  /\ At(w, "resolving", "prepared")
  /\ MayCall(w)
  /\ exec' = IF exec = "absent" THEN "prepared" ELSE exec
  /\ entry' = [entry EXCEPT ![w] = IF @ = "absent" THEN exec' ELSE @]
  /\ UNCHANGED <<row, due, aged, run, expiry, jobs, requestVars, held, outcome, stored,
                 retrySafe, leases, historyVars>>

\* The session does not look at its object of the ledger row again.
Forget(w) == entry' = [entry EXCEPT ![w] = "absent"]

\* claim, on the object that the session has.  A settled call is read back, from
\* the row as it then is; one under a lease that runs raises InProgress, which
\* _resolve_approval turns into a failed result like every other exception.
ReadLedger(w) ==
  /\ At(w, "prepared", "resolved")
  /\ \/ entry[w] \in Settled /\ Resolved(w, IF stored = "ok" THEN "ok" ELSE "error")
     \/ entry[w] = "executing" /\ Resolved(w, "error")
  /\ Forget(w)
  /\ UNCHANGED <<row, due, aged, run, expiry, jobs, requestVars, held, ledgerVars, historyVars>>

Repeatable == retrySafe /\ leases < MaxLeases

\* A lease that ran out is taken over if the call is retry-safe, else given up.
GiveUp(w) ==
  /\ At(w, "prepared", "unknown")
  /\ \/ entry[w] = "unknown" /\ UNCHANGED exec
     \/ entry[w] = "executing" /\ ~Repeatable /\ exec' = "unknown"
  /\ Forget(w)
  /\ UNCHANGED <<row, due, aged, run, expiry, jobs, requestVars, held, outcome, stored,
                 retrySafe, leases, historyVars>>

\* Faulty variant: a lapsed lease is taken over whether or not the call may be repeated.
LeasableWhenLapsed(w) == entry[w] \in {"prepared", "executing"}
Leasable(w) == entry[w] = "prepared" \/ (entry[w] = "executing" /\ retrySafe)

\* The commit leaves the status alone if the object said "executing" before, and
\* the refresh gives the object the status of the row.
Lease(w) ==
  /\ At(w, "prepared", "calling")
  /\ Leasable(w)
  /\ leases < MaxLeases
  /\ exec' = IF entry[w] = "prepared" THEN "executing" ELSE exec
  /\ entry' = [entry EXCEPT ![w] = exec']
  /\ leases' = leases + 1
  /\ UNCHANGED <<row, due, aged, run, expiry, jobs, requestVars, held, outcome, stored,
                 retrySafe, historyVars>>

\* complete writes if the object says "executing", gives back a result that the
\* object has, and else raises a conflict.
Answer(w, o) ==
  /\ At(w, "calling", "resolved")
  /\ IF entry[w] = "executing"
       THEN /\ exec' = IF o = "ok" THEN "succeeded" ELSE "failed"
            /\ stored' = o
            /\ Resolved(w, o)
       ELSE /\ Resolved(w, IF entry[w] = "succeeded" THEN "ok" ELSE "error")
            /\ UNCHANGED <<exec, stored>>
  /\ remoteOk' = (remoteOk \/ o = "ok")
  /\ Forget(w)
  /\ UNCHANGED <<row, due, aged, run, expiry, jobs, requestVars, held, retrySafe, leases,
                 humanSaid>>

\* mark_unknown has the same fence; its conflict is an exception like any other.
LoseAnswer(w) ==
  /\ phase[w] = "calling"
  /\ exec' = IF entry[w] = "executing" THEN "unknown" ELSE exec
  /\ IF entry[w] \in Settled \union {"executing"}
       THEN phase' = [phase EXCEPT ![w] = "unknown"] /\ UNCHANGED outcome
       ELSE phase' = [phase EXCEPT ![w] = "resolved"] /\ Resolved(w, "error")
  /\ Forget(w)
  /\ UNCHANGED <<row, due, aged, run, expiry, jobs, requestVars, held, stored, retrySafe,
                 leases, historyVars>>

\* mark_run_waiting_reconciliation tests the run and the approval that the
\* session holds, so neither test sees what others have committed since.
AwaitOperator(w) ==
  /\ phase[w] = "unknown"
  /\ row.version < MaxVersion
  /\ run' = "reconciling"
  /\ row' = Flush(held[w], Bump([held[w] EXCEPT !.status = "reconciliation_required"]))
  /\ Leave(w)
  /\ UNCHANGED <<due, aged, expiry, jobs, requestVars, ledgerVars, historyVars>>

Finished(approval, o) ==
  Bump([approval EXCEPT !.status = IF o = "error" THEN "failed" ELSE "completed",
                        !.result = o])
Finish(w) ==
  /\ At(w, "resolved", "graph")
  /\ row.version < MaxVersion
  /\ row' = Flush(held[w], Finished(held[w], outcome[w]))
  /\ held' = [held EXCEPT ![w] = row']
  /\ UNCHANGED <<due, aged, run, expiry, jobs, requestVars, outcome, entry, ledgerVars,
                 historyVars>>

\* The graph runs on: to a terminal status, or to another approval of its own.
EndGraph(w) ==
  /\ phase[w] = "graph"
  /\ run' \in {"done", "elsewhere"}
  /\ Leave(w)
  /\ UNCHANGED <<row, due, aged, expiry, jobs, requestVars, ledgerVars, historyVars>>

\* Any other exception: finish(failed=True), then the run is closed.
Raise(w) ==
  /\ phase[w] \in {"claimed", "resolving", "resolved", "graph"}
  /\ row.version < MaxVersion
  /\ row' = Flush(held[w], Finished(held[w], "error"))
  /\ phase' = [phase EXCEPT ![w] = "failing"]
  /\ held' = [held EXCEPT ![w] = row']
  /\ UNCHANGED <<due, aged, run, expiry, jobs, requestVars, outcome, entry, ledgerVars,
                 historyVars>>

CloseRun(w) ==
  /\ phase[w] = "failing"
  /\ run' = "done"
  /\ Leave(w)
  /\ UNCHANGED <<row, due, aged, expiry, jobs, requestVars, ledgerVars, historyVars>>

Crash(w) ==
  /\ phase[w] # "idle"
  /\ Leave(w)
  /\ UNCHANGED <<row, due, aged, run, expiry, jobs, requestVars, ledgerVars, historyVars>>

-----------------------------------------------------------------------------
(* The ledger's watchdog and its operator, and time *)
Requeued(approval) ==
  IF approval.status \in {"reconciliation_required", "resuming", "failed"}
    THEN Bump([approval EXCEPT !.status = "queued"]) ELSE approval

Parked(approval) ==
  IF approval.status \in {"completed", "failed"} THEN approval
    ELSE Bump([approval EXCEPT !.status = "reconciliation_required"])

\* recover_mcp_execution_job on an expired lease: a call that may be repeated is
\* resumed in the job's session; for any other the approval and the run wait.
RecoverLease(w) ==
  /\ phase[w] = "idle"
  /\ exec = "executing"
  /\ row.version < MaxVersion
  /\ IF Repeatable
       THEN /\ exec' = "prepared"
            /\ row' = Requeued(row)
            /\ held' = [held EXCEPT ![w] = row']
            /\ phase' = [phase EXCEPT ![w] = "held"]
            /\ entry' = [entry EXCEPT ![w] = "prepared"]
            /\ UNCHANGED run
       ELSE /\ exec' = "unknown"
            /\ row' = Parked(row)
            /\ run' = IF run = "done" THEN run ELSE "reconciling"
            /\ UNCHANGED <<held, phase, entry>>
  /\ UNCHANGED <<due, aged, expiry, jobs, requestVars, outcome, stored, retrySafe, leases,
                 historyVars>>

\* The job dies between the commit of the ledger row and the next one.
RecoveryDies(w) ==
  /\ phase[w] = "idle"
  /\ exec = "executing"
  /\ exec' = IF Repeatable THEN "prepared" ELSE "unknown"
  /\ UNCHANGED <<row, due, aged, run, expiry, jobs, requestVars, workerVars, stored, retrySafe,
                 leases, historyVars>>

\* An operator settles the call by hand, or has it retried.
Reconcile(status) ==
  /\ exec = "unknown"
  /\ status = "prepared" => Repeatable
  /\ exec' = status
  /\ stored' = CASE status = "succeeded" -> "ok" [] status = "failed" -> "error"
                 [] status = "prepared" -> "none"
  /\ remoteOk' = (remoteOk \/ status = "succeeded")
  /\ row.version < MaxVersion
  /\ row' = Requeued(row)
  /\ Enqueue(row'.version)
  /\ UNCHANGED <<due, aged, run, expiry, requestVars, workerVars, retrySafe, leases, humanSaid>>

\* An administrator resumes a call that is settled or was never issued.
ResumeExecution ==
  /\ exec \in Settled \union {"prepared"}
  /\ row.version < MaxVersion
  /\ row' = Requeued(row)
  /\ Enqueue(row'.version)
  /\ UNCHANGED <<due, aged, run, expiry, requestVars, workerVars, ledgerVars, historyVars>>

BecomeDue ==
  /\ ~due /\ due' = TRUE
  /\ UNCHANGED <<row, aged, run, expiry, jobs, requestVars, workerVars, ledgerVars, historyVars>>

ResumeAges ==
  /\ row.status = "resuming" /\ ~aged /\ aged' = TRUE
  /\ UNCHANGED <<row, due, run, expiry, jobs, requestVars, workerVars, ledgerVars, historyVars>>

-----------------------------------------------------------------------------
Resume(w) ==
  \/ ClaimHeld(w) \/ StartRun(w) \/ ResolveLocally(w) \/ PrepareCall(w)
  \/ ReadLedger(w) \/ GiveUp(w) \/ Lease(w)
  \/ \E o \in {"ok", "error"} : Answer(w, o)
  \/ LoseAnswer(w) \/ AwaitOperator(w) \/ Finish(w) \/ EndGraph(w)
  \/ Raise(w) \/ CloseRun(w) \/ Crash(w)

Next ==
  \/ \E r \in Request, d \in Decision, v \in {1, row.version} : Submit(r, d, v)
  \/ \E r \in Request : Decide(r) \/ RepeatOrRefuse(r)
  \/ RetryResume
  \/ \E w \in Worker : Expire(w) \/ RecoverLease(w) \/ RecoveryDies(w) \/ Resume(w)
  \/ \E w \in Worker, version \in jobs : TakeJob(w, version)
  \/ \E status \in {"succeeded", "failed", "prepared"} : Reconcile(status)
  \/ ResumeExecution
  \/ BecomeDue \/ ResumeAges

Spec == Init /\ [][Next]_vars

\* Workers run what they started or die; a free worker runs a due job.
FairSpec ==
  /\ Spec
  /\ \A w \in Worker : WF_vars(Resume(w))
  /\ SF_vars(\E w \in Worker : Expire(w))
  /\ WF_vars(BecomeDue)

-----------------------------------------------------------------------------
\* The types of the approval, of the sessions and of the history.
TypeOK ==
  /\ row \in ApprovalRow
  /\ due \in BOOLEAN /\ aged \in BOOLEAN /\ expiry \in BOOLEAN
  /\ run \in {"waiting", "running", "reconciling", "elsewhere", "done"}
  /\ jobs \subseteq Nat
  /\ ask \in [Request -> Asking \union {Nothing}]
  /\ phase \in [Worker -> Phase]
  /\ held \in [Worker -> ApprovalRow \union {Nothing}]
  /\ outcome \in [Worker -> Outcome]
  /\ entry \in [Worker -> ExecStatus]
  /\ exec \in ExecStatus /\ stored \in {"none", "ok", "error"}
  /\ retrySafe \in BOOLEAN /\ leases \in Nat
  /\ humanSaid \in BOOLEAN /\ remoteOk \in BOOLEAN

\* However requests, expirations, resumes and recoveries overlap, the ledger
\* never grants a lease for the call unless a human approved it in time.
CallsAreApproved == leases > 0 => humanSaid

\* An approval that says "completed" and stores a good result had one.
CompletedIsWitnessed == row.result = "ok" => remoteOk

\* Workers that may yet claim: for a call that may not be repeated, those whose object
\* of the ledger row was loaded before anyone claimed it.
ReadyToCall ==
  {w \in Worker : phase[w] = "prepared" /\ (retrySafe \/ entry[w] = "prepared")}

Consent == INSTANCE ConsentContract WITH
  Caller <- Worker, MaxCalls <- MaxLeases, consent <- humanSaid, expired <- due,
  ready <- ReadyToCall, calls <- leases,
  repeatable <- retrySafe, answered <- remoteOk, reported <- (row.result = "ok")

\* Requests, workers, the watchdog and operators, on objects of any age, keep the order of
\* consent, call, answer and report; a call that may not be repeated leaves after the first
\* one only from workers that had prepared it by then, and once from each (prepare, claim).
ImplementsConsent == Consent!Spec

\* A completed approval never leaves its run waiting for the approval.
CompletedRunMovesOn == row.status = "completed" => run # "waiting"

\* An approval whose expiration was scheduled does not stay pending for ever.
PendingEnds == (expiry /\ row.status = "pending") ~> row.status # "pending"

\* A decision that names an old version and opposes the recorded one is refused.
OldVersionRefused ==
  [][\A r \in Request :
       /\ ask[r] # Nothing /\ ask'[r] = Nothing
       /\ ask[r].expected # row.version
       /\ row.decision \notin {"none", ask[r].decision}
       => row' = row]_vars
=============================================================================
