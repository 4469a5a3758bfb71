------------------------- MODULE MCPApprovalProofs -------------------------
(***************************************************************************)
(* Proofs about human approval, for any number of decision requests and    *)
(* workers that hold old objects of the approval, and any number of leases. *)
(***************************************************************************)
EXTENDS MCPApproval, TLAPS

ApprovalStatus ==
  {"pending", "queued", "resuming", "reconciliation_required", "completed", "failed"}

-----------------------------------------------------------------------------
(* The approval as an object: what a commit and a transformation leave.    *)

\* A commit mixes columns of the row and of the changed object.
LEMMA FlushColumns ==
  ASSUME row \in ApprovalRow, NEW loaded \in ApprovalRow, NEW new \in ApprovalRow
  PROVE  /\ Flush(loaded, new) \in ApprovalRow
         /\ Flush(loaded, new).status \in {row.status, new.status}
         /\ Flush(loaded, new).decision \in {row.decision, new.decision}
         /\ Flush(loaded, new).result \in {row.result, new.result}
         /\ Flush(loaded, new).version \in Nat
  BY DEF Flush, ApprovalRow

\* Changes of the status, of the decision and of the result, with the new version.
LEMMA Objects ==
  ASSUME NEW a \in ApprovalRow
  PROVE  /\ \A status \in ApprovalStatus :
              /\ Bump([a EXCEPT !.status = status]) \in ApprovalRow
              /\ Bump([a EXCEPT !.status = status]).status = status
              /\ Bump([a EXCEPT !.status = status]).decision = a.decision
              /\ Bump([a EXCEPT !.status = status]).result = a.result
         /\ \A d \in Decision :
              /\ Bump([a EXCEPT !.decision = d, !.status = "queued"]) \in ApprovalRow
              /\ Bump([a EXCEPT !.decision = d, !.status = "queued"]).status = "queued"
              /\ Bump([a EXCEPT !.decision = d, !.status = "queued"]).decision = d
              /\ Bump([a EXCEPT !.decision = d, !.status = "queued"]).result = a.result
         /\ \A o \in Outcome :
              /\ Finished(a, o) \in ApprovalRow
              /\ Finished(a, o).status = "completed" => o # "error"
              /\ Finished(a, o).decision = a.decision
              /\ Finished(a, o).result = o
         /\ /\ Requeued(a) \in ApprovalRow
            /\ Requeued(a).status \in {a.status, "queued"}
            /\ Requeued(a).decision = a.decision
            /\ Requeued(a).result = a.result
  <1>1. a.version + 1 \in Nat
    BY DEF ApprovalRow
  <1>2. ASSUME NEW status \in ApprovalStatus
        PROVE  /\ Bump([a EXCEPT !.status = status]) \in ApprovalRow
               /\ Bump([a EXCEPT !.status = status]).status = status
               /\ Bump([a EXCEPT !.status = status]).decision = a.decision
               /\ Bump([a EXCEPT !.status = status]).result = a.result
    BY <1>1, <1>2 DEF Bump, ApprovalRow, ApprovalStatus
  <1>3. ASSUME NEW d \in Decision
        PROVE  /\ Bump([a EXCEPT !.decision = d, !.status = "queued"]) \in ApprovalRow
               /\ Bump([a EXCEPT !.decision = d, !.status = "queued"]).status = "queued"
               /\ Bump([a EXCEPT !.decision = d, !.status = "queued"]).decision = d
               /\ Bump([a EXCEPT !.decision = d, !.status = "queued"]).result = a.result
    BY <1>1, <1>3 DEF Bump, ApprovalRow
  <1>4. ASSUME NEW o \in Outcome
        PROVE  /\ Finished(a, o) \in ApprovalRow
               /\ Finished(a, o).status = "completed" => o # "error"
               /\ Finished(a, o).decision = a.decision
               /\ Finished(a, o).result = o
    BY <1>1, <1>4 DEF Finished, Bump, ApprovalRow
  <1>5. /\ Requeued(a) \in ApprovalRow
        /\ Requeued(a).status \in {a.status, "queued"}
        /\ Requeued(a).decision = a.decision
        /\ Requeued(a).result = a.result
    BY <1>2 DEF Requeued, ApprovalStatus
  <1> QED BY <1>2, <1>3, <1>4, <1>5

-----------------------------------------------------------------------------
(* Types.                                                                  *)

\* A worker on its way holds an approval.
TypeInv == TypeOK /\ \A w \in Worker : phase[w] # "idle" => held[w] # Nothing

\* What a worker holds, and what a request saw, is an approval.
LEMMA ObjectsHeld ==
  ASSUME TypeInv
  PROVE  /\ row \in ApprovalRow
         /\ \A w \in Worker : phase[w] # "idle" => held[w] \in ApprovalRow
         /\ \A r \in Request : ask[r] # Nothing =>
              /\ ask[r] \in Asking
              /\ ask[r].seen \in ApprovalRow /\ ask[r].decision \in Decision
  BY DEF TypeInv, TypeOK, Asking

LEMMA TypeInit == Init => TypeInv
  <1> SUFFICES ASSUME Init PROVE TypeInv
    OBVIOUS
  <1>1. row \in ApprovalRow
    <2>1. row = [status |-> "pending", decision |-> "none", version |-> 1, result |-> "none"]
      BY DEF Init
    <2>2. "none" \in Decision \union {"none"} /\ "none" \in Outcome /\ 1 \in Nat
      BY DEF Outcome
    <2> QED BY <2>1, <2>2 DEF ApprovalRow
  <1>2. /\ due \in BOOLEAN /\ aged \in BOOLEAN /\ expiry \in BOOLEAN
        /\ run \in {"waiting", "running", "reconciling", "elsewhere", "done"}
        /\ jobs \subseteq Nat
        /\ exec \in ExecStatus /\ stored \in {"none", "ok", "error"}
        /\ retrySafe \in BOOLEAN /\ leases \in Nat
        /\ humanSaid \in BOOLEAN /\ remoteOk \in BOOLEAN
    BY DEF Init, ExecStatus
  <1>3. ask \in [Request -> Asking \union {Nothing}]
    BY DEF Init
  <1>4. /\ phase \in [Worker -> Phase] /\ held \in [Worker -> ApprovalRow \union {Nothing}]
        /\ outcome \in [Worker -> Outcome] /\ entry \in [Worker -> ExecStatus]
        /\ \A w \in Worker : phase[w] = "idle"
    BY DEF Init, Phase, Outcome, ExecStatus
  <1> QED BY <1>1, <1>2, <1>3, <1>4 DEF TypeInv, TypeOK

\* Who moves, and with what; the others stay.
LEMMA WorkerType ==
  ASSUME TypeInv, NEW w \in Worker
  PROVE  /\ Leave(w) =>
              /\ phase' \in [Worker -> Phase] /\ held' \in [Worker -> ApprovalRow \union {Nothing}]
              /\ outcome' \in [Worker -> Outcome] /\ entry' \in [Worker -> ExecStatus]
              /\ phase'[w] = "idle" /\ outcome'[w] = "none"
              /\ \A v \in Worker : phase'[v] # "idle" => held'[v] # Nothing
         /\ \A to \in Phase : phase' = [phase EXCEPT ![w] = to] =>
              /\ phase' \in [Worker -> Phase]
              /\ \A v \in Worker : phase'[v] = IF v = w THEN to ELSE phase[v]
         /\ \A a \in ApprovalRow : held' = [held EXCEPT ![w] = a] =>
              /\ held' \in [Worker -> ApprovalRow \union {Nothing}]
              /\ \A v \in Worker : held'[v] = IF v = w THEN a ELSE held[v]
              /\ held'[w] # Nothing
         /\ \A o \in Outcome : Resolved(w, o) =>
              /\ outcome' \in [Worker -> Outcome]
              /\ \A v \in Worker : outcome'[v] = IF v = w THEN o ELSE outcome[v]
         /\ \A s \in ExecStatus : entry' = [entry EXCEPT ![w] = s] =>
              entry' \in [Worker -> ExecStatus]
  <1>1. /\ phase \in [Worker -> Phase] /\ held \in [Worker -> ApprovalRow \union {Nothing}]
        /\ outcome \in [Worker -> Outcome] /\ Nothing \notin ApprovalRow
        /\ \A v \in Worker : phase[v] # "idle" => held[v] # Nothing
        /\ "idle" \in Phase /\ "none" \in Outcome
        /\ entry \in [Worker -> ExecStatus] /\ "absent" \in ExecStatus
    BY ApprovalAssumption DEF TypeInv, TypeOK, Phase, Outcome, ExecStatus
  <1> QED BY <1>1 DEF Leave, Resolved

\* What the resume path may do to the row.
LEMMA RowType ==
  ASSUME TypeInv, NEW w \in Worker
  PROVE  /\ phase[w] # "idle" /\ ClaimOrLeave(w, held[w]) => row' \in ApprovalRow
         /\ ClaimOrLeave(w, row) => row' \in ApprovalRow
         /\ Finish(w) \/ Raise(w) \/ AwaitOperator(w) => row' \in ApprovalRow
  <1>1. row \in ApprovalRow /\ (phase[w] # "idle" => held[w] \in ApprovalRow)
    BY ObjectsHeld
  <1>2. ASSUME NEW a \in ApprovalRow, ClaimOrLeave(w, a) PROVE row' \in ApprovalRow
    <2> DEFINE new == Bump([a EXCEPT !.status = "resuming"])
    <2>1. new \in ApprovalRow
      BY Objects DEF ApprovalStatus
    <2>2. CASE Claimable(a)
      <3>1. row' = Flush(a, new)
        BY <1>2, <2>2 DEF ClaimOrLeave
      <3> HIDE DEF new
      <3> QED BY <1>1, <2>1, <3>1, FlushColumns
    <2>3. CASE ~Claimable(a)
      BY <1>1, <1>2, <2>3 DEF ClaimOrLeave
    <2> QED BY <2>2, <2>3
  <1>3. ASSUME Finish(w) \/ Raise(w) PROVE row' \in ApprovalRow
    <2>1. held[w] \in ApprovalRow /\ outcome[w] \in Outcome /\ "error" \in Outcome
      BY <1>1, <1>3 DEF Finish, Raise, At, TypeInv, TypeOK, Outcome
    <2>2. PICK o \in Outcome : row' = Flush(held[w], Finished(held[w], o))
      BY <1>3, <2>1 DEF Finish, Raise
    <2> QED BY <1>1, <2>1, <2>2, Objects, FlushColumns
  <1>4. ASSUME AwaitOperator(w) PROVE row' \in ApprovalRow
    BY <1>1, <1>4, Objects, FlushColumns DEF AwaitOperator, ApprovalStatus
  <1> QED BY <1>1, <1>2, <1>3, <1>4

LEMMA TypeStep == TypeInv /\ [Next]_vars => TypeInv'
  <1> SUFFICES ASSUME TypeInv, [Next]_vars PROVE TypeInv'
    OBVIOUS
  <1> USE DEF requestVars, workerVars, ledgerVars, historyVars
  <1> USE ApprovalAssumption
  <1>1. /\ row \in ApprovalRow /\ phase \in [Worker -> Phase]
        /\ held \in [Worker -> ApprovalRow \union {Nothing}] /\ outcome \in [Worker -> Outcome]
        /\ entry \in [Worker -> ExecStatus] /\ exec \in ExecStatus
        /\ ask \in [Request -> Asking \union {Nothing}]
        /\ \A v \in Worker : phase[v] # "idle" => held[v] # Nothing
        /\ {row.version} \subseteq Nat /\ jobs \subseteq Nat
    BY DEF TypeInv, TypeOK, ApprovalRow
  <1>2. ASSUME NEW r \in Request, NEW d \in Decision, NEW v \in {1, row.version}, Submit(r, d, v)
        PROVE  TypeInv'
    <2>1. [seen |-> row, decision |-> d, expected |-> v] \in Asking
      BY <1>1 DEF Asking
    <2>2. ask' \in [Request -> Asking \union {Nothing}]
      BY <1>1, <1>2, <2>1 DEF Submit
    <2> QED BY <1>2, <2>2 DEF Submit, TypeInv, TypeOK
  <1>3. ASSUME NEW r \in Request, Decide(r) PROVE TypeInv'
    <2> DEFINE new == Bump([ask[r].seen EXCEPT !.decision = Taken(ask[r].decision),
                                               !.status = "queued"])
    <2>1. ask[r].seen \in ApprovalRow /\ ask[r].decision \in Decision
      BY <1>3, ObjectsHeld DEF Decide
    <2>2. Taken(ask[r].decision) \in Decision
      BY <2>1 DEF Taken, Decision
    <2>3. new \in ApprovalRow
      BY <2>1, <2>2, Objects
    <2>4. row' = Flush(ask[r].seen, new)
      BY <1>3 DEF Decide
    <2> HIDE DEF new
    <2>5. row' \in ApprovalRow /\ row'.version \in Nat
      BY <1>1, <2>1, <2>3, <2>4, FlushColumns
    <2>6. jobs' \subseteq Nat /\ ask' \in [Request -> Asking \union {Nothing}]
      BY <1>1, <1>3, <2>5 DEF Decide, Enqueue
    <2>7. humanSaid' \in BOOLEAN
      BY <1>3 DEF Decide, TypeInv, TypeOK
    <2> QED BY <1>3, <2>5, <2>6, <2>7 DEF Decide, TypeInv, TypeOK
  <1>4. ASSUME NEW r \in Request, RepeatOrRefuse(r) PROVE TypeInv'
    <2>1. ask[r].seen.version \in Nat
      BY <1>4, ObjectsHeld DEF RepeatOrRefuse, ApprovalRow
    <2>2. jobs' \subseteq Nat /\ ask' \in [Request -> Asking \union {Nothing}]
      BY <1>1, <1>4, <2>1 DEF RepeatOrRefuse, Enqueue
    <2> QED BY <1>4, <2>2 DEF RepeatOrRefuse, TypeInv, TypeOK
  <1>5. CASE RetryResume
    BY <1>1, <1>5 DEF RetryResume, TypeInv, TypeOK
  <1>6. ASSUME NEW w \in Worker, Expire(w) PROVE TypeInv'
    <2>1. Bump([row EXCEPT !.decision = "rejected", !.status = "queued"]) \in ApprovalRow
      BY <1>1, Objects DEF Decision
    <2>2. CASE Expirable(row)
      <3>1. /\ row' = Bump([row EXCEPT !.decision = "rejected", !.status = "queued"])
            /\ held' = [held EXCEPT ![w] = row'] /\ phase' = [phase EXCEPT ![w] = "held"]
        BY <1>6, <2>2 DEF Expire
      <3>2. "held" \in Phase /\ row' \in ApprovalRow
        BY <2>1, <3>1 DEF Phase
      <3>3. /\ expiry' = FALSE
            /\ UNCHANGED <<due, aged, run, jobs, ask, outcome, entry, exec, stored, retrySafe,
                           leases, humanSaid, remoteOk>>
        BY <1>6 DEF Expire
      <3>4. /\ phase' \in [Worker -> Phase] /\ held' \in [Worker -> ApprovalRow \union {Nothing}]
            /\ \A v \in Worker : phase'[v] # "idle" => held'[v] # Nothing
        BY <1>1, <3>1, <3>2, WorkerType
      <3> QED BY <3>2, <3>3, <3>4 DEF TypeInv, TypeOK
    <2>3. CASE ~Expirable(row)
      BY <1>6, <2>3 DEF Expire, TypeInv, TypeOK
    <2> QED BY <2>2, <2>3
  <1>7. ASSUME NEW w \in Worker, NEW a \in ApprovalRow, ClaimOrLeave(w, a), row' \in ApprovalRow,
               jobs' \subseteq Nat,
               UNCHANGED <<due, run, expiry, requestVars, ledgerVars, historyVars>>
        PROVE  TypeInv'
    <2>1. CASE Claimable(a)
      <3>1. /\ held' = [held EXCEPT ![w] = row'] /\ phase' = [phase EXCEPT ![w] = "claimed"]
            /\ aged' = FALSE /\ UNCHANGED <<outcome, entry>>
        BY <1>7, <2>1 DEF ClaimOrLeave
      <3>2. "claimed" \in Phase
        BY DEF Phase
      <3>3. /\ phase' \in [Worker -> Phase] /\ held' \in [Worker -> ApprovalRow \union {Nothing}]
            /\ \A v \in Worker : phase'[v] # "idle" => held'[v] # Nothing
        BY <1>1, <1>7, <3>1, <3>2, WorkerType
      <3> QED BY <1>1, <1>7, <3>1, <3>3 DEF TypeInv, TypeOK
    <2>2. CASE ~Claimable(a)
      <3>1. Leave(w) /\ UNCHANGED <<row, aged>>
        BY <1>7, <2>2 DEF ClaimOrLeave
      <3> QED BY <1>1, <1>7, <3>1, WorkerType DEF TypeInv, TypeOK
    <2> QED BY <2>1, <2>2
  <1>8. ASSUME NEW w \in Worker, NEW version \in jobs, TakeJob(w, version) PROVE TypeInv'
    BY <1>1, <1>7, <1>8, RowType DEF TakeJob
  <1>9. ASSUME NEW w \in Worker, ClaimHeld(w) PROVE TypeInv'
    <2>1. held[w] \in ApprovalRow /\ phase[w] # "idle"
      BY <1>9, ObjectsHeld DEF ClaimHeld
    <2> QED BY <1>1, <1>7, <1>9, <2>1, RowType DEF ClaimHeld
  <1>10. ASSUME NEW w \in Worker,
                StartRun(w) \/ ResolveLocally(w) \/ PrepareCall(w) \/ GiveUp(w) \/ Lease(w)
                  \/ LoseAnswer(w) \/ ReadLedger(w) \/ \E o \in {"ok", "error"} : Answer(w, o)
         PROVE  TypeInv'
    <2>1. PICK to \in Phase : /\ phase' = [phase EXCEPT ![w] = to] /\ held' = held
                              /\ phase[w] # "idle"
      BY <1>10 DEF StartRun, ResolveLocally, PrepareCall, GiveUp, Lease, LoseAnswer, ReadLedger,
                   Answer, At, Phase
    <2>7. entry' \in [Worker -> ExecStatus] /\ stored' \in {"none", "ok", "error"}
      <3>1. stored \in {"none", "ok", "error"}
        BY DEF TypeInv, TypeOK
      <3>2. CASE StartRun(w) \/ ResolveLocally(w)
        BY <1>1, <3>1, <3>2 DEF StartRun, ResolveLocally
      <3>3. CASE PrepareCall(w) \/ Lease(w)
        <4>1. UNCHANGED stored /\ exec' \in ExecStatus
          BY <1>1, <3>3 DEF PrepareCall, Lease, ExecStatus
        <4>2. \E s \in ExecStatus : entry' = [entry EXCEPT ![w] = s]
          BY <1>1, <3>3, <4>1 DEF PrepareCall, Lease
        <4> QED BY <3>1, <4>1, <4>2, WorkerType
      <3>4. CASE \/ GiveUp(w) \/ LoseAnswer(w) \/ ReadLedger(w)
                 \/ \E o \in {"ok", "error"} : Answer(w, o)
        <4>1. Forget(w) /\ stored' \in {stored, "ok", "error"}
          BY <3>4 DEF GiveUp, LoseAnswer, ReadLedger, Answer
        <4>2. "absent" \in ExecStatus
          BY DEF ExecStatus
        <4> QED BY <3>1, <4>1, <4>2, WorkerType DEF Forget
      <3> QED BY <1>10, <3>2, <3>3, <3>4
    <2>2. \A v \in Worker : phase'[v] # "idle" => held'[v] # Nothing
      BY <1>1, <2>1
    <2>3. outcome' \in [Worker -> Outcome]
      <3>1. UNCHANGED outcome \/ \E o \in Outcome : Resolved(w, o)
        <4>1. /\ ResolveLocally(w) => \E o \in {"refused", "error"} : Resolved(w, o)
              /\ ReadLedger(w) => \E o \in {"ok", "error"} : Resolved(w, o)
              /\ \A o \in {"ok", "error"} :
                   Answer(w, o) => \E q \in {"ok", "error"} : Resolved(w, q)
              /\ LoseAnswer(w) => UNCHANGED outcome \/ Resolved(w, "error")
          BY DEF ResolveLocally, ReadLedger, Answer, LoseAnswer
        <4>2. /\ StartRun(w) => UNCHANGED outcome
              /\ PrepareCall(w) \/ GiveUp(w) \/ Lease(w) => UNCHANGED outcome
          BY DEF StartRun, PrepareCall, GiveUp, Lease
        <4>3. {"refused", "error"} \subseteq Outcome /\ {"ok", "error"} \subseteq Outcome
          BY DEF Outcome
        <4> QED BY <1>10, <4>1, <4>2, <4>3
      <3> QED BY <1>1, <3>1, WorkerType
    <2>4. exec' \in ExecStatus /\ leases' \in Nat /\ remoteOk' \in BOOLEAN
      <3>1. exec \in ExecStatus /\ leases \in Nat /\ remoteOk \in BOOLEAN /\ leases + 1 \in Nat
        BY DEF TypeInv, TypeOK
      <3>2. {"prepared", "executing", "unknown", "succeeded", "failed"} \subseteq ExecStatus
        BY DEF ExecStatus, Settled
      <3>3. CASE StartRun(w) \/ ResolveLocally(w) \/ ReadLedger(w)
        BY <3>1, <3>3 DEF StartRun, ResolveLocally, ReadLedger
      <3>4. CASE PrepareCall(w) \/ GiveUp(w) \/ Lease(w) \/ LoseAnswer(w)
        BY <3>1, <3>2, <3>4 DEF PrepareCall, GiveUp, Lease, LoseAnswer
      <3>5. ASSUME NEW o \in {"ok", "error"}, Answer(w, o)
            PROVE  exec' \in ExecStatus /\ leases' \in Nat /\ remoteOk' \in BOOLEAN
        BY <3>1, <3>2, <3>5 DEF Answer
      <3> QED BY <1>10, <3>3, <3>4, <3>5
    <2>5. run' \in {"waiting", "running", "reconciling", "elsewhere", "done"}
      BY <1>10
      DEF StartRun, RunIsResumed, ResolveLocally, PrepareCall, GiveUp, Lease, LoseAnswer,
          ReadLedger, Answer, TypeInv, TypeOK
    <2>6. UNCHANGED <<row, due, aged, expiry, jobs, ask, retrySafe, humanSaid>>
      BY <1>10
      DEF StartRun, ResolveLocally, PrepareCall, GiveUp, Lease, LoseAnswer, ReadLedger, Answer
    <2> QED
      BY <1>1, <2>1, <2>2, <2>3, <2>4, <2>5, <2>6, <2>7, WorkerType DEF TypeInv, TypeOK
  <1>11. ASSUME NEW w \in Worker, AwaitOperator(w) \/ EndGraph(w) \/ CloseRun(w) \/ Crash(w)
         PROVE  TypeInv'
    <2>1. Leave(w) /\ row' \in ApprovalRow
      BY <1>1, <1>11, RowType DEF AwaitOperator, EndGraph, CloseRun, Crash
    <2>2. run' \in {"waiting", "running", "reconciling", "elsewhere", "done"}
      BY <1>11 DEF AwaitOperator, EndGraph, CloseRun, Crash, TypeInv, TypeOK
    <2> QED
      BY <1>1, <1>11, <2>1, <2>2, WorkerType
      DEF AwaitOperator, EndGraph, CloseRun, Crash, TypeInv, TypeOK
  <1>12. ASSUME NEW w \in Worker, Finish(w) \/ Raise(w) PROVE TypeInv'
    <2>1. /\ row' \in ApprovalRow /\ held' = [held EXCEPT ![w] = row']
          /\ UNCHANGED <<due, aged, run, expiry, jobs, ask, outcome, entry, exec, stored,
                         retrySafe, leases, humanSaid, remoteOk>>
      BY <1>12, RowType DEF Finish, Raise
    <2>2. PICK to \in Phase : phase' = [phase EXCEPT ![w] = to]
      BY <1>12 DEF Finish, Raise, At, Phase
    <2> QED BY <1>1, <2>1, <2>2, WorkerType DEF TypeInv, TypeOK
  <1>13. ASSUME NEW w \in Worker, RecoverLease(w) PROVE TypeInv'
    <2>1. CASE Repeatable
      <3>1. Requeued(row) \in ApprovalRow /\ "held" \in Phase /\ "prepared" \in ExecStatus
        BY <1>1, Objects DEF Phase, ExecStatus
      <3>2. /\ row' = Requeued(row) /\ held' = [held EXCEPT ![w] = row'] /\ exec' = "prepared"
            /\ phase' = [phase EXCEPT ![w] = "held"]
            /\ entry' = [entry EXCEPT ![w] = "prepared"] /\ UNCHANGED run
        BY <1>13, <2>1 DEF RecoverLease
      <3>3. entry' \in [Worker -> ExecStatus]
        BY <3>1, <3>2, WorkerType
      <3> QED BY <1>1, <1>13, <3>1, <3>2, <3>3, WorkerType DEF RecoverLease, TypeInv, TypeOK
    <2>2. CASE ~Repeatable
      <3>1. row' = Parked(row) /\ exec' = "unknown" /\ UNCHANGED <<held, phase, entry>>
        BY <1>13, <2>2 DEF RecoverLease
      <3>2. row' \in ApprovalRow
        BY <1>1, <3>1, Objects DEF Parked, ApprovalStatus
      <3>3. run' \in {"waiting", "running", "reconciling", "elsewhere", "done"}
        BY <1>13, <2>2 DEF RecoverLease, TypeInv, TypeOK
      <3> QED BY <1>13, <3>1, <3>2, <3>3 DEF RecoverLease, TypeInv, TypeOK, ExecStatus
    <2> QED BY <2>1, <2>2
  <1>14. ASSUME NEW status \in {"succeeded", "failed", "prepared"}, Reconcile(status)
         PROVE  TypeInv'
    <2>1. row' \in ApprovalRow
      BY <1>1, <1>14, Objects DEF Reconcile
    <2>2. jobs' \subseteq Nat
      BY <1>1, <1>14, <2>1 DEF Reconcile, Enqueue, ApprovalRow
    <2>3. stored' \in {"none", "ok", "error"} /\ exec' \in ExecStatus
      BY <1>14 DEF Reconcile, ExecStatus, Settled
    <2> QED BY <1>14, <2>1, <2>2, <2>3 DEF Reconcile, TypeInv, TypeOK
  <1>17. ASSUME NEW w \in Worker, RecoveryDies(w) PROVE TypeInv'
    BY <1>17 DEF RecoveryDies, TypeInv, TypeOK, ExecStatus
  <1>15. CASE BecomeDue \/ ResumeAges \/ UNCHANGED vars
    <2>1. CASE BecomeDue
      BY <2>1 DEF BecomeDue, TypeInv, TypeOK
    <2>2. CASE ResumeAges
      BY <2>2 DEF ResumeAges, TypeInv, TypeOK
    <2>3. CASE UNCHANGED vars
      BY <2>3 DEF vars, TypeInv, TypeOK
    <2> QED BY <1>15, <2>1, <2>2, <2>3
  <1>16. CASE ResumeExecution
    <2>1. row' \in ApprovalRow
      BY <1>1, <1>16, Objects DEF ResumeExecution
    <2>2. jobs' \subseteq Nat
      BY <1>1, <1>16, <2>1 DEF ResumeExecution, Enqueue, ApprovalRow
    <2> QED BY <1>16, <2>1, <2>2 DEF ResumeExecution, TypeInv, TypeOK
  <1> QED
    BY <1>2, <1>3, <1>4, <1>5, <1>6, <1>8, <1>9, <1>10, <1>11, <1>12, <1>13, <1>14, <1>15,
       <1>16, <1>17
    DEF Next, Resume

\* Whatever requests, workers, the watchdog and operators do, every variable keeps its type.
THEOREM ApprovalTypes == Spec => []TypeOK
  <1>1. TypeInv => TypeOK
    BY DEF TypeInv
  <1> QED BY <1>1, TypeInit, TypeStep, PTL DEF Spec

-----------------------------------------------------------------------------
(* Nothing is claimed that was not said or answered.  The history only grows, *)
(* so an object that was backed when a session loaded it is backed as long as *)
(* the session keeps it, however old it gets.                                 *)

\* What an object of the approval claims is in the history.
Backed(a, said, ok, status) ==
  /\ a.decision = "approved" => said
  /\ a.result = "ok" => ok
  /\ a.status = "completed" => status # "waiting"

Witnessed(a) == Backed(a, humanSaid, remoteOk, run)

ObjectsWitnessed ==
  /\ Witnessed(row)
  /\ \A w \in Worker : phase[w] # "idle" => Witnessed(held[w])
  /\ \A r \in Request : ask[r] # Nothing => Witnessed(ask[r].seen)

\* A worker that may call has an approval; one that has started has its run.
Called == {"prepared", "calling"}
Started == Called \union {"resolving", "resolved", "graph", "unknown"}
WorkersHonest ==
  \A w \in Worker : /\ outcome[w] = "ok" => remoteOk
                    /\ entry[w] = "succeeded" => remoteOk
                    /\ phase[w] \in Called => humanSaid
                    /\ phase[w] \in Started => run # "waiting"

LedgerHonest ==
  /\ exec = "succeeded" \/ stored = "ok" => remoteOk
  /\ leases > 0 => humanSaid

HonestInv == ObjectsWitnessed /\ WorkersHonest /\ LedgerHonest

HistoryKept ==
  /\ humanSaid => humanSaid'
  /\ remoteOk => remoteOk'
  /\ run # "waiting" => run' # "waiting"

LEMMA HistoryGrows == TypeInv /\ [Next]_vars => HistoryKept
  <1> SUFFICES ASSUME TypeInv, [Next]_vars PROVE HistoryKept
    OBVIOUS
  <1> USE DEF requestVars, workerVars, ledgerVars, historyVars, HistoryKept
  <1>1. ASSUME NEW r \in Request, Decide(r) \/ RepeatOrRefuse(r) PROVE HistoryKept
    <2>1. CASE Decide(r)
      <3>1. UNCHANGED <<run, remoteOk>>
        BY <2>1 DEF Decide
      <3>2. humanSaid => humanSaid'
        BY <2>1, Zenon DEF Decide
      <3> QED BY <3>1, <3>2
    <2>2. CASE RepeatOrRefuse(r)
      BY <2>2 DEF RepeatOrRefuse
    <2> QED BY <1>1, <2>1, <2>2
  <1>2. ASSUME NEW w \in Worker, Resume(w) PROVE HistoryKept
    <2>1. CASE ClaimHeld(w) \/ ResolveLocally(w) \/ PrepareCall(w) \/ ReadLedger(w) \/ GiveUp(w)
      BY <2>1 DEF ClaimHeld, ResolveLocally, PrepareCall, ReadLedger, GiveUp
    <2>2. CASE Lease(w) \/ LoseAnswer(w) \/ Finish(w) \/ Raise(w) \/ Crash(w)
      BY <2>2 DEF Lease, LoseAnswer, Finish, Raise, Crash
    <2>3. CASE StartRun(w) \/ AwaitOperator(w) \/ EndGraph(w) \/ CloseRun(w)
      BY <2>3 DEF StartRun, RunIsResumed, AwaitOperator, EndGraph, CloseRun
    <2>4. ASSUME NEW o \in {"ok", "error"}, Answer(w, o) PROVE HistoryKept
      BY <2>4 DEF Answer
    <2> QED BY <1>2, <2>1, <2>2, <2>3, <2>4 DEF Resume
  <1>3. ASSUME NEW w \in Worker, Expire(w) \/ RecoverLease(w) \/ RecoveryDies(w)
        PROVE  HistoryKept
    BY <1>3 DEF Expire, RecoverLease, RecoveryDies
  <1>4. ASSUME NEW w \in Worker, NEW version \in jobs, TakeJob(w, version) PROVE HistoryKept
    BY <1>4 DEF TakeJob
  <1>5. ASSUME NEW r \in Request, NEW d \in Decision, NEW v \in {1, row.version}, Submit(r, d, v)
        PROVE  HistoryKept
    BY <1>5 DEF Submit
  <1>6. ASSUME NEW status \in {"succeeded", "failed", "prepared"}, Reconcile(status)
        PROVE  HistoryKept
    BY <1>6 DEF Reconcile
  <1>7. CASE RetryResume \/ ResumeExecution \/ BecomeDue \/ ResumeAges \/ UNCHANGED vars
    BY <1>7 DEF RetryResume, ResumeExecution, BecomeDue, ResumeAges, vars
  <1> QED BY <1>1, <1>2, <1>3, <1>4, <1>5, <1>6, <1>7 DEF Next

\* Changes of the approval claim nothing new: only a decision, a result and the end do.
LEMMA ObjectsStayBacked ==
  ASSUME NEW a \in ApprovalRow, NEW said, NEW ok, NEW status, Backed(a, said, ok, status)
  PROVE  /\ \A s \in ApprovalStatus \ {"completed"} :
              Backed(Bump([a EXCEPT !.status = s]), said, ok, status)
         /\ \A d \in Decision : (d = "approved" => said) =>
              Backed(Bump([a EXCEPT !.decision = d, !.status = "queued"]), said, ok, status)
         /\ \A o \in Outcome : (o = "ok" => ok) /\ (o # "error" => status # "waiting") =>
              Backed(Finished(a, o), said, ok, status)
         /\ Backed(Requeued(a), said, ok, status)
  <1>1. ASSUME NEW s \in ApprovalStatus \ {"completed"}
        PROVE  Backed(Bump([a EXCEPT !.status = s]), said, ok, status)
    <2> DEFINE b == Bump([a EXCEPT !.status = s])
    <2>1. b.status = s /\ b.decision = a.decision /\ b.result = a.result
      BY Objects
    <2> HIDE DEF b
    <2>2. Backed(b, said, ok, status)
      BY <1>1, <2>1 DEF Backed
    <2> QED BY <2>2 DEF b
  <1>2. ASSUME NEW d \in Decision, d = "approved" => said
        PROVE  Backed(Bump([a EXCEPT !.decision = d, !.status = "queued"]), said, ok, status)
    <2> DEFINE b == Bump([a EXCEPT !.decision = d, !.status = "queued"])
    <2>1. b.status = "queued" /\ b.decision = d /\ b.result = a.result
      BY DEF Bump, ApprovalRow
    <2> HIDE DEF b
    <2>2. Backed(b, said, ok, status)
      BY <1>2, <2>1 DEF Backed
    <2> QED BY <2>2 DEF b
  <1>3. ASSUME NEW o \in Outcome, o = "ok" => ok, o # "error" => status # "waiting"
        PROVE  Backed(Finished(a, o), said, ok, status)
    <2> DEFINE b == Finished(a, o)
    <2>1. /\ b.status = "completed" => o # "error"
          /\ b.decision = a.decision /\ b.result = o
      BY DEF Finished, Bump, ApprovalRow
    <2> HIDE DEF b
    <2>2. Backed(b, said, ok, status)
      BY <1>3, <2>1 DEF Backed
    <2> QED BY <2>2 DEF b
  <1>4. Backed(Requeued(a), said, ok, status)
    <2> DEFINE b == Requeued(a)
    <2>1. b.status \in {a.status, "queued"} /\ b.decision = a.decision /\ b.result = a.result
      BY Objects
    <2> HIDE DEF b
    <2>2. Backed(b, said, ok, status)
      BY <2>1 DEF Backed
    <2> QED BY <2>2 DEF b
  <1> QED BY <1>1, <1>2, <1>3, <1>4

\* A commit mixes what two objects claim.
LEMMA FlushIsBacked ==
  ASSUME row \in ApprovalRow, NEW loaded \in ApprovalRow, NEW new \in ApprovalRow,
         NEW said, NEW ok, NEW status, Backed(row, said, ok, status), Backed(new, said, ok, status)
  PROVE  Backed(Flush(loaded, new), said, ok, status)
  <1> DEFINE f == Flush(loaded, new)
  <1>1. /\ f.status \in {row.status, new.status} /\ f.decision \in {row.decision, new.decision}
        /\ f.result \in {row.result, new.result}
    BY FlushColumns
  <1> HIDE DEF f
  <1>2. Backed(f, said, ok, status)
    BY <1>1 DEF Backed
  <1> QED BY <1>2 DEF f

\* What the objects of the sessions claim, when they are new or kept.
LEMMA ObjectsKept ==
  ASSUME TypeInv, HonestInv, HistoryKept, Witnessed(row)',
         \A v \in Worker : phase'[v] # "idle" =>
           held'[v] = row' \/ (phase[v] # "idle" /\ held'[v] = held[v]),
         \A r \in Request : ask'[r] # Nothing =>
           ask'[r].seen = row \/ (ask[r] # Nothing /\ ask'[r] = ask[r])
  PROVE  ObjectsWitnessed'
  <1>1. \A a : Witnessed(a) => Backed(a, humanSaid', remoteOk', run')
    BY DEF Witnessed, Backed, HistoryKept
  <1>2. ASSUME NEW v \in Worker, phase'[v] # "idle"
        PROVE  Backed(held'[v], humanSaid', remoteOk', run')
    <2>1. CASE held'[v] = row'
      BY <2>1 DEF Witnessed
    <2>2. CASE phase[v] # "idle" /\ held'[v] = held[v]
      BY <1>1, <2>2 DEF HonestInv, ObjectsWitnessed
    <2> QED BY <1>2, <2>1, <2>2
  <1>3. ASSUME NEW r \in Request, ask'[r] # Nothing
        PROVE  Backed(ask'[r].seen, humanSaid', remoteOk', run')
    <2>1. CASE ask'[r].seen = row
      BY <1>1, <2>1 DEF HonestInv, ObjectsWitnessed
    <2>2. CASE ask[r] # Nothing /\ ask'[r] = ask[r]
      BY <1>1, <2>2 DEF HonestInv, ObjectsWitnessed
    <2> QED BY <1>3, <2>1, <2>2
  <1> QED BY <1>2, <1>3 DEF ObjectsWitnessed, Witnessed

\* One worker moves, or none.
LEMMA WorkersKept ==
  ASSUME TypeInv, HonestInv, HistoryKept, NEW w \in Worker,
         \A v \in Worker \ {w} :
           phase'[v] = phase[v] /\ outcome'[v] = outcome[v] /\ entry'[v] = entry[v],
         entry'[w] = "succeeded" => remoteOk', outcome'[w] = "ok" => remoteOk',
         phase'[w] \in Called => humanSaid',
         phase'[w] \in Started => run' # "waiting"
  PROVE  WorkersHonest'
  BY DEF WorkersHonest, HonestInv, HistoryKept

LEMMA WorkersStill ==
  ASSUME TypeInv, HonestInv, HistoryKept,
         \A v \in Worker : /\ phase'[v] \notin Started \/ phase'[v] = phase[v]
                           /\ outcome'[v] = outcome[v] /\ entry'[v] = entry[v]
  PROVE  WorkersHonest'
  BY DEF WorkersHonest, HonestInv, HistoryKept, Started

LEMMA HonestInit == Init => HonestInv
  BY DEF Init, HonestInv, ObjectsWitnessed, WorkersHonest, LedgerHonest, Witnessed, Backed,
         Called, Started

\* The row of a request, of an expiration and of a resume stays backed.
LEMMA RowIsBacked ==
  ASSUME TypeInv, HonestInv, HistoryKept
  PROVE  /\ \A r \in Request : Decide(r) => Witnessed(row)'
         /\ \A w \in Worker :
              /\ Expire(w) \/ RecoverLease(w) \/ RecoveryDies(w) => Witnessed(row)'
              /\ \A a \in ApprovalRow : Witnessed(a) /\ ClaimOrLeave(w, a) => Witnessed(row)'
              /\ Finish(w) \/ Raise(w) \/ AwaitOperator(w) => Witnessed(row)'
         /\ \A s \in {"succeeded", "failed", "prepared"} : Reconcile(s) => Witnessed(row)'
         /\ ResumeExecution => Witnessed(row)'
         /\ UNCHANGED row => Witnessed(row)'
  <1> DEFINE Good(a) == Backed(a, humanSaid', remoteOk', run')
  <1>1. /\ row \in ApprovalRow
        /\ \A w \in Worker : phase[w] # "idle" => held[w] \in ApprovalRow
        /\ \A r \in Request : ask[r] # Nothing =>
             ask[r].seen \in ApprovalRow /\ ask[r].decision \in Decision
    BY ObjectsHeld
  <1>2. \A a : Witnessed(a) => Good(a)
    BY DEF Witnessed, Backed, HistoryKept
  <1>3. /\ Good(row)
        /\ \A w \in Worker : phase[w] # "idle" => Good(held[w])
        /\ \A r \in Request : ask[r] # Nothing => Good(ask[r].seen)
    BY <1>2 DEF HonestInv, ObjectsWitnessed
  <1>4. \A a, b \in ApprovalRow : Good(b) => Good(Flush(a, b))
    BY <1>1, <1>3, FlushIsBacked
  <1>5. ASSUME NEW a \in ApprovalRow, Good(a)
        PROVE  /\ \A s \in ApprovalStatus \ {"completed"} : Good(Bump([a EXCEPT !.status = s]))
               /\ \A d \in Decision : (d = "approved" => humanSaid') =>
                    Good(Bump([a EXCEPT !.decision = d, !.status = "queued"]))
               /\ \A o \in Outcome : (o = "ok" => remoteOk') /\ (o # "error" => run' # "waiting") =>
                    Good(Finished(a, o))
               /\ Good(Requeued(a))
    BY <1>5, ObjectsStayBacked
  <1>6. Witnessed(row)' <=> Good(row')
    BY DEF Witnessed
  <1> HIDE DEF Good
  <1>7. ASSUME NEW r \in Request, Decide(r) PROVE Good(row')
    <2> DEFINE d == Taken(ask[r].decision)
               new == Bump([ask[r].seen EXCEPT !.decision = d, !.status = "queued"])
    <2>1. ask[r].seen \in ApprovalRow /\ ask[r].decision \in Decision /\ Good(ask[r].seen)
      BY <1>1, <1>3, <1>7 DEF Decide
    <2>2. d \in Decision
      BY <2>1 DEF Taken, Decision
    <2>3. d = "approved" => humanSaid'
      <3>1. humanSaid' = (humanSaid \/ (ask[r].decision = "approved" /\ ~due))
        BY <1>7 DEF Decide
      <3>2. d = "approved" => ask[r].decision = "approved" /\ ~due
        BY DEF Taken
      <3> HIDE DEF d
      <3> QED BY <3>1, <3>2, Zenon
    <2>4. row' = Flush(ask[r].seen, new)
      BY <1>7 DEF Decide
    <2> HIDE DEF d
    <2>5. new \in ApprovalRow /\ Good(new)
      BY <1>5, <2>1, <2>2, <2>3, Objects
    <2> HIDE DEF new
    <2> QED BY <1>4, <2>1, <2>4, <2>5
  <1>8. ASSUME NEW w \in Worker, Expire(w) PROVE Good(row')
    <2>1. \/ row' = row
          \/ row' = Bump([row EXCEPT !.decision = "rejected", !.status = "queued"])
      BY <1>8 DEF Expire
    <2>2. "rejected" \in Decision /\ ("rejected" = "approved" => humanSaid')
      BY DEF Decision
    <2> QED BY <1>1, <1>3, <1>5, <2>1, <2>2
  <1>9. ASSUME NEW w \in Worker, RecoverLease(w) \/ RecoveryDies(w) PROVE Good(row')
    <2>1. "reconciliation_required" \in ApprovalStatus \ {"completed"}
      BY DEF ApprovalStatus
    <2>2. Good(Parked(row)) /\ Good(Requeued(row))
      BY <1>1, <1>3, <1>5, <2>1 DEF Parked
    <2>3. row' \in {row, Requeued(row), Parked(row)}
      BY <1>9 DEF RecoverLease, RecoveryDies
    <2> QED BY <1>3, <2>2, <2>3
  <1>10. ASSUME NEW w \in Worker, NEW a \in ApprovalRow, Good(a), ClaimOrLeave(w, a)
         PROVE  Good(row')
    <2> DEFINE new == Bump([a EXCEPT !.status = "resuming"])
    <2>1. "resuming" \in ApprovalStatus \ {"completed"}
      BY DEF ApprovalStatus
    <2>2. new \in ApprovalRow /\ Good(new)
      BY <1>5, <1>10, <2>1, Objects
    <2>3. row' = row \/ row' = Flush(a, new)
      BY <1>10 DEF ClaimOrLeave
    <2> HIDE DEF new
    <2> QED BY <1>3, <1>4, <2>2, <2>3
  <1>11. ASSUME NEW w \in Worker, Finish(w) PROVE Good(row')
    <2>1. held[w] \in ApprovalRow /\ Good(held[w]) /\ phase[w] = "resolved" /\ outcome[w] \in Outcome
      BY <1>1, <1>3, <1>11 DEF Finish, At, TypeInv, TypeOK
    <2>2. (outcome[w] = "ok" => remoteOk') /\ run' # "waiting"
      BY <2>1 DEF HonestInv, WorkersHonest, Started, HistoryKept
    <2>3. Finished(held[w], outcome[w]) \in ApprovalRow /\ Good(Finished(held[w], outcome[w]))
      BY <1>5, <2>1, <2>2, Objects
    <2> QED BY <1>4, <1>11, <2>1, <2>3 DEF Finish
  <1>12. ASSUME NEW w \in Worker, Raise(w) PROVE Good(row')
    <2>1. held[w] \in ApprovalRow /\ Good(held[w]) /\ "error" \in Outcome
      BY <1>1, <1>3, <1>12 DEF Raise, Outcome
    <2>2. Finished(held[w], "error") \in ApprovalRow /\ Good(Finished(held[w], "error"))
      BY <1>5, <2>1, Objects
    <2> QED BY <1>4, <1>12, <2>1, <2>2 DEF Raise
  <1>13. ASSUME NEW w \in Worker, AwaitOperator(w) PROVE Good(row')
    <2> DEFINE new == Bump([held[w] EXCEPT !.status = "reconciliation_required"])
    <2>1. held[w] \in ApprovalRow /\ Good(held[w])
      BY <1>1, <1>3, <1>13 DEF AwaitOperator
    <2>2. "reconciliation_required" \in ApprovalStatus \ {"completed"}
      BY DEF ApprovalStatus
    <2>3. new \in ApprovalRow /\ Good(new)
      BY <1>5, <2>1, <2>2, Objects
    <2>4. row' = Flush(held[w], new)
      BY <1>13 DEF AwaitOperator
    <2> HIDE DEF new
    <2> QED BY <1>4, <2>1, <2>3, <2>4
  <1>14. ASSUME NEW s \in {"succeeded", "failed", "prepared"}, Reconcile(s) PROVE Good(row')
    BY <1>1, <1>3, <1>5, <1>14 DEF Reconcile
  <1>15. ASSUME ResumeExecution PROVE Good(row')
    BY <1>1, <1>3, <1>5, <1>15 DEF ResumeExecution
  <1> QED
    BY <1>2, <1>3, <1>6, <1>7, <1>8, <1>9, <1>10, <1>11, <1>12, <1>13, <1>14, <1>15

LEMMA HonestStep == TypeInv /\ HonestInv /\ [Next]_vars => HonestInv'
  <1> SUFFICES ASSUME TypeInv, HonestInv, [Next]_vars PROVE HonestInv'
    OBVIOUS
  <1> USE DEF requestVars, workerVars, ledgerVars, historyVars
  <1>1. HistoryKept
    BY HistoryGrows
  <1>2. /\ row \in ApprovalRow /\ LedgerHonest
        /\ \A w \in Worker : phase[w] # "idle" => held[w] \in ApprovalRow
        /\ phase \in [Worker -> Phase] /\ held \in [Worker -> ApprovalRow \union {Nothing}]
        /\ outcome \in [Worker -> Outcome] /\ ask \in [Request -> Asking \union {Nothing}]
        /\ leases \in Nat /\ entry \in [Worker -> ExecStatus]
    BY ObjectsHeld DEF HonestInv, TypeInv, TypeOK
  \* the ledger: only an answer, an operator and a lease change what it claims
  <1>3. ASSUME UNCHANGED <<stored, leases>>, exec' # "succeeded" \/ exec' = exec
        PROVE  LedgerHonest'
    BY <1>1, <1>2, <1>3 DEF LedgerHonest, HistoryKept
  \* a request
  <1>4. ASSUME UNCHANGED <<phase, outcome, held, ledgerVars, entry>>, Witnessed(row)',
               \A r \in Request : ask'[r] # Nothing =>
                 ask'[r].seen = row \/ (ask[r] # Nothing /\ ask'[r] = ask[r])
        PROVE  HonestInv'
    <2>1. ObjectsWitnessed'
      BY <1>1, <1>4, ObjectsKept
    <2>2. WorkersHonest'
      BY <1>1, <1>4, WorkersStill
    <2> QED BY <1>3, <1>4, <2>1, <2>2 DEF HonestInv
  <1>5. ASSUME NEW r \in Request, NEW d \in Decision, NEW v \in {1, row.version}, Submit(r, d, v)
        PROVE  HonestInv'
    <2>1. UNCHANGED <<row, phase, outcome, held, ledgerVars, entry>>
      BY <1>5 DEF Submit
    <2>2. \A q \in Request : ask'[q] # Nothing =>
            ask'[q].seen = row \/ (ask[q] # Nothing /\ ask'[q] = ask[q])
      BY <1>2, <1>5 DEF Submit
    <2>3. Witnessed(row)'
      BY <1>1, <2>1, RowIsBacked
    <2> QED BY <1>4, <2>1, <2>2, <2>3
  <1>6. ASSUME NEW r \in Request, Decide(r) \/ RepeatOrRefuse(r) PROVE HonestInv'
    <2>1. UNCHANGED <<phase, outcome, held, ledgerVars, entry>> /\ ask' = [ask EXCEPT ![r] = Nothing]
      BY <1>6 DEF Decide, RepeatOrRefuse
    <2>2. Decide(r) \/ UNCHANGED row
      BY <1>6 DEF RepeatOrRefuse
    <2>3. Witnessed(row)'
      BY <1>1, <2>2, RowIsBacked
    <2>4. \A q \in Request : ask'[q] # Nothing => ask[q] # Nothing /\ ask'[q] = ask[q]
      BY <1>2, <2>1
    <2> QED BY <1>4, <2>1, <2>3, <2>4
  <1>7. CASE RetryResume \/ ResumeExecution \/ BecomeDue \/ ResumeAges \/ UNCHANGED vars
    <2>1. /\ UNCHANGED <<ask, phase, outcome, held, ledgerVars, entry>>
          /\ ResumeExecution \/ UNCHANGED row
      BY <1>7 DEF RetryResume, ResumeExecution, BecomeDue, ResumeAges, vars
    <2>2. Witnessed(row)'
      BY <1>1, <2>1, RowIsBacked
    <2> QED BY <1>4, <2>1, <2>2
  <1>8. ASSUME NEW s \in {"succeeded", "failed", "prepared"}, Reconcile(s) PROVE HonestInv'
    <2>1. /\ UNCHANGED <<phase, outcome, held, entry, ask, leases>> /\ exec' = s
          /\ stored' = "ok" => s = "succeeded"
      BY <1>8 DEF Reconcile
    <2>2. s = "succeeded" => remoteOk'
      <3>1. remoteOk' = (remoteOk \/ s = "succeeded")
        BY <1>8 DEF Reconcile
      <3> QED BY <3>1, Zenon
    <2>3. Witnessed(row)'
      BY <1>1, <1>8, RowIsBacked
    <2>4. ObjectsWitnessed'
      BY <1>1, <2>1, <2>3, ObjectsKept
    <2>5. WorkersHonest'
      BY <1>1, <2>1, WorkersStill
    <2>6. LedgerHonest'
      BY <1>1, <1>2, <2>1, <2>2 DEF LedgerHonest, HistoryKept
    <2> QED BY <2>4, <2>5, <2>6 DEF HonestInv
  \* a worker that keeps its object and goes on with the same claims
  <1>9. ASSUME NEW w \in Worker, NEW to \in Phase, phase[w] # "idle",
               phase' = [phase EXCEPT ![w] = to], UNCHANGED <<row, held, ask>>,
               UNCHANGED outcome \/ \E o \in Outcome : Resolved(w, o) /\ (o = "ok" => remoteOk'),
               \/ UNCHANGED entry
               \/ \E s \in ExecStatus :
                    entry' = [entry EXCEPT ![w] = s] /\ (s = "succeeded" => remoteOk'),
               to \in Called => humanSaid', to \in Started => run' # "waiting", LedgerHonest'
        PROVE  HonestInv'
    <2>1. /\ phase'[w] = to
          /\ \A v \in Worker \ {w} : phase'[v] = phase[v]
      BY <1>2, <1>9
    <2>2. /\ \A v \in Worker \ {w} : outcome'[v] = outcome[v]
          /\ outcome'[w] = "ok" => remoteOk'
      <3>1. CASE UNCHANGED outcome
        BY <1>1, <3>1 DEF HonestInv, WorkersHonest, HistoryKept
      <3>2. ASSUME NEW o \in Outcome, Resolved(w, o), o = "ok" => remoteOk'
            PROVE  /\ \A v \in Worker \ {w} : outcome'[v] = outcome[v]
                   /\ outcome'[w] = "ok" => remoteOk'
        BY <1>2, <3>2 DEF Resolved
      <3> QED BY <1>9, <3>1, <3>2
    <2>6. /\ \A v \in Worker \ {w} : entry'[v] = entry[v]
          /\ entry'[w] = "succeeded" => remoteOk'
      <3>1. CASE UNCHANGED entry
        BY <1>1, <3>1 DEF HonestInv, WorkersHonest, HistoryKept
      <3>2. CASE \E s \in ExecStatus :
                   entry' = [entry EXCEPT ![w] = s] /\ (s = "succeeded" => remoteOk')
        BY <1>2, <3>2
      <3> QED BY <1>9, <3>1, <3>2
    <2>3. WorkersHonest'
      BY <1>1, <1>9, <2>1, <2>2, <2>6, WorkersKept
    <2>4. \A v \in Worker : phase'[v] # "idle" => phase[v] # "idle" /\ held'[v] = held[v]
      BY <1>9, <2>1
    <2>5. ObjectsWitnessed'
      <3>1. Witnessed(row)'
        BY <1>1, <1>9, RowIsBacked
      <3> QED BY <1>1, <1>9, <2>4, <3>1, ObjectsKept
    <2> QED BY <1>9, <2>3, <2>5 DEF HonestInv
  \* a worker that leaves
  <1>10. ASSUME NEW w \in Worker, Leave(w), Witnessed(row)', UNCHANGED <<ask, ledgerVars>>
         PROVE  HonestInv'
    <2>1. /\ phase'[w] = "idle" /\ outcome'[w] = "none" /\ entry'[w] = "absent"
          /\ \A v \in Worker \ {w} :
               /\ phase'[v] = phase[v] /\ outcome'[v] = outcome[v]
               /\ held'[v] = held[v] /\ entry'[v] = entry[v]
      BY <1>2, <1>10 DEF Leave
    <2>2. WorkersHonest'
      BY <1>1, <2>1, WorkersKept DEF Called, Started
    <2>3. ObjectsWitnessed'
      BY <1>1, <1>10, <2>1, ObjectsKept
    <2> QED BY <1>3, <1>10, <2>2, <2>3 DEF HonestInv
  \* a worker that takes the row it has committed
  <1>11. ASSUME NEW w \in Worker, NEW to \in Phase, phase' = [phase EXCEPT ![w] = to],
                held' = [held EXCEPT ![w] = row'], Witnessed(row)',
                UNCHANGED <<ask, outcome, stored, leases>>,
                UNCHANGED entry \/ entry' = [entry EXCEPT ![w] = "prepared"],
                exec' # "succeeded" \/ exec' = exec,
                to \notin Called, to \in Started => run' # "waiting"
         PROVE  HonestInv'
    <2>1. /\ phase'[w] = to /\ held'[w] = row'
          /\ \A v \in Worker \ {w} : phase'[v] = phase[v] /\ held'[v] = held[v]
      BY <1>2, <1>11
    <2>2. /\ outcome'[w] = "ok" \/ entry'[w] = "succeeded" => remoteOk'
          /\ \A v \in Worker \ {w} : entry'[v] = entry[v]
      BY <1>1, <1>2, <1>11 DEF HonestInv, WorkersHonest, HistoryKept
    <2>3. WorkersHonest'
      BY <1>1, <1>11, <2>1, <2>2, WorkersKept
    <2>4. ObjectsWitnessed'
      BY <1>1, <1>11, <2>1, ObjectsKept
    <2> QED BY <1>3, <1>11, <2>3, <2>4 DEF HonestInv
  <1>12. ASSUME NEW w \in Worker, Expire(w) PROVE HonestInv'
    <2>1. Witnessed(row)' /\ UNCHANGED <<ask, outcome, ledgerVars, entry>>
      BY <1>1, <1>12, RowIsBacked DEF Expire
    <2>2. CASE Expirable(row)
      <3>1. held' = [held EXCEPT ![w] = row'] /\ phase' = [phase EXCEPT ![w] = "held"]
        BY <1>12, <2>2 DEF Expire
      <3>2. "held" \in Phase /\ "held" \notin Called /\ "held" \notin Started
        BY DEF Phase, Called, Started
      <3> QED BY <1>11, <2>1, <3>1, <3>2
    <2>3. CASE ~Expirable(row)
      <3>1. UNCHANGED <<held, phase>>
        BY <1>12, <2>3 DEF Expire
      <3> QED BY <1>4, <2>1, <3>1
    <2> QED BY <2>2, <2>3
  <1>13. ASSUME NEW w \in Worker, RecoverLease(w) \/ RecoveryDies(w) PROVE HonestInv'
    <2>1. /\ Witnessed(row)' /\ UNCHANGED <<ask, outcome, stored, leases>>
          /\ exec' # "succeeded"
      BY <1>1, <1>13, RowIsBacked DEF RecoverLease, RecoveryDies
    <2>2. CASE RecoverLease(w) /\ Repeatable
      <3>1. /\ held' = [held EXCEPT ![w] = row'] /\ phase' = [phase EXCEPT ![w] = "held"]
            /\ entry' = [entry EXCEPT ![w] = "prepared"]
        BY <2>2 DEF RecoverLease
      <3>2. "held" \in Phase /\ "held" \notin Called /\ "held" \notin Started
        BY DEF Phase, Called, Started
      <3> QED BY <1>11, <2>1, <3>1, <3>2
    <2>3. CASE RecoveryDies(w) \/ (RecoverLease(w) /\ ~Repeatable)
      <3>1. UNCHANGED <<held, phase, entry>>
        BY <2>3 DEF RecoverLease, RecoveryDies
      <3>2. ObjectsWitnessed'
        BY <1>1, <2>1, <3>1, ObjectsKept
      <3>3. WorkersHonest'
        BY <1>1, <2>1, <3>1, WorkersStill
      <3> QED BY <1>3, <2>1, <3>2, <3>3 DEF HonestInv
    <2> QED BY <1>13, <2>2, <2>3
  <1>14. ASSUME NEW w \in Worker, NEW a \in ApprovalRow, Witnessed(a), ClaimOrLeave(w, a),
                UNCHANGED <<ask, ledgerVars>>
         PROVE  HonestInv'
    <2>1. Witnessed(row)'
      BY <1>1, <1>14, RowIsBacked
    <2>2. CASE Claimable(a)
      <3>1. /\ held' = [held EXCEPT ![w] = row'] /\ phase' = [phase EXCEPT ![w] = "claimed"]
            /\ UNCHANGED <<outcome, entry>>
        BY <1>14, <2>2 DEF ClaimOrLeave
      <3>2. "claimed" \in Phase /\ "claimed" \notin Called /\ "claimed" \notin Started
        BY DEF Phase, Called, Started
      <3> QED BY <1>11, <1>14, <2>1, <3>1, <3>2
    <2>3. CASE ~Claimable(a)
      BY <1>10, <1>14, <2>1, <2>3 DEF ClaimOrLeave
    <2> QED BY <2>2, <2>3
  <1>15. ASSUME NEW w \in Worker, NEW version \in jobs, TakeJob(w, version) PROVE HonestInv'
    <2>1. Witnessed(row) /\ ClaimOrLeave(w, row) /\ UNCHANGED <<ask, ledgerVars>>
      BY <1>15 DEF TakeJob, HonestInv, ObjectsWitnessed
    <2> QED BY <1>2, <1>14, <2>1
  <1>16. ASSUME NEW w \in Worker, ClaimHeld(w) PROVE HonestInv'
    <2>1. /\ Witnessed(held[w]) /\ ClaimOrLeave(w, held[w]) /\ UNCHANGED <<ask, ledgerVars>>
          /\ held[w] \in ApprovalRow
      BY <1>2, <1>16 DEF ClaimHeld, HonestInv, ObjectsWitnessed
    <2> QED BY <1>14, <2>1
  <1>17. ASSUME NEW w \in Worker, StartRun(w) PROVE HonestInv'
    <2>1. /\ phase[w] # "idle" /\ phase' = [phase EXCEPT ![w] = "resolving"] /\ run' = "running"
          /\ UNCHANGED <<row, held, ask, outcome, ledgerVars, entry>>
      BY <1>17 DEF StartRun, At, RunIsResumed
    <2>2. "resolving" \in Phase /\ "resolving" \notin Called
      BY DEF Phase, Called
    <2> QED BY <1>3, <1>9, <2>1, <2>2
  \* a worker on its way has its run
  <1>18. ASSUME NEW w \in Worker, phase[w] \in Started PROVE run' # "waiting"
    BY <1>1, <1>18 DEF HonestInv, WorkersHonest, HistoryKept
  <1>19. ASSUME NEW w \in Worker, ResolveLocally(w) PROVE HonestInv'
    <2>1. /\ phase[w] = "resolving" /\ phase' = [phase EXCEPT ![w] = "resolved"]
          /\ UNCHANGED <<row, held, ask, ledgerVars, entry>>
          /\ Resolved(w, "refused") \/ Resolved(w, "error")
      BY <1>19 DEF ResolveLocally, At
    <2>2. /\ "resolved" \in Phase /\ "resolved" \notin Called /\ "resolving" \in Started
          /\ "refused" \in Outcome /\ "error" \in Outcome
      BY DEF Phase, Called, Started, Outcome
    <2> HIDE DEF Resolved
    <2> QED BY <1>3, <1>9, <1>18, <2>1, <2>2
  \* the objects of the ledger row that a session takes or puts away
  <1>27. ASSUME NEW w \in Worker, Forget(w)
         PROVE  \E s \in ExecStatus : /\ entry' = [entry EXCEPT ![w] = s]
                                      /\ s = "succeeded" => remoteOk'
    <2>1. "absent" \in ExecStatus
      BY DEF ExecStatus
    <2> QED BY <1>27, <2>1 DEF Forget
  <1>28. exec = "succeeded" \/ stored = "ok" => remoteOk'
    BY <1>1, <1>2 DEF LedgerHonest, HistoryKept
  <1>20. ASSUME NEW w \in Worker, PrepareCall(w) PROVE HonestInv'
    <2>1. /\ phase[w] = "resolving" /\ phase' = [phase EXCEPT ![w] = "prepared"]
          /\ UNCHANGED <<row, held, ask, outcome, stored, leases, humanSaid>>
          /\ held[w].decision = "approved" /\ (exec' = "prepared" \/ exec' = exec)
          /\ UNCHANGED entry \/ entry' = [entry EXCEPT ![w] = exec']
      BY <1>2, <1>20 DEF PrepareCall, MayCall, At
    <2>2. humanSaid'
      BY <2>1 DEF HonestInv, ObjectsWitnessed, Witnessed, Backed
    <2>3. "prepared" \in Phase /\ "resolving" \in Started
      BY DEF Phase, Started
    <2>4. exec' \in ExecStatus /\ (exec' = "succeeded" => remoteOk')
      BY <1>28, <2>1 DEF TypeInv, TypeOK, ExecStatus
    <2> QED BY <1>3, <1>9, <1>18, <2>1, <2>2, <2>3, <2>4
  <1>21. ASSUME NEW w \in Worker, ReadLedger(w) PROVE HonestInv'
    <2>1. /\ phase[w] = "prepared" /\ phase' = [phase EXCEPT ![w] = "resolved"]
          /\ UNCHANGED <<row, held, ask, ledgerVars>> /\ Forget(w)
          /\ (stored = "ok" /\ Resolved(w, "ok")) \/ Resolved(w, "error")
      BY <1>21 DEF ReadLedger, At
    <2>2. /\ "resolved" \in Phase /\ "resolved" \notin Called /\ "prepared" \in Started
          /\ "ok" \in Outcome /\ "error" \in Outcome
      BY DEF Phase, Called, Started, Outcome
    <2> HIDE DEF Resolved, Forget
    <2> QED BY <1>3, <1>9, <1>18, <1>27, <1>28, <2>1, <2>2
  <1>22. ASSUME NEW w \in Worker, GiveUp(w) \/ LoseAnswer(w) PROVE HonestInv'
    <2>1. PICK to \in {"unknown", "resolved"} :
          /\ phase[w] \in Called /\ phase' = [phase EXCEPT ![w] = to]
          /\ UNCHANGED <<row, held, ask, stored, leases>> /\ (exec' = "unknown" \/ exec' = exec)
          /\ Forget(w) /\ (UNCHANGED outcome \/ Resolved(w, "error"))
      BY <1>22 DEF GiveUp, LoseAnswer, At, Called
    <2>2. /\ to \in Phase /\ to \notin Called /\ Called \subseteq Started
          /\ "idle" \notin Called /\ "error" \in Outcome
      BY DEF Phase, Called, Started, Outcome
    <2> HIDE DEF Resolved, Forget
    <2> QED BY <1>3, <1>9, <1>18, <1>27, <2>1, <2>2
  <1>23. ASSUME NEW w \in Worker, Lease(w) PROVE HonestInv'
    <2>1. /\ phase[w] = "prepared" /\ phase' = [phase EXCEPT ![w] = "calling"]
          /\ UNCHANGED <<row, held, ask, outcome, stored>>
          /\ (exec' = "executing" \/ exec' = exec) /\ entry' = [entry EXCEPT ![w] = exec']
      BY <1>23 DEF Lease, At
    <2>2. "calling" \in Phase /\ "prepared" \in Called /\ "prepared" \in Started
      BY DEF Phase, Called, Started
    <2>3. humanSaid'
      BY <1>1, <2>1, <2>2 DEF HonestInv, WorkersHonest, HistoryKept
    <2>4. LedgerHonest'
      BY <1>28, <2>1, <2>3 DEF LedgerHonest
    <2>5. exec' \in ExecStatus /\ (exec' = "succeeded" => remoteOk')
      BY <1>28, <2>1 DEF TypeInv, TypeOK, ExecStatus
    <2> QED BY <1>9, <1>18, <2>1, <2>2, <2>3, <2>4, <2>5
  <1>24. ASSUME NEW w \in Worker, NEW o \in {"ok", "error"}, Answer(w, o) PROVE HonestInv'
    <2>1. PICK q \in {"ok", "error"} :
          /\ phase[w] = "calling" /\ phase' = [phase EXCEPT ![w] = "resolved"]
          /\ UNCHANGED <<row, held, ask, leases>> /\ Forget(w)
          /\ Resolved(w, q) /\ (q = "ok" => o = "ok" \/ entry[w] = "succeeded")
          /\ exec' = "succeeded" => o = "ok" \/ exec = "succeeded"
          /\ stored' = "ok" => o = "ok" \/ stored = "ok"
      BY <1>24 DEF Answer, At
    <2>2. o = "ok" => remoteOk'
      <3>1. remoteOk' = (remoteOk \/ o = "ok")
        BY <1>24 DEF Answer
      <3> QED BY <3>1, Zenon
    <2>3. LedgerHonest'
      BY <1>1, <1>2, <1>28, <2>1, <2>2 DEF LedgerHonest, HistoryKept
    <2>4. "resolved" \in Phase /\ "resolved" \notin Called /\ "calling" \in Started /\ q \in Outcome
      BY DEF Phase, Called, Started, Outcome
    <2>5. q = "ok" => remoteOk'
      BY <1>1, <2>1, <2>2 DEF HonestInv, WorkersHonest, HistoryKept
    <2> HIDE DEF Resolved, Forget
    <2> QED BY <1>9, <1>18, <1>27, <2>1, <2>3, <2>4, <2>5
  <1>25. ASSUME NEW w \in Worker, AwaitOperator(w) \/ EndGraph(w) \/ CloseRun(w) \/ Crash(w)
         PROVE  HonestInv'
    <2>1. Leave(w) /\ UNCHANGED <<ask, ledgerVars>> /\ (AwaitOperator(w) \/ UNCHANGED row)
      BY <1>25 DEF AwaitOperator, EndGraph, CloseRun, Crash
    <2>2. Witnessed(row)'
      BY <1>1, <2>1, RowIsBacked
    <2> QED BY <1>10, <2>1, <2>2
  <1>26. ASSUME NEW w \in Worker, Finish(w) \/ Raise(w) PROVE HonestInv'
    <2>1. PICK to \in {"graph", "failing"} :
            /\ phase' = [phase EXCEPT ![w] = to] /\ (to = "graph" => phase[w] = "resolved")
            /\ held' = [held EXCEPT ![w] = row'] /\ UNCHANGED <<ask, outcome, ledgerVars, entry>>
      BY <1>26 DEF Finish, Raise, At
    <2>2. Witnessed(row)'
      BY <1>1, <1>26, RowIsBacked
    <2>3. /\ to \in Phase /\ to \notin Called /\ "resolved" \in Started
          /\ to \in Started => to = "graph"
      BY DEF Phase, Called, Started
    <2> QED BY <1>11, <1>18, <2>1, <2>2, <2>3
  <1> QED
    BY <1>5, <1>6, <1>7, <1>8, <1>12, <1>13, <1>15, <1>16, <1>17, <1>19, <1>20, <1>21, <1>22,
       <1>23, <1>24, <1>25, <1>26
    DEF Next, Resume

\* The invariant, for every behaviour.
LEMMA HonestAlways == Spec => [](TypeInv /\ HonestInv)
  BY TypeInit, TypeStep, HonestInit, HonestStep, PTL DEF Spec

\* However decisions, expirations, resumes, retries and recoveries overlap on old
\* objects of the approval, no ledger lease precedes a human's timely approval.
THEOREM LeasesAreApproved == Spec => []CallsAreApproved
  <1>1. HonestInv => CallsAreApproved
    BY DEF HonestInv, LedgerHonest, CallsAreApproved
  <1> QED BY <1>1, HonestAlways, PTL

\* A stored good result was answered by the server or confirmed by an operator.
THEOREM ResultsAreWitnessed == Spec => []CompletedIsWitnessed
  <1>1. HonestInv => CompletedIsWitnessed
    BY DEF HonestInv, ObjectsWitnessed, Witnessed, Backed, CompletedIsWitnessed
  <1> QED BY <1>1, HonestAlways, PTL

\* finish() is reached only after the run was resumed, whatever was lost between.
THEOREM RunsMoveOn == Spec => []CompletedRunMovesOn
  <1>1. HonestInv => CompletedRunMovesOn
    BY DEF HonestInv, ObjectsWitnessed, Witnessed, Backed, CompletedRunMovesOn
  <1> QED BY <1>1, HonestAlways, PTL
-----------------------------------------------------------------------------
(* The approval implements its contract, and its ledger the ledger's.      *)

\* How a step may move the ledger's row, and where the worker is that moves it.
LedgerMove ==
  \/ UNCHANGED <<exec, leases>>
  \/ exec = "absent" /\ exec' = "prepared" /\ UNCHANGED leases
  \/ /\ exec = "executing" /\ exec' \in {"prepared", "unknown"} /\ UNCHANGED leases
     /\ exec' = "prepared" => retrySafe /\ leases < MaxLeases
     /\ \E w \in Worker : phase[w] = "idle"
  \/ /\ exec = "unknown" /\ exec' \in {"succeeded", "failed", "prepared"} /\ UNCHANGED leases
     /\ exec' = "prepared" => retrySafe /\ leases < MaxLeases
  \/ /\ exec' \in {"succeeded", "failed", "unknown"} /\ UNCHANGED leases
     /\ \E w \in Worker : /\ phase[w] \in Called /\ phase'[w] \notin Called
                          /\ entry[w] = "executing"
                          /\ phase[w] = "prepared" => exec' = "unknown"
  \/ \E w \in Worker :
       /\ phase[w] = "prepared" /\ phase'[w] = "calling"
       /\ Leasable(w) /\ leases < MaxLeases /\ leases' = leases + 1
       /\ exec' = IF entry[w] = "prepared" THEN "executing" ELSE exec

\* How a step may move a worker and its object of the row: it may keep both, put the
\* object away, prepare the call, lease it, or take the row that the watchdog reopened.
EntryMove(w) ==
  \/ /\ entry'[w] = entry[w]
     /\ \/ phase'[w] = phase[w]
        \/ phase[w] \notin Called /\ phase'[w] \notin Called \union {"idle"}
  \/ entry'[w] = "absent" /\ phase'[w] \notin Called
  \/ /\ phase[w] = "resolving" /\ phase'[w] = "prepared"
     /\ entry'[w] = IF entry[w] = "absent" THEN exec' ELSE entry[w]
  \/ /\ phase[w] = "prepared" /\ phase'[w] = "calling"
     /\ Leasable(w) /\ leases' = leases + 1
     /\ exec' = IF entry[w] = "prepared" THEN "executing" ELSE exec
     /\ entry'[w] = exec'
  \/ /\ phase[w] = "idle" /\ phase'[w] = "held" /\ retrySafe
     /\ exec' = "prepared" /\ entry'[w] = "prepared"

\* Every step of requests, workers, jobs and operators is such a move.
LEMMA LedgerMoves ==
  ASSUME TypeInv, [Next]_vars
  PROVE  retrySafe' = retrySafe /\ LedgerMove
  <1> USE DEF requestVars, workerVars, ledgerVars, historyVars
  <1>0. phase \in [Worker -> Phase]
    BY DEF TypeInv, TypeOK
  <1>1. ASSUME NEW w \in Worker, Resume(w) PROVE retrySafe' = retrySafe /\ LedgerMove
    <2>1. CASE \/ ClaimHeld(w) \/ StartRun(w) \/ ResolveLocally(w) \/ ReadLedger(w)
               \/ AwaitOperator(w) \/ Finish(w)
      BY <2>1 DEF ClaimHeld, StartRun, ResolveLocally, ReadLedger, AwaitOperator, Finish,
                  LedgerMove
    <2>2. CASE EndGraph(w) \/ Raise(w) \/ CloseRun(w) \/ Crash(w)
      BY <2>2 DEF EndGraph, Raise, CloseRun, Crash, LedgerMove
    <2>3. CASE PrepareCall(w)
      BY <2>3 DEF PrepareCall, LedgerMove
    <2>4. CASE GiveUp(w)
      BY <1>0, <2>4 DEF GiveUp, At, Called, LedgerMove
    <2>5. CASE Lease(w)
      BY <1>0, <2>5 DEF Lease, At, LedgerMove
    <2>6. CASE LoseAnswer(w)
      BY <1>0, <2>6 DEF LoseAnswer, Called, LedgerMove
    <2>7. ASSUME NEW o \in {"ok", "error"}, Answer(w, o)
          PROVE  retrySafe' = retrySafe /\ LedgerMove
      BY <1>0, <2>7 DEF Answer, At, Called, LedgerMove
    <2> QED BY <1>1, <2>1, <2>2, <2>3, <2>4, <2>5, <2>6, <2>7 DEF Resume
  <1>2. ASSUME NEW w \in Worker, Expire(w) \/ RecoverLease(w) \/ RecoveryDies(w)
        PROVE  retrySafe' = retrySafe /\ LedgerMove
    <2>1. CASE Expire(w)
      BY <2>1 DEF Expire, LedgerMove
    <2>2. CASE RecoverLease(w) \/ RecoveryDies(w)
      BY <2>2 DEF RecoverLease, RecoveryDies, Repeatable, LedgerMove
    <2> QED BY <1>2, <2>1, <2>2
  <1>3. ASSUME NEW w \in Worker, NEW version \in jobs, TakeJob(w, version)
        PROVE  retrySafe' = retrySafe /\ LedgerMove
    BY <1>3 DEF TakeJob, LedgerMove
  <1>4. ASSUME NEW r \in Request, NEW d \in Decision, NEW v \in {1, row.version}, Submit(r, d, v)
        PROVE  retrySafe' = retrySafe /\ LedgerMove
    BY <1>4 DEF Submit, LedgerMove
  <1>5. ASSUME NEW r \in Request, Decide(r) \/ RepeatOrRefuse(r)
        PROVE  retrySafe' = retrySafe /\ LedgerMove
    BY <1>5 DEF Decide, RepeatOrRefuse, LedgerMove
  <1>6. ASSUME NEW status \in {"succeeded", "failed", "prepared"}, Reconcile(status)
        PROVE  retrySafe' = retrySafe /\ LedgerMove
    BY <1>6 DEF Reconcile, Repeatable, LedgerMove
  <1>7. CASE RetryResume \/ ResumeExecution \/ BecomeDue \/ ResumeAges \/ UNCHANGED vars
    BY <1>7 DEF RetryResume, ResumeExecution, BecomeDue, ResumeAges, vars, LedgerMove
  <1> QED BY <1>1, <1>2, <1>3, <1>4, <1>5, <1>6, <1>7 DEF Next

LEMMA EntriesMove ==
  ASSUME TypeInv, [Next]_vars
  PROVE  \A w \in Worker : EntryMove(w)
  <1> USE DEF requestVars, workerVars, ledgerVars, historyVars
  <1>1. phase \in [Worker -> Phase] /\ entry \in [Worker -> ExecStatus]
    BY DEF TypeInv, TypeOK
  <1>2. ASSUME UNCHANGED <<phase, entry>> PROVE \A v \in Worker : EntryMove(v)
    BY <1>2 DEF EntryMove
  \* one worker moves
  <1>3. ASSUME NEW w \in Worker, NEW to \in Phase, phase' = [phase EXCEPT ![w] = to],
               UNCHANGED entry \/ \E s \in ExecStatus : entry' = [entry EXCEPT ![w] = s],
               phase'[w] = to => EntryMove(w)
        PROVE  \A v \in Worker : EntryMove(v)
    <2>1. ASSUME NEW v \in Worker, v # w PROVE phase'[v] = phase[v] /\ entry'[v] = entry[v]
      BY <1>1, <1>3, <2>1
    <2>2. phase'[w] = to
      BY <1>1, <1>3
    <2> QED BY <1>3, <2>1, <2>2 DEF EntryMove
  <1>4. ASSUME NEW w \in Worker, NEW to \in Phase \ (Called \union {"idle"}),
               phase[w] \notin Called, phase' = [phase EXCEPT ![w] = to], UNCHANGED entry
        PROVE  \A v \in Worker : EntryMove(v)
    BY <1>3, <1>4 DEF EntryMove
  <1>5. ASSUME NEW w \in Worker, NEW to \in Phase \ Called, phase' = [phase EXCEPT ![w] = to],
               Forget(w)
        PROVE  \A v \in Worker : EntryMove(v)
    <2>1. entry' = [entry EXCEPT ![w] = "absent"] /\ "absent" \in ExecStatus
      BY <1>5 DEF Forget, ExecStatus
    <2>2. entry'[w] = "absent"
      BY <1>1, <2>1
    <2> QED BY <1>3, <1>5, <2>1, <2>2 DEF EntryMove
  <1>6. ASSUME NEW w \in Worker, Leave(w) PROVE \A v \in Worker : EntryMove(v)
    <2>1. phase' = [phase EXCEPT ![w] = "idle"] /\ Forget(w) /\ "idle" \in Phase \ Called
      BY <1>6 DEF Leave, Forget, Phase, Called
    <2> QED BY <1>5, <2>1
  <1>7. ASSUME NEW w \in Worker, NEW a, ClaimOrLeave(w, a), phase[w] \notin Called
        PROVE  \A v \in Worker : EntryMove(v)
    <2>1. Leave(w) \/ (phase' = [phase EXCEPT ![w] = "claimed"] /\ UNCHANGED entry)
      BY <1>7 DEF ClaimOrLeave
    <2> QED BY <1>4, <1>6, <1>7, <2>1 DEF Phase, Called
  <1>8. ASSUME NEW w \in Worker, PrepareCall(w) PROVE \A v \in Worker : EntryMove(v)
    <2>1. exec' \in ExecStatus /\ "prepared" \in Phase
      BY <1>8 DEF PrepareCall, TypeInv, TypeOK, ExecStatus, Phase
    <2>2. /\ phase[w] = "resolving" /\ phase' = [phase EXCEPT ![w] = "prepared"]
          /\ entry' = [entry EXCEPT ![w] = IF entry[w] = "absent" THEN exec' ELSE entry[w]]
      BY <1>8 DEF PrepareCall, At
    <2>3. \E s \in ExecStatus : entry' = [entry EXCEPT ![w] = s]
      BY <1>1, <2>1, <2>2
    <2>4. phase'[w] = "prepared" => EntryMove(w)
      BY <1>1, <2>2 DEF EntryMove
    <2> QED BY <1>3, <2>1, <2>2, <2>3, <2>4
  <1>9. ASSUME NEW w \in Worker, Lease(w) PROVE \A v \in Worker : EntryMove(v)
    <2>1. exec' \in ExecStatus /\ "calling" \in Phase
      BY <1>9 DEF Lease, TypeInv, TypeOK, ExecStatus, Phase
    <2>2. /\ phase[w] = "prepared" /\ phase' = [phase EXCEPT ![w] = "calling"]
          /\ entry' = [entry EXCEPT ![w] = exec']
      BY <1>9 DEF Lease, At
    <2>3. phase'[w] = "calling" => EntryMove(w)
      BY <1>1, <1>9, <2>2 DEF EntryMove, Lease
    <2> QED BY <1>3, <2>1, <2>2, <2>3
  <1>10. ASSUME NEW w \in Worker, Resume(w) PROVE \A v \in Worker : EntryMove(v)
    <2>1. CASE ClaimHeld(w)
      BY <1>7, <2>1 DEF ClaimHeld, Called
    <2>2. CASE AwaitOperator(w) \/ EndGraph(w) \/ CloseRun(w) \/ Crash(w)
      BY <1>6, <2>2 DEF AwaitOperator, EndGraph, CloseRun, Crash
    <2>3. CASE StartRun(w) \/ ResolveLocally(w) \/ Finish(w) \/ Raise(w)
      BY <1>4, <2>3 DEF StartRun, ResolveLocally, Finish, Raise, At, Phase, Called
    <2>4. CASE ReadLedger(w) \/ GiveUp(w) \/ LoseAnswer(w) \/ \E o \in {"ok", "error"} : Answer(w, o)
      <3>1. PICK to \in {"resolved", "unknown"} :
              phase' = [phase EXCEPT ![w] = to] /\ Forget(w)
        BY <2>4 DEF ReadLedger, GiveUp, LoseAnswer, Answer, At
      <3>2. to \in Phase \ Called
        BY DEF Phase, Called
      <3> QED BY <1>5, <3>1, <3>2
    <2> QED BY <1>8, <1>9, <1>10, <2>1, <2>2, <2>3, <2>4 DEF Resume
  <1>11. ASSUME NEW w \in Worker, Expire(w) PROVE \A v \in Worker : EntryMove(v)
    <2>1. /\ UNCHANGED entry /\ phase[w] = "idle"
          /\ UNCHANGED phase \/ phase' = [phase EXCEPT ![w] = "held"]
      BY <1>11 DEF Expire
    <2> QED BY <1>2, <1>4, <2>1 DEF Phase, Called
  <1>12. ASSUME NEW w \in Worker, RecoverLease(w) \/ RecoveryDies(w)
         PROVE  \A v \in Worker : EntryMove(v)
    <2>1. CASE RecoverLease(w) /\ Repeatable
      <3>1. /\ phase[w] = "idle" /\ retrySafe /\ exec' = "prepared"
            /\ phase' = [phase EXCEPT ![w] = "held"]
            /\ entry' = [entry EXCEPT ![w] = "prepared"]
        BY <2>1 DEF RecoverLease, Repeatable
      <3>2. "held" \in Phase /\ "prepared" \in ExecStatus
        BY DEF Phase, ExecStatus
      <3>3. phase'[w] = "held" => EntryMove(w)
        BY <1>1, <3>1 DEF EntryMove
      <3> QED BY <1>3, <3>1, <3>2, <3>3
    <2>2. CASE RecoveryDies(w) \/ (RecoverLease(w) /\ ~Repeatable)
      BY <1>2, <2>2 DEF RecoverLease, RecoveryDies
    <2> QED BY <1>12, <2>1, <2>2
  <1>13. ASSUME NEW w \in Worker, NEW version \in jobs, TakeJob(w, version)
         PROVE  \A v \in Worker : EntryMove(v)
    BY <1>7, <1>13 DEF TakeJob, Called
  <1>14. CASE \/ \E r \in Request, d \in Decision, v \in {1, row.version} : Submit(r, d, v)
              \/ \E r \in Request : Decide(r) \/ RepeatOrRefuse(r)
              \/ \E status \in {"succeeded", "failed", "prepared"} : Reconcile(status)
    BY <1>2, <1>14 DEF Submit, Decide, RepeatOrRefuse, Reconcile
  <1>15. CASE RetryResume \/ ResumeExecution \/ BecomeDue \/ ResumeAges \/ UNCHANGED vars
    BY <1>2, <1>15 DEF RetryResume, ResumeExecution, BecomeDue, ResumeAges, vars
  <1> QED BY <1>10, <1>11, <1>12, <1>13, <1>14, <1>15 DEF Next

\* The leases granted are the calls that may have been issued: none before the row is
\* leased, at least one once it has been, in the table or in a session's object of it.
\* Only a repeatable call is prepared again, by a reopened row or in the job that reopened it.
CallsCounted ==
  /\ exec \notin {"absent", "prepared"} => leases > 0
  /\ exec \in {"absent", "prepared"} /\ leases > 0 => retrySafe
  /\ \A w \in Worker : /\ phase[w] = "calling" => leases > 0
                       /\ entry[w] \notin {"absent", "prepared"} => leases > 0
                       /\ entry[w] = "prepared" /\ phase[w] # "prepared" => retrySafe

\* Nothing is leased at the start.
LEMMA CountedInit == Init => CallsCounted
  BY DEF Init, CallsCounted

\* A lease is counted as it is granted, and a row is reopened only for a repeatable call.
LEMMA CountedStep == TypeInv /\ CallsCounted /\ [Next]_vars => CallsCounted'
  <1> SUFFICES ASSUME TypeInv, CallsCounted, [Next]_vars PROVE CallsCounted'
    OBVIOUS
  <1>1. leases \in Nat /\ exec \in ExecStatus
    BY DEF TypeInv, TypeOK
  <1>2. retrySafe' = retrySafe /\ LedgerMove /\ \A w \in Worker : EntryMove(w)
    BY LedgerMoves, EntriesMove
  <1>3. leases' = leases \/ leases' = leases + 1
    BY <1>2 DEF LedgerMove
  <1>4. exec' \notin {"absent", "prepared"} => leases' > 0
    BY <1>1, <1>2 DEF LedgerMove, CallsCounted, Called
  <1>5. exec' \in {"absent", "prepared"} /\ leases' > 0 => retrySafe'
    BY <1>1, <1>2 DEF LedgerMove, CallsCounted, Leasable
  <1>6. ASSUME NEW w \in Worker
        PROVE  /\ phase'[w] = "calling" => leases' > 0
               /\ entry'[w] \notin {"absent", "prepared"} => leases' > 0
               /\ entry'[w] = "prepared" /\ phase'[w] # "prepared" => retrySafe'
    <2>1. EntryMove(w)
      BY <1>2
    <2> QED BY <1>1, <1>2, <1>3, <1>4, <2>1 DEF EntryMove, CallsCounted, Leasable, Called
  <1> QED BY <1>4, <1>5, <1>6 DEF CallsCounted

\* The invariants that the contract's steps rest on.
LEMMA CountedAlways == Spec => [](TypeInv /\ HonestInv /\ CallsCounted)
  BY HonestAlways, TypeInit, TypeStep, CountedInit, CountedStep, PTL DEF Spec

\* Who is ready to call after one worker has moved.
LEMMA ReadyMoves ==
  ASSUME TypeInv, retrySafe' = retrySafe
  PROVE  /\ UNCHANGED <<phase, entry>> => ReadyToCall' = ReadyToCall
         /\ \A w \in Worker, to \in Phase :
              /\ phase' = [phase EXCEPT ![w] = to]
              /\ \A v \in Worker \ {w} : entry'[v] = entry[v]
              => /\ to # "prepared" => ReadyToCall' = ReadyToCall \ {w}
                 /\ to # "prepared" /\ phase[w] # "prepared" => ReadyToCall' = ReadyToCall
                 /\ to = "prepared" /\ phase[w] # "prepared" /\ ReadyToCall' # ReadyToCall =>
                      /\ ReadyToCall' = ReadyToCall \union {w}
                      /\ retrySafe \/ entry'[w] = "prepared"
  <1>1. UNCHANGED <<phase, entry>> => ReadyToCall' = ReadyToCall
    BY DEF ReadyToCall
  <1>2. ASSUME NEW w \in Worker, NEW to \in Phase, phase' = [phase EXCEPT ![w] = to],
               \A v \in Worker \ {w} : entry'[v] = entry[v]
        PROVE  /\ to # "prepared" => ReadyToCall' = ReadyToCall \ {w}
               /\ to # "prepared" /\ phase[w] # "prepared" => ReadyToCall' = ReadyToCall
               /\ to = "prepared" /\ phase[w] # "prepared" /\ ReadyToCall' # ReadyToCall =>
                    /\ ReadyToCall' = ReadyToCall \union {w}
                    /\ retrySafe \/ entry'[w] = "prepared"
    <2>1. \A v \in Worker : phase'[v] = IF v = w THEN to ELSE phase[v]
      BY <1>2 DEF TypeInv, TypeOK
    <2>2. \A v \in Worker \ {w} : v \in ReadyToCall' <=> v \in ReadyToCall
      BY <1>2, <2>1 DEF ReadyToCall
    <2>3. ReadyToCall \subseteq Worker /\ ReadyToCall' \subseteq Worker
      BY DEF ReadyToCall
    <2>4. /\ w \in ReadyToCall' <=> to = "prepared" /\ (retrySafe \/ entry'[w] = "prepared")
          /\ w \in ReadyToCall => phase[w] = "prepared"
      BY <2>1 DEF ReadyToCall
    <2> HIDE DEF ReadyToCall
    <2> QED BY <2>2, <2>3, <2>4
  <1> QED BY <1>1, <1>2

\* What a step adds to the history, and what it then leaves alone.
LEMMA HistoryMoves ==
  ASSUME TypeInv, HonestInv, CallsCounted, [Next]_vars
  PROVE  \/ UNCHANGED <<humanSaid, due, leases, remoteOk>> /\ ReadyToCall' = ReadyToCall
         \/ /\ UNCHANGED <<humanSaid, due, leases, remoteOk, row>>
            /\ \E w \in Worker : \/ ReadyToCall' = ReadyToCall \ {w}
                                 \/ /\ ReadyToCall' = ReadyToCall \union {w}
                                    /\ leases = 0 \/ retrySafe
         \/ /\ ~due /\ humanSaid' = TRUE /\ ReadyToCall' = ReadyToCall
            /\ UNCHANGED <<due, leases, remoteOk>> /\ row'.result = row.result
         \/ /\ due' = TRUE /\ UNCHANGED <<humanSaid, leases, remoteOk, row>>
            /\ ReadyToCall' = ReadyToCall
         \/ /\ humanSaid /\ leases < MaxLeases /\ leases' = leases + 1
            /\ \E w \in ReadyToCall : ReadyToCall' = ReadyToCall \ {w}
            /\ UNCHANGED <<humanSaid, due, remoteOk, row>>
         \/ /\ exec = "unknown" \/ \E w \in Worker : phase[w] = "calling"
            /\ remoteOk' = TRUE /\ ReadyToCall' = ReadyToCall
            /\ UNCHANGED <<humanSaid, due, leases>> /\ row'.result = row.result
  <1> USE DEF requestVars, workerVars, ledgerVars, historyVars
  <1>0. /\ row \in ApprovalRow /\ humanSaid \in BOOLEAN /\ remoteOk \in BOOLEAN
        /\ retrySafe' = retrySafe /\ LedgerMove /\ phase \in [Worker -> Phase]
        /\ entry \in [Worker -> ExecStatus]
    BY LedgerMoves DEF TypeInv, TypeOK
  \* only a worker's own step changes whether it is ready
  <1>11. UNCHANGED <<phase, entry>> => ReadyToCall' = ReadyToCall
    BY <1>0, ReadyMoves
  <1>12. ASSUME NEW w \in Worker, NEW to \in Phase \ {"prepared"},
                phase' = [phase EXCEPT ![w] = to],
                UNCHANGED entry \/ \E s : entry' = [entry EXCEPT ![w] = s]
         PROVE  /\ ReadyToCall' = ReadyToCall \ {w}
                /\ phase[w] # "prepared" => ReadyToCall' = ReadyToCall
    <2>1. \A v \in Worker \ {w} : entry'[v] = entry[v]
      BY <1>0, <1>12
    <2> QED BY <1>0, <1>12, <2>1, ReadyMoves
  <1>13. ASSUME NEW w \in Worker, Leave(w)
         PROVE  /\ ReadyToCall' = ReadyToCall \ {w}
                /\ phase[w] # "prepared" => ReadyToCall' = ReadyToCall
    BY <1>12, <1>13 DEF Leave, Phase
  <1>14. ASSUME NEW w \in Worker, NEW a, ClaimOrLeave(w, a), phase[w] # "prepared"
         PROVE  ReadyToCall' = ReadyToCall
    <2>1. Leave(w) \/ (phase' = [phase EXCEPT ![w] = "claimed"] /\ UNCHANGED entry)
      BY <1>14 DEF ClaimOrLeave
    <2> QED BY <1>12, <1>13, <1>14, <2>1 DEF Phase
  <1>1. ASSUME NEW w \in Worker,
               \/ ClaimHeld(w) \/ StartRun(w) \/ ResolveLocally(w) \/ LoseAnswer(w)
               \/ AwaitOperator(w) \/ Finish(w) \/ EndGraph(w) \/ Raise(w) \/ CloseRun(w)
        PROVE  UNCHANGED <<humanSaid, due, leases, remoteOk>> /\ ReadyToCall' = ReadyToCall
    <2>1. CASE ClaimHeld(w)
      BY <1>14, <2>1 DEF ClaimHeld
    <2>2. CASE AwaitOperator(w) \/ EndGraph(w) \/ CloseRun(w)
      BY <1>13, <2>2 DEF AwaitOperator, EndGraph, CloseRun
    <2>3. CASE StartRun(w) \/ ResolveLocally(w) \/ Finish(w) \/ Raise(w)
      BY <1>12, <2>3 DEF StartRun, ResolveLocally, Finish, Raise, At, Phase
    <2>4. CASE LoseAnswer(w)
      BY <1>12, <2>4 DEF LoseAnswer, Forget, Phase
    <2> QED BY <1>1, <2>1, <2>2, <2>3, <2>4
  <1>15. ASSUME NEW w \in Worker, ReadLedger(w) \/ GiveUp(w) \/ Crash(w)
         PROVE  /\ UNCHANGED <<humanSaid, due, leases, remoteOk, row>>
                /\ ReadyToCall' = ReadyToCall \ {w}
    <2>1. CASE Crash(w)
      BY <1>13, <2>1 DEF Crash
    <2>2. CASE ReadLedger(w) \/ GiveUp(w)
      BY <1>12, <2>2 DEF ReadLedger, GiveUp, Forget, At, Phase
    <2> QED BY <1>15, <2>1, <2>2
  <1>16. ASSUME NEW w \in Worker, PrepareCall(w)
         PROVE  /\ UNCHANGED <<humanSaid, due, leases, remoteOk, row>>
                /\ \/ ReadyToCall' = ReadyToCall
                   \/ /\ ReadyToCall' = ReadyToCall \union {w}
                      /\ leases = 0 \/ retrySafe
    <2>1. /\ phase[w] = "resolving" /\ phase' = [phase EXCEPT ![w] = "prepared"]
          /\ entry' = [entry EXCEPT ![w] = IF entry[w] = "absent" THEN exec' ELSE entry[w]]
          /\ UNCHANGED <<humanSaid, due, leases, remoteOk, row>>
          /\ exec' = IF exec = "absent" THEN "prepared" ELSE exec
      BY <1>16 DEF PrepareCall, At
    <2>2. \A v \in Worker \ {w} : entry'[v] = entry[v]
      BY <1>0, <2>1
    <2>3. \/ ReadyToCall' = ReadyToCall
          \/ /\ ReadyToCall' = ReadyToCall \union {w}
             /\ retrySafe \/ entry'[w] = "prepared"
      BY <1>0, <2>1, <2>2, ReadyMoves DEF Phase
    <2>4. entry'[w] = "prepared" => leases = 0 \/ retrySafe
      <3>1. entry'[w] = IF entry[w] = "absent" THEN exec' ELSE entry[w]
        BY <1>0, <2>1
      <3>2. leases \in Nat
        BY DEF TypeInv, TypeOK
      <3> QED BY <2>1, <3>1, <3>2 DEF CallsCounted
    <2> QED BY <2>1, <2>3, <2>4
  <1>2. ASSUME NEW w \in Worker, Lease(w)
        PROVE  /\ humanSaid /\ leases < MaxLeases /\ leases' = leases + 1
               /\ w \in ReadyToCall /\ ReadyToCall' = ReadyToCall \ {w}
               /\ UNCHANGED <<humanSaid, due, remoteOk, row>>
    <2>1. phase[w] \in Called
      BY <1>2 DEF Lease, At, Called
    <2>2. ReadyToCall' = ReadyToCall \ {w}
      BY <1>2, <1>12 DEF Lease, At, Phase
    <2>3. w \in ReadyToCall
      BY <1>2 DEF Lease, At, Leasable, ReadyToCall
    <2> QED BY <1>2, <2>1, <2>2, <2>3 DEF Lease, HonestInv, WorkersHonest
  <1>3. ASSUME NEW w \in Worker, NEW o \in {"ok", "error"}, Answer(w, o)
        PROVE  /\ phase[w] = "calling" /\ UNCHANGED <<humanSaid, due, leases, row>>
               /\ remoteOk' = TRUE \/ remoteOk' = remoteOk
               /\ ReadyToCall' = ReadyToCall
    <2>1. ReadyToCall' = ReadyToCall
      BY <1>3, <1>12 DEF Answer, Forget, At, Phase
    <2> QED BY <1>0, <1>3, <2>1 DEF Answer, At
  <1>4. ASSUME NEW r \in Request, Decide(r)
        PROVE  /\ UNCHANGED <<due, leases, remoteOk>> /\ row'.result = row.result
               /\ humanSaid' = humanSaid \/ (~due /\ humanSaid' = TRUE)
               /\ ReadyToCall' = ReadyToCall
    <2>1. ask[r].seen \in ApprovalRow /\ ask[r].decision \in Decision
      BY <1>4, ObjectsHeld DEF Decide
    <2> DEFINE seen == ask[r].seen
               new == Bump([seen EXCEPT !.decision = Taken(ask[r].decision), !.status = "queued"])
    <2>2. Taken(ask[r].decision) \in Decision
      BY <2>1 DEF Taken, Decision
    <2>3. new \in ApprovalRow /\ new.result = seen.result
      BY <2>1, <2>2, Objects
    <2>4. row' = Flush(seen, new) /\ UNCHANGED <<due, leases, remoteOk, phase, entry>>
      BY <1>4 DEF Decide
    <2>5. humanSaid' = (humanSaid \/ (ask[r].decision = "approved" /\ ~due))
      BY <1>4 DEF Decide
    <2>6. humanSaid' = humanSaid \/ (~due /\ humanSaid' = TRUE)
      BY <1>0, <2>5
    <2> HIDE DEF new
    <2>7. row'.result = row.result
      BY <1>0, <2>3, <2>4 DEF Flush, ApprovalRow
    <2> QED BY <1>11, <2>4, <2>6, <2>7
  <1>5. ASSUME NEW s \in {"succeeded", "failed", "prepared"}, Reconcile(s)
        PROVE  /\ exec = "unknown" /\ UNCHANGED <<humanSaid, due, leases>>
               /\ row'.result = row.result /\ (remoteOk' = TRUE \/ remoteOk' = remoteOk)
               /\ ReadyToCall' = ReadyToCall
    <2>1. /\ row' = Requeued(row) /\ exec = "unknown"
          /\ UNCHANGED <<humanSaid, due, leases, phase, entry>>
      BY <1>5 DEF Reconcile
    <2>2. row'.result = row.result
      BY <1>0, <2>1, Objects
    <2>3. remoteOk' = TRUE \/ remoteOk' = remoteOk
      BY <1>0, <1>5 DEF Reconcile
    <2> QED BY <1>11, <2>1, <2>2, <2>3
  <1>6. CASE BecomeDue
    BY <1>6, <1>11 DEF BecomeDue
  <1>7. CASE \/ \E r \in Request, d \in Decision, v \in {1, row.version} : Submit(r, d, v)
             \/ \E r \in Request : RepeatOrRefuse(r)
             \/ RetryResume \/ ResumeExecution \/ ResumeAges \/ UNCHANGED vars
    BY <1>7, <1>11 DEF Submit, RepeatOrRefuse, RetryResume, ResumeExecution, ResumeAges, vars
  <1>8. ASSUME NEW w \in Worker, Expire(w) \/ RecoverLease(w) \/ RecoveryDies(w)
        PROVE  UNCHANGED <<humanSaid, due, leases, remoteOk>> /\ ReadyToCall' = ReadyToCall
    <2>1. UNCHANGED <<humanSaid, due, leases, remoteOk>> /\ phase[w] = "idle"
      BY <1>8 DEF Expire, RecoverLease, RecoveryDies
    <2>2. \/ UNCHANGED <<phase, entry>>
          \/ /\ phase' = [phase EXCEPT ![w] = "held"]
             /\ UNCHANGED entry \/ entry' = [entry EXCEPT ![w] = "prepared"]
      BY <1>8 DEF Expire, RecoverLease, RecoveryDies
    <2> QED BY <1>11, <1>12, <2>1, <2>2 DEF Phase
  <1>9. ASSUME NEW w \in Worker, NEW version \in jobs, TakeJob(w, version)
        PROVE  UNCHANGED <<humanSaid, due, leases, remoteOk>> /\ ReadyToCall' = ReadyToCall
    BY <1>9, <1>14 DEF TakeJob
  <1>10. ASSUME NEW w \in Worker, Resume(w)
         PROVE  \/ UNCHANGED <<humanSaid, due, leases, remoteOk>> /\ ReadyToCall' = ReadyToCall
                \/ ReadLedger(w) \/ GiveUp(w) \/ Crash(w) \/ PrepareCall(w)
                \/ Lease(w) \/ \E o \in {"ok", "error"} : Answer(w, o)
    BY <1>1, <1>10 DEF Resume
  <1>17. ASSUME NEW w \in Worker, ReadLedger(w) \/ GiveUp(w) \/ Crash(w) \/ PrepareCall(w)
         PROVE  \/ UNCHANGED <<humanSaid, due, leases, remoteOk>> /\ ReadyToCall' = ReadyToCall
                \/ /\ UNCHANGED <<humanSaid, due, leases, remoteOk, row>>
                   /\ \E v \in Worker : \/ ReadyToCall' = ReadyToCall \ {v}
                                        \/ /\ ReadyToCall' = ReadyToCall \union {v}
                                           /\ leases = 0 \/ retrySafe
    BY <1>15, <1>16, <1>17
  <1>18. ASSUME NEW w \in Worker, Answer(w, "ok") \/ Answer(w, "error")
         PROVE  \/ UNCHANGED <<humanSaid, due, leases, remoteOk>> /\ ReadyToCall' = ReadyToCall
                \/ /\ \E v \in Worker : phase[v] = "calling"
                   /\ remoteOk' = TRUE /\ ReadyToCall' = ReadyToCall
                   /\ UNCHANGED <<humanSaid, due, leases>> /\ row'.result = row.result
    BY <1>3, <1>18
  <1> HIDE DEF ReadyToCall
  <1> QED
    BY <1>2, <1>4, <1>5, <1>6, <1>7, <1>8, <1>9, <1>10, <1>17, <1>18 DEF Next

\* A pending approval starts the contract.
LEMMA ConsentInit == Init => Consent!Init
  BY DEF Init, Consent!Init, ReadyToCall

\* Each step is one step of the contract, or none.
LEMMA ConsentStep ==
  ASSUME TypeInv, HonestInv, CallsCounted, HonestInv', TypeInv', [Next]_vars
  PROVE  [Consent!Next]_(Consent!consentVars)
  <1> DEFINE reported == row.result = "ok"
  <1>1. /\ leases \in Nat /\ retrySafe' = retrySafe
        /\ remoteOk \in BOOLEAN /\ due \in BOOLEAN /\ humanSaid \in BOOLEAN
        /\ reported \in BOOLEAN /\ reported' \in BOOLEAN
        /\ ReadyToCall \subseteq Worker
    BY LedgerMoves DEF TypeInv, TypeOK, ReadyToCall
  <1> HIDE DEF ReadyToCall
  <1>2. CASE UNCHANGED <<humanSaid, due, leases, remoteOk>> /\ ReadyToCall' = ReadyToCall
    <2>1. row'.result = "ok" => remoteOk
      BY <1>2 DEF HonestInv, ObjectsWitnessed, Witnessed, Backed
    <2>2. (row.result = "ok")' \in {FALSE, remoteOk}
      BY <1>1, <2>1
    <2>3. Consent!Report
      BY <1>1, <1>2, <2>2 DEF Consent!Report
    <2> QED BY <2>3 DEF Consent!Next
  <1>3. CASE /\ UNCHANGED <<humanSaid, due, leases, remoteOk, row>>
             /\ \E w \in Worker : \/ ReadyToCall' = ReadyToCall \ {w}
                                  \/ /\ ReadyToCall' = ReadyToCall \union {w}
                                     /\ leases = 0 \/ retrySafe
    <2>1. PICK w \in Worker : \/ ReadyToCall' = ReadyToCall \ {w}
                              \/ /\ ReadyToCall' = ReadyToCall \union {w}
                                 /\ leases = 0 \/ retrySafe
      BY <1>3
    <2>2. Consent!Prepare(w) \/ Consent!Withdraw(w)
      BY <1>1, <1>3, <2>1 DEF Consent!Prepare, Consent!Withdraw
    <2> QED BY <2>2 DEF Consent!Next
  <1>4. CASE /\ ~due /\ humanSaid' = TRUE /\ ReadyToCall' = ReadyToCall
             /\ UNCHANGED <<due, leases, remoteOk>> /\ row'.result = row.result
    BY <1>1, <1>4 DEF Consent!Approve, Consent!Next
  <1>5. CASE /\ due' = TRUE /\ UNCHANGED <<humanSaid, leases, remoteOk, row>>
             /\ ReadyToCall' = ReadyToCall
    BY <1>1, <1>5 DEF Consent!Expire, Consent!Next
  <1>6. CASE /\ humanSaid /\ leases < MaxLeases /\ leases' = leases + 1
             /\ \E w \in ReadyToCall : ReadyToCall' = ReadyToCall \ {w}
             /\ UNCHANGED <<humanSaid, due, remoteOk, row>>
    <2>1. PICK w \in ReadyToCall : ReadyToCall' = ReadyToCall \ {w}
      BY <1>6
    <2>2. Consent!Call(w)
      BY <1>1, <1>6, <2>1 DEF Consent!Call
    <2> QED BY <1>1, <2>2 DEF Consent!Next
  <1>7. CASE /\ exec = "unknown" \/ \E w \in Worker : phase[w] = "calling"
             /\ remoteOk' = TRUE /\ ReadyToCall' = ReadyToCall
             /\ UNCHANGED <<humanSaid, due, leases>> /\ row'.result = row.result
    <2>1. leases > 0
      BY <1>7 DEF CallsCounted
    <2> QED BY <1>1, <1>7, <2>1 DEF Consent!Answer, Consent!Next
  <1> QED BY <1>2, <1>3, <1>4, <1>5, <1>6, <1>7, HistoryMoves

\* Whatever overlaps and however old the objects are, no step leaves the order of consent,
\* call, answer and report.  A call that may not be repeated leaves, once it has left, only
\* from workers that prepared it before that, and once from each of them: claim tests the
\* object of the ledger row that prepare loaded (decide, _resolve_approval, prepare, claim,
\* finish, reconcile).
THEOREM ApprovalImplementsConsent == Spec => ImplementsConsent
  <1>1. TypeInv /\ HonestInv /\ CallsCounted /\ (TypeInv /\ HonestInv)' /\ [Next]_vars
          => [Consent!Next]_(Consent!consentVars)
    BY ConsentStep
  <1> QED
    BY <1>1, CountedAlways, ConsentInit, PTL DEF Spec, ImplementsConsent, Consent!Spec

\* The ledger as the approval sees it, a status and a count of leases, against the
\* contract that MCPExecution implements.
Ledger == INSTANCE ExecutionContract WITH
  MaxAttempts <- MaxLeases, status <- exec, attempts <- leases

OneWorker == \A v, w \in Worker : v = w

\* With one worker the object that its session has of the row is the row, until the call
\* returns; a row that an operator settles meanwhile was given up before.
ObjectIsCurrent ==
  OneWorker => \A w \in Worker :
    /\ entry[w] \notin {"absent", "unknown"} => exec = entry[w]
    /\ phase[w] = "calling" => entry[w] = "executing"
    /\ phase[w] = "idle" => entry[w] = "absent"

\* Whoever could change the row is the worker that has the object.
LEMMA CurrentStep == TypeInv /\ ObjectIsCurrent /\ [Next]_vars => ObjectIsCurrent'
  <1> SUFFICES ASSUME TypeInv, ObjectIsCurrent, [Next]_vars, OneWorker, NEW w \in Worker
               PROVE  /\ entry'[w] \notin {"absent", "unknown"} => exec' = entry'[w]
                      /\ phase'[w] = "calling" => entry'[w] = "executing"
                      /\ phase'[w] = "idle" => entry'[w] = "absent"
    BY DEF ObjectIsCurrent, OneWorker
  <1>1. LedgerMove /\ EntryMove(w)
    BY LedgerMoves, EntriesMove
  <1>2. \A v \in Worker : v = w
    BY DEF OneWorker
  <1>3. /\ entry[w] \notin {"absent", "unknown"} => exec = entry[w]
        /\ phase[w] = "calling" => entry[w] = "executing"
        /\ phase[w] = "idle" => entry[w] = "absent"
    BY DEF ObjectIsCurrent
  <1>4. ASSUME entry[w] \notin {"absent", "unknown"},
               phase'[w] = phase[w] \/ (phase[w] \notin Called /\ phase'[w] # "calling")
        PROVE  exec' = exec
    BY <1>1, <1>2, <1>3, <1>4 DEF LedgerMove, Called
  <1>5. CASE /\ entry'[w] = entry[w]
             /\ \/ phase'[w] = phase[w]
                \/ phase[w] \notin Called /\ phase'[w] \notin Called \union {"idle"}
    BY <1>3, <1>4, <1>5 DEF Called
  <1>6. CASE entry'[w] = "absent" /\ phase'[w] \notin Called
    BY <1>6 DEF Called
  <1>7. CASE /\ phase[w] = "resolving" /\ phase'[w] = "prepared"
             /\ entry'[w] = IF entry[w] = "absent" THEN exec' ELSE entry[w]
    BY <1>3, <1>4, <1>7 DEF Called
  <1>8. CASE /\ phase[w] = "prepared" /\ phase'[w] = "calling"
             /\ Leasable(w) /\ leases' = leases + 1
             /\ exec' = IF entry[w] = "prepared" THEN "executing" ELSE exec
             /\ entry'[w] = exec'
    BY <1>3, <1>8 DEF Leasable
  <1>9. CASE /\ phase[w] = "idle" /\ phase'[w] = "held" /\ retrySafe
             /\ exec' = "prepared" /\ entry'[w] = "prepared"
    BY <1>9
  <1> QED BY <1>1, <1>5, <1>6, <1>7, <1>8, <1>9 DEF EntryMove

\* One worker, whatever crashes, expires or is reconciled, takes the row of the call only
\* the ways of the documented status machine: the reduction to a status is faithful to it
\* where the jobs on a call do not overlap (claim, complete, mark_unknown, recover_stale).
THEOREM ReducedLedgerKeepsContract == Spec /\ OneWorker => Ledger!Spec
  <1>1. Init => Ledger!Init /\ ObjectIsCurrent
    BY DEF Init, Ledger!Init, ObjectIsCurrent
  <1>2. ASSUME TypeInv, ObjectIsCurrent, OneWorker, [Next]_vars
        PROVE  [Ledger!Next]_(Ledger!contractVars)
    <2> USE DEF Ledger!Next, Ledger!contractVars, Ledger!Move, Ledger!Attempt, Ledger!Settled
    <2>1. LedgerMove /\ retrySafe' = retrySafe
      BY <1>2, LedgerMoves
    <2>2. CASE exec = "absent" /\ exec' = "prepared" /\ UNCHANGED leases
      BY <2>1, <2>2 DEF Ledger!Record
    <2>3. CASE /\ exec = "executing" /\ exec' \in {"prepared", "unknown"} /\ UNCHANGED leases
               /\ exec' = "prepared" => retrySafe /\ leases < MaxLeases
      BY <2>1, <2>3 DEF Ledger!LoseTrack, Ledger!Reopen
    <2>4. CASE /\ exec = "unknown" /\ exec' \in {"succeeded", "failed", "prepared"}
               /\ UNCHANGED leases
               /\ exec' = "prepared" => retrySafe /\ leases < MaxLeases
      BY <2>1, <2>4 DEF Ledger!Reconcile, Ledger!Reopen
    <2>5. CASE /\ exec' \in {"succeeded", "failed", "unknown"} /\ UNCHANGED leases
               /\ \E w \in Worker : /\ phase[w] \in Called /\ phase'[w] \notin Called
                                    /\ entry[w] = "executing"
                                    /\ phase[w] = "prepared" => exec' = "unknown"
      <3>1. exec = "executing"
        BY <1>2, <2>5 DEF ObjectIsCurrent
      <3> QED BY <2>1, <2>5, <3>1 DEF Ledger!Answer, Ledger!LoseTrack
    <2>6. ASSUME NEW w \in Worker, phase[w] = "prepared", Leasable(w), leases < MaxLeases,
                 leases' = leases + 1, exec' = IF entry[w] = "prepared" THEN "executing" ELSE exec
          PROVE  [Ledger!Next]_(Ledger!contractVars)
      <3>1. exec = entry[w]
        BY <1>2, <2>6 DEF ObjectIsCurrent, Leasable
      <3> QED BY <2>1, <2>6, <3>1 DEF Leasable, Ledger!Start, Ledger!Restart
    <2>7. CASE UNCHANGED <<exec, leases>>
      BY <2>1, <2>7
    <2> QED BY <2>1, <2>2, <2>3, <2>4, <2>5, <2>6, <2>7 DEF LedgerMove
  <1>3. OneWorker /\ [Next]_vars => OneWorker'
    BY DEF OneWorker
  <1> QED
    BY <1>1, <1>2, <1>3, CurrentStep, TypeInit, TypeStep, PTL DEF Spec, Ledger!Spec
=============================================================================
