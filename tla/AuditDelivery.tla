---------------------------- MODULE AuditDelivery ----------------------------
(***************************************************************************)
(* The outbox of security audit events: core/audit.py writes an intent     *)
(* before the handler of a request runs and a completion after it; the     *)
(* rows of services/security_audit_delivery_service.py carry each event to *)
(* every sink under a lease; workers/jobs.py repeats the delivery job.     *)
(* Export is on and fail-closed, as staging and production require.        *)
(***************************************************************************)
EXTENDS Naturals, FiniteSets

CONSTANTS
  Request,        \* requests to audited paths
  Sink,           \* settings.security_audit_sink_set
  Deliverer,      \* worker processes and API threads that deliver batches
  Nobody,         \* lease_token of a row without a lease
  MaxTries,       \* security_audit_delivery_max_attempts
  MaxFaults       \* bound: what dies, fails, or is started or requeued by hand

ASSUME AuditAssumption ==
  MaxTries \in Nat \ {0} /\ MaxFaults \in Nat /\ Nobody \notin Deliverer

VARIABLES
  served,         \* how far the middleware is with each request
  outbox,         \* security_audit_deliveries, one row per event and sink
  received,       \* the rows that reached their sink
  delivery,       \* what each deliverer is doing
  scheduled,      \* whether a recurring delivery job is in the queue
  faults          \* how often the regular course was disturbed

auditVars == <<served, outbox, received, delivery, scheduled, faults>>

Event == Request \X {"intent", "completion"}
Key == Event \X Sink

Stage == {"new", "admitted", "handled", "audited", "refused", "unaudited"}
RowStatus == {"absent", "pending", "delivering", "retry", "delivered", "dead_letter", "purged"}
OutboxRow == [status: RowStatus, tries: 0..MaxTries, holder: Deliverer \union {Nobody},
              elapsed: BOOLEAN]
NoDelivery == [job |-> "none", batch |-> {}, begun |-> FALSE, object |-> {}, tries |-> 0,
               outcome |-> "none"]

\* Attempts above the maximum are not told apart. A token is its claimer: nobody
\* claims a row again while he still has it in a batch.
AuditTypeOK ==
  /\ served \in [Request -> Stage]
  /\ outbox \in [Key -> OutboxRow]
  /\ received \subseteq Key
  /\ delivery \in [Deliverer -> [job: {"none", "recurring", "manual"}, batch: SUBSET Key,
                                 begun: BOOLEAN, object: SUBSET Key, tries: 0..MaxTries,
                                 outcome: {"none", "ok", "error"}]]
  /\ scheduled \in BOOLEAN
  /\ faults \in 0..MaxFaults

Missing == [status |-> "absent", tries |-> 0, holder |-> Nobody, elapsed |-> FALSE]
Pending == [Missing EXCEPT !.status = "pending"]

AuditInit ==
  /\ served = [r \in Request |-> "new"]
  /\ outbox = [k \in Key |-> Missing]
  /\ received = {}
  /\ delivery = [d \in Deliverer |-> NoDelivery]
  /\ scheduled = TRUE
  /\ faults = 0

Disturb == faults < MaxFaults /\ faults' = faults + 1

-----------------------------------------------------------------------------
(* The middleware.                                                         *)

\* One transaction for all sinks. A second record of the same event meets the unique
\* constraint, rolls back and counts the rows that are there.
Enqueue(e) ==
  outbox' = [k \in Key |-> IF k[1] = e /\ outbox[k].status \in {"absent", "purged"}
                           THEN Pending ELSE outbox[k]]

WriteIntent(r) ==
  /\ served[r] = "new"
  /\ \/ Enqueue(<<r, "intent">>) /\ served' = [served EXCEPT ![r] = "admitted"]
     \/ served' = [served EXCEPT ![r] = "refused"] /\ UNCHANGED outbox
  /\ UNCHANGED <<received, delivery, scheduled, faults>>

Handle(r) ==
  /\ served[r] = "admitted"
  /\ served' = [served EXCEPT ![r] = "handled"]
  /\ UNCHANGED <<outbox, received, delivery, scheduled, faults>>

WriteCompletion(r) ==
  /\ served[r] = "handled"
  /\ \/ Enqueue(<<r, "completion">>) /\ served' = [served EXCEPT ![r] = "audited"]
     \/ served' = [served EXCEPT ![r] = "unaudited"] /\ UNCHANGED outbox
  /\ UNCHANGED <<received, delivery, scheduled, faults>>

-----------------------------------------------------------------------------
(* The delivery of a batch.                                                *)

\* Faulty variant: a delivery that died with its worker is never taken up.
ClaimableUnlessTaken(k) ==
  outbox[k].status = "pending" \/ (outbox[k].status = "retry" /\ outbox[k].elapsed)

Claimable(k) ==
  \/ outbox[k].status = "pending"
  \/ outbox[k].status \in {"retry", "delivering"} /\ outbox[k].elapsed

AtMost(n) == IF n > MaxTries THEN MaxTries ELSE n

\* _claim_batch takes every claimable row (the batch size exceeds the rows here).
Begin(d, job) ==
  LET batch == {k \in Key : Claimable(k)} IN
  /\ delivery[d].job = "none"
  /\ outbox' = [k \in Key |-> IF k \in batch
                              THEN [status |-> "delivering", tries |-> AtMost(outbox[k].tries + 1),
                                    holder |-> d, elapsed |-> FALSE]
                              ELSE outbox[k]]
  /\ delivery' = [delivery EXCEPT ![d] = [NoDelivery EXCEPT !.job = job, !.batch = batch]]
  /\ UNCHANGED <<served, received>>

DeliverJob(d) ==
  scheduled /\ scheduled' = FALSE /\ Begin(d, "recurring") /\ UNCHANGED faults
DeliverNow(d) == Begin(d, "manual") /\ Disturb /\ UNCHANGED scheduled

\* Batches are ordered by created_at: the intent of a request comes before its completion.
Older(k, other) == k[1] = <<other[1][1], "intent">> /\ other[1][2] = "completion"

\* deliver_batch reads the next row again and skips it if its token has changed.
TakeNext(d, k) ==
  /\ k \in delivery[d].batch /\ delivery[d].object = {}
  /\ ~\E other \in delivery[d].batch : Older(other, k)
  /\ delivery' = [delivery EXCEPT
       ![d].batch = @ \ {k}, ![d].begun = TRUE,
       ![d].object = IF outbox[k].holder = d THEN {k} ELSE {},
       ![d].tries = IF outbox[k].holder = d THEN outbox[k].tries ELSE 0]
  /\ UNCHANGED <<served, outbox, received, scheduled, faults>>

\* _deliver: the sink takes the event and says so, takes it unheard, or does not take it.
Transmit(d, taken, outcome) ==
  /\ delivery[d].object # {} /\ delivery[d].outcome = "none"
  /\ outcome = "ok" => taken
  /\ received' = IF taken THEN received \union delivery[d].object ELSE received
  /\ delivery' = [delivery EXCEPT ![d].outcome = outcome]
  /\ UNCHANGED <<served, outbox, scheduled, faults>>

\* Faulty variant: the last attempt is counted as if another one were to come.
OutcomeStatusNeverDead(outcome, tries) == IF outcome = "ok" THEN "delivered" ELSE "retry"

OutcomeStatus(outcome, tries) ==
  IF outcome = "ok" THEN "delivered"
  ELSE IF tries >= MaxTries THEN "dead_letter" ELSE "retry"

\* The outcome is written whoever holds the row by now: no token is compared again.
\* attempt_count is not written, so it stays what the last claim made it.
Settle(d) ==
  /\ delivery[d].outcome # "none"
  /\ outbox' = [k \in Key |->
       IF k \in delivery[d].object
       THEN [outbox[k] EXCEPT !.status = OutcomeStatus(delivery[d].outcome, delivery[d].tries),
                              !.holder = Nobody, !.elapsed = FALSE]
       ELSE outbox[k]]
  /\ delivery' = [delivery EXCEPT ![d].object = {}, ![d].tries = 0, ![d].outcome = "none"]
  /\ UNCHANGED <<served, received, scheduled, faults>>

InHand == UNION {delivery[d].batch \union delivery[d].object : d \in Deliverer}

\* Faulty variant: the retention deletes whatever will not be tried again.
PurgeableSettled == {k \in Key \ InHand : outbox[k].status \in {"delivered", "dead_letter"}}

\* The retention of at least 30 days outlasts every batch.
Purgeable == {k \in Key \ InHand : outbox[k].status = "delivered"}

\* A recurring job purges, then enqueues its successor, unless the queue is out of reach.
Reschedule(d) == \/ delivery[d].job = "recurring" /\ scheduled' = TRUE
                 \/ delivery[d].job = "manual" /\ UNCHANGED scheduled

Finish(d) ==
  /\ delivery[d].job # "none" /\ delivery[d].batch = {} /\ delivery[d].object = {}
  /\ delivery' = [delivery EXCEPT ![d] = NoDelivery]
  /\ \E old \in (IF delivery[d].job = "recurring" THEN SUBSET Purgeable ELSE {{}}) :
       outbox' = [k \in Key |-> IF k \in old THEN [Missing EXCEPT !.status = "purged"]
                                ELSE outbox[k]]
  /\ Reschedule(d)
  /\ UNCHANGED <<served, received, faults>>

\* A database error ends the batch; the job still schedules its successor.
Abandon(d) ==
  /\ delivery[d].job # "none"
  /\ Disturb
  /\ delivery' = [delivery EXCEPT ![d] = NoDelivery]
  /\ Reschedule(d)
  /\ UNCHANGED <<served, outbox, received>>

\* The process is killed, or the successor could not be enqueued: the chain ends here.
Die(d) ==
  /\ delivery[d].job # "none"
  /\ Disturb
  /\ delivery' = [delivery EXCEPT ![d] = NoDelivery]
  /\ UNCHANGED <<served, outbox, received, scheduled>>

\* The batch was just claimed: its leases, of at least ten seconds, have begun.
Fresh(k) == \E d \in Deliverer : k \in delivery[d].batch /\ ~delivery[d].begun

\* lease_expires_at of a delivering row, or next_attempt_at of a retry, passes.
DeadlinePasses(k) ==
  /\ outbox[k].status \in {"delivering", "retry"} /\ ~outbox[k].elapsed
  /\ ~Fresh(k)
  /\ outbox' = [outbox EXCEPT ![k].elapsed = TRUE]
  /\ UNCHANGED <<served, received, delivery, scheduled, faults>>

Requeue ==
  /\ \E k \in Key : outbox[k].status = "dead_letter"
  /\ Disturb
  /\ outbox' = [k \in Key |-> IF outbox[k].status = "dead_letter" THEN Pending ELSE outbox[k]]
  /\ UNCHANGED <<served, received, delivery, scheduled>>

\* The backend starts and restores the schedule.
Startup ==
  ~scheduled /\ scheduled' = TRUE /\ UNCHANGED <<served, outbox, received, delivery, faults>>

Deliver(d) ==
  \/ \E k \in Key : TakeNext(d, k)
  \/ \E taken \in BOOLEAN, outcome \in {"ok", "error"} : Transmit(d, taken, outcome)
  \/ Settle(d)
  \/ Finish(d)

AuditNext ==
  \/ \E r \in Request : WriteIntent(r) \/ Handle(r) \/ WriteCompletion(r)
  \/ \E d \in Deliverer : DeliverJob(d) \/ DeliverNow(d) \/ Deliver(d) \/ Abandon(d) \/ Die(d)
  \/ \E k \in Key : DeadlinePasses(k)
  \/ Requeue
  \/ Startup

\* A started batch goes on unless its process dies or the database fails; a queued job
\* is started by whichever deliverer is free; deadlines pass by themselves.
AuditFairness ==
  /\ \A d \in Deliverer : WF_auditVars(Deliver(d)) /\ SF_auditVars(DeliverJob(d))
  /\ \A k \in Key : WF_auditVars(DeadlinePasses(k))

AuditSpec == AuditInit /\ [][AuditNext]_auditVars /\ AuditFairness

-----------------------------------------------------------------------------
(* Properties.                                                             *)

Open(k) == outbox[k].status \in {"pending", "delivering", "retry"}
NoSchedule == ~scheduled /\ \A d \in Deliverer : delivery[d].job # "recurring"

\* docs/staging-qualification-kms-siem.md:47 and 62. A handler runs only after the intent
\* of its request is in the outbox, and whatever retries, late outcomes of lapsed leases,
\* dead letters and the retention then do to the row, it stays until its sink has the event.
NothingIsLost ==
  \A k \in Key :
    LET r == k[1][1] IN
    \/ k[1][2] = "intent" /\ served[r] \in {"handled", "audited", "unaudited"}
    \/ k[1][2] = "completion" /\ served[r] = "audited"
    => Open(k) \/ outbox[k].status = "dead_letter" \/ k \in received

\* Every row in the outbox is delivered or becomes a dead letter (claim, lease, backoff
\* and the attempts' bound of deliver_batch), as long as the chain of jobs is not broken.
EveryRowSettles == \A k \in Key : Open(k) ~> (~Open(k) \/ NoSchedule)
=============================================================================
