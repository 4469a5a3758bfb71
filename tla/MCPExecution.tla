---------------------------- MODULE MCPExecution ----------------------------
(***************************************************************************)
(* The durable execution ledger of dynamic MCP tool calls                   *)
(* (services/mcp_execution_service.py): one ledger row, that is one         *)
(* idempotency key, and the database sessions of the jobs that work on it.  *)
(*                                                                          *)
(* A session reads a row into its identity map and keeps using that object: *)
(* the sessions are created with expire_on_commit=False and no query asks   *)
(* for populate_existing, so SELECT ... FOR UPDATE on a row the session     *)
(* already holds takes the lock and returns the attributes loaded earlier.  *)
(* A flush then updates exactly the columns whose value differs from the    *)
(* loaded one.  cache[s] is that object; every guard of the service reads   *)
(* cache[s], every write goes through Flush.                                *)
(***************************************************************************)
EXTENDS Naturals, FiniteSets

CONSTANTS
  Session,      \* database sessions of workers; a slot is reused by later jobs
  Operator,     \* administrators with the reconciliation page open
  NoRow,        \* "not in the database" / "not in the identity map"
  MaxAttempts,  \* settings.mcp_execution_max_attempts
  MaxClaims,    \* bound on the claims of one behaviour (each makes one token)
  MaxVersion    \* bound on the version the deduplication path may reach

VARIABLES
  db,         \* the committed row
  retrySafe,  \* column retry_safe: idempotency_mode = "metadata", set once
  cache,      \* the row object in each session's identity map
  pc,         \* where each session is in execute_once
  lease,      \* the lease token each session got from claim (0: none)
  live,       \* tokens whose lease_expires_at lies in the future
  claims,     \* tokens handed out so far (uuid4 is modelled by a counter)
  watch,      \* tokens with a scheduled watchdog job
  seen,       \* the row each operator last looked at
  early,      \* history: sessions that loaded the row before its first claim
  reissued,   \* history: a session that loaded the row later made a call
  witnessed,  \* history: the remote answered ok, or an operator confirmed it
  handed      \* history: results that execute_once gave to an agent

ledgerVars == <<db, retrySafe>>
sessionVars == <<cache, pc, lease, early>>
historyVars == <<reissued, witnessed, handed>>
vars == <<db, retrySafe, cache, pc, lease, live, claims, watch, seen, early,
          reissued, witnessed, handed>>

Terminal == {"succeeded", "failed"}
Status == {"prepared", "executing", "unknown"} \union Terminal
Result == {"none", "ok", "error"}
Row == [status : Status, token : Nat, attempts : Nat, version : Nat,
        result : Result]
Phase == {"idle", "loaded", "claimed", "ready", "inflight", "denied"}

ASSUME LedgerAssumption ==
  /\ MaxAttempts \in Nat \ {0}
  /\ MaxClaims \in Nat
  /\ MaxVersion \in Nat
  /\ NoRow \notin Row

-----------------------------------------------------------------------------
(* Row arithmetic *)

\* What a commit leaves in the table when the session's object went from
\* `loaded' to `new': only the attributes that changed are in the UPDATE.
Flush(loaded, new) ==
  [c \in DOMAIN db |-> IF new[c] = loaded[c] THEN db[c] ELSE new[c]]

\* `now < lease_expires_at' is false for an expired lease and for no lease.
Expired(row) == row.token \notin live

\* Faulty variants, against which the properties below are tested.
RetryableNoBudget(row) == retrySafe
RetryableUnsafe(row) == row.attempts < MaxAttempts

Retryable(row) == retrySafe /\ row.attempts < MaxAttempts

RecoveredKeepsLease(row) ==
  [row EXCEPT !.version = @ + 1,
              !.status = IF Retryable(row) THEN "prepared" ELSE "unknown"]
Recovered(row) ==
  [row EXCEPT !.token = 0, !.version = @ + 1,
              !.status = IF Retryable(row) THEN "prepared" ELSE "unknown"]

Claimed(row, token) ==
  [row EXCEPT !.status = "executing", !.token = token,
              !.attempts = @ + 1, !.version = @ + 1]

SettledInverted(row, status, result) ==
  [row EXCEPT !.status = IF status = "failed" THEN "succeeded" ELSE "failed",
              !.result = result, !.token = 0, !.version = @ + 1]
Settled(row, status, result) ==
  [row EXCEPT !.status = status, !.result = result, !.token = 0,
              !.version = @ + 1]

Unknown(row) == [row EXCEPT !.status = "unknown", !.token = 0, !.version = @ + 1]

-----------------------------------------------------------------------------
Init ==
  /\ db = NoRow
  /\ retrySafe \in BOOLEAN
  /\ cache = [s \in Session |-> NoRow]
  /\ pc = [s \in Session |-> "idle"]
  /\ lease = [s \in Session |-> 0]
  /\ live = {}
  /\ claims = 0
  /\ watch = {}
  /\ seen = [o \in Operator |-> NoRow]
  /\ early = {}
  /\ reissued = FALSE
  /\ witnessed = FALSE
  /\ handed = {}

\* The session of s is closed, or the frame that held the row returned.
Leave(s) ==
  /\ pc' = [pc EXCEPT ![s] = "idle"]
  /\ cache' = [cache EXCEPT ![s] = NoRow]
  /\ lease' = [lease EXCEPT ![s] = 0]
  /\ early' = early \ {s}

Hold(s, row, phase) ==
  /\ cache' = [cache EXCEPT ![s] = row]
  /\ pc' = [pc EXCEPT ![s] = phase]

-----------------------------------------------------------------------------
(* prepare: read or insert the row.  Losing the race on the unique key ends *)
(* in reading the winner's row.                                             *)
NewRow == [status |-> "prepared", token |-> 0, attempts |-> 0, version |-> 1,
           result |-> "none"]

Prepare(s) ==
  /\ pc[s] = "idle"
  /\ db' = IF db = NoRow THEN NewRow ELSE db
  /\ Hold(s, db', "loaded")
  /\ early' = IF claims = 0 THEN early \union {s} ELSE early \ {s}
  /\ UNCHANGED <<retrySafe, lease, live, claims, watch, seen, historyVars>>

(* claim: every test is on the object the session holds. *)
ReturnCached(s) ==
  /\ pc[s] = "loaded"
  /\ cache[s].status \in Terminal
  /\ cache[s].version < MaxVersion
  /\ db' = Flush(cache[s], [cache[s] EXCEPT !.version = @ + 1])
  /\ handed' = handed \union {db'.result}
  /\ Leave(s)
  /\ UNCHANGED <<retrySafe, live, claims, watch, seen, reissued, witnessed>>

RefuseClaim(s) ==
  /\ pc[s] = "loaded"
  /\ \/ cache[s].status = "unknown"
     \/ cache[s].status = "executing" /\ ~Expired(cache[s])
  /\ Leave(s)
  /\ UNCHANGED <<ledgerVars, live, claims, watch, seen, historyVars>>

GiveUpExpired(s) ==
  /\ pc[s] = "loaded"
  /\ cache[s].status = "executing" /\ Expired(cache[s])
  /\ ~Retryable(cache[s])
  /\ db' = Flush(cache[s], Recovered(cache[s]))
  /\ Leave(s)
  /\ UNCHANGED <<retrySafe, live, claims, watch, seen, historyVars>>

ClaimableFailed(row) == row.status \in {"prepared", "failed"}
Claimable(row) ==
  \/ row.status = "prepared"
  \/ row.status = "executing" /\ Expired(row) /\ Retryable(row)

Claim(s) ==
  LET from == IF cache[s].status = "prepared" THEN cache[s]
                                              ELSE Recovered(cache[s])
      new  == Claimed(from, claims + 1)
  IN /\ pc[s] = "loaded"
     /\ Claimable(cache[s])
     /\ claims < MaxClaims
     /\ claims' = claims + 1
     /\ db' = Flush(cache[s], new)
     /\ Hold(s, new, "claimed")
     /\ lease' = [lease EXCEPT ![s] = claims']
     /\ live' = live \union {claims'}
     /\ UNCHANGED <<retrySafe, early, watch, seen, historyVars>>

\* db.refresh after the claim's commit: a transaction of its own.
Refresh(s) ==
  /\ pc[s] = "claimed"
  /\ Hold(s, db, "ready")
  /\ UNCHANGED <<ledgerVars, lease, early, live, claims, watch, seen, historyVars>>

-----------------------------------------------------------------------------
(* complete and mark_unknown, on the object the session holds *)
Fenced(s) == cache[s].status = "executing" /\ cache[s].token = lease[s]

Complete(s, status, result) ==
  /\ \/ /\ cache[s].status \in Terminal
        /\ handed' = handed \union {cache[s].result}
        /\ UNCHANGED db
     \/ /\ Fenced(s)
        /\ db' = Flush(cache[s], Settled(cache[s], status, result))
        /\ handed' = handed \union {db'.result}
     \/ /\ cache[s].status \notin Terminal /\ ~Fenced(s)
        /\ handed' = handed \union {"error"}
        /\ UNCHANGED db
  /\ Leave(s)
  /\ UNCHANGED <<retrySafe, live, claims, seen, reissued>>

MarkUnknown(s) ==
  /\ IF Fenced(s) THEN db' = Flush(cache[s], Unknown(cache[s])) ELSE UNCHANGED db
  /\ handed' = IF Fenced(s) \/ cache[s].status \in Terminal
                 THEN handed ELSE handed \union {"error"}
  /\ Leave(s)
  /\ UNCHANGED <<retrySafe, live, claims, seen, reissued>>

\* The watchdog is scheduled before the call; a queue error is swallowed.
Schedule(s) == watch' \in {watch, watch \union {lease[s]}}

CircuitOpen(s) ==
  /\ pc[s] = "ready"
  /\ Complete(s, "failed", "error")
  /\ UNCHANGED <<watch, witnessed>>

StartCall(s) ==
  /\ pc[s] = "ready"
  /\ Schedule(s)
  /\ pc' = [pc EXCEPT ![s] = "inflight"]
  /\ reissued' = (reissued \/ s \notin early)
  /\ UNCHANGED <<ledgerVars, cache, lease, early, live, claims, seen,
                 witnessed, handed>>

\* The quota reservation inside the call is refused: its rollback expires the
\* session's objects, and the next attribute access reads the row again.
QuotaDenied(s) ==
  /\ pc[s] = "ready"
  /\ Schedule(s)
  /\ Hold(s, db, "denied")
  /\ UNCHANGED <<ledgerVars, lease, early, live, claims, seen, historyVars>>

CompleteDenied(s) ==
  /\ pc[s] = "denied"
  /\ Complete(s, "failed", "error")
  /\ UNCHANGED <<watch, witnessed>>

RemoteAnswer(s, result) ==
  /\ pc[s] = "inflight"
  /\ witnessed' = (witnessed \/ result = "ok")
  /\ Complete(s, IF result = "ok" THEN "succeeded" ELSE "failed", result)
  /\ UNCHANGED watch

\* Timeout or transport error: the remote side may or may not have acted.
RemoteLost(s) ==
  /\ pc[s] = "inflight"
  /\ MarkUnknown(s)
  /\ UNCHANGED <<watch, witnessed>>

Crash(s) ==
  /\ pc[s] # "idle"
  /\ Leave(s)
  /\ UNCHANGED <<ledgerVars, live, claims, watch, seen, historyVars>>

-----------------------------------------------------------------------------
(* Time, the watchdog job and the operator *)
ExpireLease(t) ==
  /\ t \in live
  /\ live' = live \ {t}
  /\ UNCHANGED <<ledgerVars, sessionVars, claims, watch, seen, historyVars>>

WatchdogEarly(t) == t \in watch
\* The job is delayed by the lease's length plus one second.
WatchdogDue(t) == t \in watch /\ t \notin live

\* recover_mcp_execution_job runs in a fresh session; a row it returned to
\* "prepared" is resumed in that same session, which still holds the row.
Watchdog(s, t) ==
  LET stale == db.status = "executing" /\ Expired(db)
  IN /\ pc[s] = "idle"
     /\ WatchdogDue(t)
     /\ watch' = watch \ {t}
     /\ db' = IF stale THEN Recovered(db) ELSE db
     /\ IF stale /\ db'.status = "prepared"
          THEN Hold(s, db', "loaded")
          ELSE UNCHANGED <<cache, pc>>
     /\ early' = early \ {s}
     /\ UNCHANGED <<retrySafe, lease, live, claims, seen, historyVars>>

Inspect(o) ==
  /\ db # NoRow
  /\ db.status = "unknown"
  /\ seen' = [seen EXCEPT ![o] = db]
  /\ UNCHANGED <<ledgerVars, sessionVars, live, claims, watch, historyVars>>

VersionNotChecked(row, expected) == TRUE
VersionMatches(row, expected) == row.version = expected

\* The request's session is fresh, so reconcile tests and writes the committed
\* row; what can be old is the version the operator saw.
Reconcile(o, new) ==
  /\ seen[o] # NoRow
  /\ VersionMatches(db, seen[o].version)
  /\ db.status = "unknown"
  /\ db' = [new EXCEPT !.version = @ + 1]
  /\ seen' = [seen EXCEPT ![o] = NoRow]
  /\ UNCHANGED <<retrySafe, sessionVars, live, claims, watch, reissued, handed>>

ConfirmSucceeded(o) ==
  /\ Reconcile(o, [db EXCEPT !.status = "succeeded", !.result = "ok"])
  /\ witnessed' = TRUE

ConfirmFailed(o) ==
  /\ Reconcile(o, [db EXCEPT !.status = "failed", !.result = "error"])
  /\ UNCHANGED witnessed

RetryUnknown(o) ==
  /\ Reconcile(o, [db EXCEPT !.status = "prepared", !.result = "none"])
  /\ Retryable(db)
  /\ UNCHANGED witnessed

-----------------------------------------------------------------------------
\* A job that holds the row runs on until it leaves, or its worker dies or is
\* killed at the job timeout.
Progress(s) ==
  \/ ReturnCached(s) \/ RefuseClaim(s) \/ GiveUpExpired(s)
  \/ Claim(s) \/ Refresh(s) \/ CircuitOpen(s) \/ StartCall(s)
  \/ QuotaDenied(s) \/ CompleteDenied(s)
  \/ \E result \in {"ok", "error"} : RemoteAnswer(s, result)
  \/ RemoteLost(s) \/ Crash(s)

Next ==
  \/ \E s \in Session : Prepare(s) \/ Progress(s)
  \/ \E s \in Session, t \in watch : Watchdog(s, t)
  \/ \E t \in live : ExpireLease(t)
  \/ \E o \in Operator :
       Inspect(o) \/ ConfirmSucceeded(o) \/ ConfirmFailed(o) \/ RetryUnknown(o)

Spec == Init /\ [][Next]_vars

\* Nothing promises that another job will come to the row (Prepare is not fair);
\* a lease runs out by itself; the RQ scheduler enqueues a due watchdog, and the
\* queue is first-in first-out, so a watchdog that a worker could run is run.
FairSpec ==
  /\ Spec
  /\ \A s \in Session : WF_vars(Progress(s))
  /\ \A t \in 1..MaxClaims : WF_vars(ExpireLease(t))
  /\ \A t \in 1..MaxClaims : SF_vars(\E s \in Session : Watchdog(s, t))

-----------------------------------------------------------------------------
\* The types of the ledger row, of the sessions and of the history.
TypeOK ==
  /\ db \in Row \union {NoRow}
  /\ retrySafe \in BOOLEAN
  /\ cache \in [Session -> Row \union {NoRow}]
  /\ pc \in [Session -> Phase]
  /\ lease \in [Session -> Nat]
  /\ live \subseteq Nat /\ watch \subseteq Nat
  /\ claims \in Nat
  /\ seen \in [Operator -> Row \union {NoRow}]
  /\ early \subseteq Session
  /\ reissued \in BOOLEAN /\ witnessed \in BOOLEAN
  /\ handed \subseteq Result
  /\ \A s \in Session : pc[s] # "idle" => cache[s] # NoRow

(* However sessions overlap, and whatever the fence lets through: *)

\* A call whose server declares no idempotency is never issued by a job that
\* came to the row after it was claimed once: not by a queue redelivery, not by
\* the watchdog, not after a crash, an expired lease or a reconciliation.
UnsafeNeverReissued == ~retrySafe => ~reissued

\* Success is never invented: a row that says "succeeded", and a result "ok"
\* that reached an agent, go back to an answer of the remote server or to an
\* operator's confirmation; no crash, timeout, late write or mixed flush makes one.
SuccessIsWitnessed ==
  (("ok" \in handed) \/ (db # NoRow /\ db.status = "succeeded")) => witnessed

\* Why UnsafeNeverReissued holds: without retry_safe nothing brings the row back
\* to "prepared", so an object that says "prepared" was loaded before the claim.
UnsafeInv ==
  ~retrySafe =>
    /\ ~reissued
    /\ claims > 0 => db # NoRow /\ db.status # "prepared"
    /\ \A s \in Session :
         /\ pc[s] = "loaded" /\ cache[s].status = "prepared" => s \in early
         /\ pc[s] \in {"claimed", "ready"} => s \in early

\* Why SuccessIsWitnessed holds: until there is a witness, no column that a
\* flush could mix in, in the table or in any session, speaks of success.
Unproven(row) == row.status # "succeeded" /\ row.result # "ok"
WitnessInv ==
  ~witnessed =>
    /\ db # NoRow => Unproven(db)
    /\ \A s \in Session : pc[s] # "idle" => Unproven(cache[s])
    /\ "ok" \notin handed

(* When jobs on the row never overlap in time: *)
OneSession == \A s, t \in Session : s = t

\* The budget that bounds how often the same key reaches the remote server.
AttemptBudget == db # NoRow => db.attempts <= MaxAttempts

\* The status columns agree: a row holds a lease exactly while it is executing,
\* and the stored result is the one its terminal status names.
RowIsCoherent ==
  db # NoRow =>
    /\ db.token # 0 <=> db.status = "executing"
    /\ db.status = "succeeded" => db.result = "ok"
    /\ db.status = "failed" => db.result = "error"

\* The row goes through the status machine that the documentation gives, and
\* through it alone: no status is skipped, no settled call is taken up again.
Contract == INSTANCE ExecutionContract WITH
  status <- IF db = NoRow THEN "absent" ELSE db.status,
  attempts <- IF db = NoRow THEN 0 ELSE db.attempts

ImplementsContract == Contract!Spec

\* expected_version: a reconciliation is applied to the very row the operator saw.
ReconcilesWhatWasSeen ==
  [][\A o \in Operator :
       seen[o] # NoRow /\ seen'[o] = NoRow => db = seen[o]]_vars

\* Once the ledger holds a final result, no further call leaves for the server.
SettledCallsStayLocal ==
  [][\A s \in Session :
       pc[s] = "ready" /\ pc'[s] = "inflight" => db.status \notin Terminal]_vars

ExecutingUnder(t) == db # NoRow /\ db.status = "executing" /\ db.token = t

\* A lease whose watchdog was scheduled ends, even if its worker died.
WatchedLeaseEnds ==
  \A t \in 1..MaxClaims :
    (t \in watch /\ ExecutingUnder(t)) ~> ~ExecutingUnder(t)

\* Every lease ends: a worker's crash never leaves the row executing for good.
EveryLeaseEnds == \A t \in 1..MaxClaims : ExecutingUnder(t) ~> ~ExecutingUnder(t)
=============================================================================
