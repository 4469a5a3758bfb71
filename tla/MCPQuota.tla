------------------------------ MODULE MCPQuota ------------------------------
(***************************************************************************)
(* One quota policy of a tenant (services/mcp_quota_service.py): calls     *)
(* reserve and release in PostgreSQL, behind a row lock of the policy, and *)
(* in Redis, behind one script; administrators edit and reset the policy;  *)
(* the reconciliation compares the two stores and rebuilds Redis.          *)
(* Of the limits, the daily number of calls and the number of concurrent   *)
(* calls are kept: the minute, the cost and the run are counted alike.     *)
(***************************************************************************)
EXTENDS Naturals, FiniteSets

CONSTANTS
  Caller,        \* calls of a tool, each with a session of its own
  Key,           \* idempotency keys of logical calls
  Reconciler,    \* invocations of reconcile_redis
  Editor,        \* requests PATCH /policies/{id}
  Limit,         \* values of daily_call_limit
  Width,         \* concurrent_limit
  FailClosed,    \* the values of mcp_quota_fail_closed to consider
  NoOne,         \* no lease token, no lock, no event
  MaxEdits,      \* bound: edits of the policy
  MaxClears      \* bound: resets of the policy and ends of a day, together

Event == [id : Caller, token : Caller \union {NoOne}, live : BOOLEAN]

ASSUME QuotaAssumption ==
  /\ Limit \subseteq Nat /\ Limit # {} /\ IsFiniteSet(Limit) /\ Width \in Nat
  /\ MaxEdits \in Nat /\ MaxClears \in Nat
  /\ FailClosed \subseteq BOOLEAN /\ NoOne \notin Caller \union Reconciler \union Key \union Event
  /\ IsFiniteSet(Key)

VARIABLES
  policy,        \* row of mcp_quota_policies
  rowLock,       \* the caller whose transaction holds the policy's row
  event,         \* rows of mcp_quota_events, by idempotency key
  charged,       \* keys with a charge in the current day and since the reset
  visible,       \* keys with a charge since the reset
  redis,         \* counters, marks and slots of the policy in Redis
  repairLock,    \* holder of the key that keeps reservations out of Redis
  call,          \* how far each call is
  key,           \* the key of each call on its way
  stage,         \* how far each reconciliation is
  plan,          \* what it has read and will write
  edit,          \* version in the object of each edit, 0 before it is loaded
  peak,          \* greatest limit since the day began or the policy was reset
  counted,       \* keys that Redis has ever counted
  resets, days   \* counters of bounded actions

ledgerVars == <<event, charged, visible>>
historyVars == <<peak, counted>>
boundVars == <<resets, days>>
callVars == <<call, key>>
repairVars == <<stage, plan>>
quotaVars == <<policy, rowLock, ledgerVars, redis, repairLock, callVars, repairVars, edit,
               historyVars, boundVars>>

Stage == {"idle", "checked", "granted", "calling", "releasing", "freeing", "done"}
Plan == [count : Nat, marks : SUBSET Key, slots : SUBSET Caller, scanned : SUBSET Key]
NoPlan == [count |-> 0, marks |-> {}, slots |-> {}, scanned |-> {}]

QuotaTypeOK ==
  /\ policy \in [limit : Limit, mode : {"active", "off"}, version : 1..(MaxEdits + 1)]
  /\ rowLock \in Caller \union {NoOne}
  /\ event \in [Key -> Event \union {NoOne}]
  /\ charged \subseteq visible /\ visible \subseteq Key
  /\ redis \in [count : Nat, marks : SUBSET Key, slots : SUBSET Caller]
  /\ repairLock \in Reconciler \union {NoOne}
  /\ call \in [Caller -> Stage] /\ key \in [Caller -> Key \union {NoOne}]
  /\ stage \in [Reconciler -> {"new", "locked", "read", "over"}]
  /\ plan \in [Reconciler -> Plan]
  /\ edit \in [Editor -> 0..(MaxEdits + 1)]
  /\ peak \in Limit /\ counted \subseteq Key
  /\ resets \in Nat /\ days \in Nat /\ resets + days <= MaxClears

QuotaInit ==
  /\ policy \in [limit : Limit, mode : {"active"}, version : {1}]
  /\ rowLock = NoOne /\ event = [k \in Key |-> NoOne] /\ charged = {} /\ visible = {}
  /\ redis = [count |-> 0, marks |-> {}, slots |-> {}] /\ repairLock = NoOne
  /\ call = [c \in Caller |-> "idle"] /\ key = [c \in Caller |-> NoOne]
  /\ stage = [r \in Reconciler |-> "new"]
  /\ plan = [r \in Reconciler |-> NoPlan] /\ edit = [e \in Editor |-> 0]
  /\ peak = policy.limit /\ counted = {} /\ resets = 0 /\ days = 0

Reach(c, point) ==
  /\ call' = [call EXCEPT ![c] = point]
  /\ key' = IF point = "done" THEN [key EXCEPT ![c] = NoOne] ELSE key

-----------------------------------------------------------------------------
(* Reserving.                                                              *)

\* _policy_usage joins charges since the reset with events whose lease runs.
Active == {k \in visible : event[k] # NoOne /\ event[k].live}

\* The id under which a call appears in Redis: that of the key's event, or of a new one.
IdOf(c, k) == IF event[k] = NoOne THEN c ELSE event[k].id

\* Faulty variant: compares what was used, without the call that asks.
AffordableLate(k) == event[k] # NoOne \/ Cardinality(charged) <= policy.limit

\* _check_policy: the daily limit binds a key that has no event yet.
Affordable(k) == event[k] # NoOne \/ Cardinality(charged) + 1 <= policy.limit

HasRoom(k) == Cardinality(Active \ {k}) + 1 <= Width

Admits(k) ==
  /\ policy.mode = "active"
  /\ event[k] # NoOne => ~event[k].live
  /\ Affordable(k) /\ HasRoom(k)

\* reserve locks the policies that match and checks them. A frozen policy refuses the call
\* and a disabled one lets it pass unseen: neither ("off") reserves anything.
Reserve(c, k) ==
  /\ call[c] = "idle" /\ rowLock = NoOne
  /\ IF Admits(k)
       THEN /\ call' = [call EXCEPT ![c] = "checked"]
            /\ key' = [key EXCEPT ![c] = k] /\ rowLock' = c
       ELSE Reach(c, "done") /\ UNCHANGED rowLock
  /\ UNCHANGED <<policy, ledgerVars, redis, repairLock, repairVars, edit, historyVars, boundVars>>

\* Faulty variant: the mark that an earlier attempt left in Redis is not consulted.
CountedUnlessMarked(k) == event[k] # NoOne

\* A key is counted once: it has an event, or a mark.
Counted(k) == event[k] # NoOne \/ k \in redis.marks

ScriptAdmits(c, k) ==
  /\ repairLock = NoOne
  /\ Counted(k) \/ redis.count + 1 <= policy.limit
  /\ IdOf(c, k) \in redis.slots \/ Cardinality(redis.slots) + 1 <= Width

\* REDIS_RESERVE_SCRIPT, in one step for Redis.
ScriptGrants(c, k) ==
  /\ redis' = [count |-> redis.count + (IF Counted(k) THEN 0 ELSE 1),
               marks |-> redis.marks \union {k},
               slots |-> redis.slots \union {IdOf(c, k)}]
  /\ counted' = counted \union {k}

RedisGrants(c) ==
  /\ call[c] = "checked" /\ ScriptAdmits(c, key[c])
  /\ ScriptGrants(c, key[c])
  /\ Reach(c, "granted")
  /\ UNCHANGED <<policy, rowLock, ledgerVars, repairLock, repairVars, edit, peak, boundVars>>

\* A refusal of the script rolls back and records the rejection.
RedisRefuses(c) ==
  /\ call[c] = "checked" /\ ~ScriptAdmits(c, key[c])
  /\ Reach(c, "done") /\ rowLock' = NoOne
  /\ UNCHANGED <<policy, ledgerVars, redis, repairLock, repairVars, edit, historyVars, boundVars>>

\* Redis does not answer; the script may have run. Open, the call goes on without it;
\* closed, the reservation is rolled back, and its slot freed if Redis can be reached.
RedisFails(c) ==
  /\ call[c] = "checked"
  /\ IF ScriptAdmits(c, key[c]) THEN ScriptGrants(c, key[c]) \/ UNCHANGED <<redis, counted>>
     ELSE UNCHANGED <<redis, counted>>
  /\ \E closed \in FailClosed :
       IF closed THEN Reach(c, "done") /\ rowLock' = NoOne
       ELSE Reach(c, "granted") /\ UNCHANGED rowLock
  /\ UNCHANGED <<policy, ledgerVars, repairLock, repairVars, edit, peak, boundVars>>

Freed(slots, id, heard) == IF heard THEN slots \ {id} ELSE slots

\* The event and, for a new one, its charge. A commit that fails takes the slot back.
CommitReservation(c) ==
  /\ call[c] = "granted"
  /\ LET k == key[c] IN
       \/ /\ event' = [event EXCEPT ![k] = [id |-> IdOf(c, k), token |-> c, live |-> TRUE]]
          /\ charged' = IF event[k] = NoOne THEN charged \union {k} ELSE charged
          /\ visible' = IF event[k] = NoOne THEN visible \union {k} ELSE visible
          /\ Reach(c, "calling") /\ UNCHANGED redis
       \/ /\ \E heard \in BOOLEAN :
               redis' = [redis EXCEPT !.slots = Freed(@, IdOf(c, k), heard)]
          /\ Reach(c, "done") /\ UNCHANGED ledgerVars
  /\ rowLock' = NoOne
  /\ UNCHANGED <<policy, repairLock, repairVars, edit, historyVars, boundVars>>

-----------------------------------------------------------------------------
(* Releasing.                                                              *)

\* The tool answered, failed or was lost. release reads the event and compares the token.
ReadLease(c) ==
  /\ call[c] = "calling"
  /\ Reach(c, IF event[key[c]] # NoOne /\ event[key[c]].token = c THEN "releasing" ELSE "freeing")
  /\ UNCHANGED <<policy, rowLock, ledgerVars, redis, repairLock, repairVars, edit,
                 historyVars, boundVars>>

\* The update names the row only: it ends the lease the row has by now.
EndLease(c) ==
  /\ call[c] = "releasing"
  /\ rowLock # NoOne => key[rowLock] # key[c]
  /\ event' = [event EXCEPT ![key[c]].token = NoOne, ![key[c]].live = FALSE]
  /\ Reach(c, "freeing")
  /\ UNCHANGED <<policy, rowLock, charged, visible, redis, repairLock, repairVars, edit,
                 historyVars, boundVars>>

\* The slot has the event's id, whoever holds the event now.
FreeSlot(c) ==
  /\ call[c] = "freeing"
  /\ \E heard \in BOOLEAN :
       redis' = [redis EXCEPT !.slots =
                   Freed(@, IF event[key[c]] = NoOne THEN c ELSE event[key[c]].id, heard)]
  /\ Reach(c, "done")
  /\ UNCHANGED <<policy, rowLock, ledgerVars, repairLock, repairVars, edit, historyVars, boundVars>>

CallerDies(c) ==
  /\ call[c] \in {"checked", "granted", "calling", "releasing", "freeing"}
  /\ Reach(c, "done")
  /\ rowLock' = IF rowLock = c THEN NoOne ELSE rowLock
  /\ UNCHANGED <<policy, ledgerVars, redis, repairLock, repairVars, edit, historyVars, boundVars>>

\* mcp_quota_concurrency_lease_seconds are over, in both stores. Assumed longer than the
\* transaction that takes the lease.
ExpireReservation(id) ==
  /\ \/ id \in redis.slots
     \/ \E k \in Key : event[k] # NoOne /\ event[k].id = id /\ event[k].live
  /\ rowLock # NoOne => IdOf(rowLock, key[rowLock]) # id
  /\ redis' = [redis EXCEPT !.slots = @ \ {id}]
  /\ event' = [k \in Key |-> IF event[k] # NoOne /\ event[k].id = id
                             THEN [event[k] EXCEPT !.live = FALSE] ELSE event[k]]
  /\ UNCHANGED <<policy, rowLock, charged, visible, repairLock, callVars, repairVars, edit,
                 historyVars, boundVars>>

-----------------------------------------------------------------------------
(* The policy.                                                             *)

\* The route reads the policy; its session keeps the object.
LoadPolicy(e) ==
  /\ edit[e] = 0
  /\ edit' = [edit EXCEPT ![e] = policy.version]
  /\ UNCHANGED <<policy, rowLock, ledgerVars, redis, repairLock, callVars, repairVars,
                 historyVars, boundVars>>

Greater(a, b) == IF a > b THEN a ELSE b

\* update_policy locks the row and compares the expected version with the object's, which
\* the lock does not refresh; the attributes that differ from the object's are written. Or
\* the request expects another version, or is invalid.
UpdatePolicy(e, limit, mode) ==
  /\ edit[e] # 0 /\ rowLock = NoOne
  /\ \/ edit[e] <= MaxEdits /\ policy' = [policy EXCEPT !.limit = limit, !.version = edit[e] + 1]
     \/ edit[e] <= MaxEdits /\ policy' = [policy EXCEPT !.mode = mode, !.version = edit[e] + 1]
     \/ UNCHANGED policy
  /\ peak' = Greater(peak, policy'.limit)
  /\ edit' = [edit EXCEPT ![e] = 0]
  /\ UNCHANGED <<rowLock, ledgerVars, redis, repairLock, callVars, repairVars, counted, boundVars>>

\* temporarily_adjust_policy and disable_policy, whose session has no older object.
AdjustPolicy(limit, mode) ==
  /\ rowLock = NoOne /\ policy.version <= MaxEdits
  /\ policy' = [policy EXCEPT !.limit = limit, !.mode = mode, !.version = @ + 1]
  /\ mode \in {policy.mode, "off"}
  /\ peak' = Greater(peak, limit)
  /\ UNCHANGED <<rowLock, ledgerVars, redis, repairLock, callVars, repairVars, edit, counted, boundVars>>

\* reset_policy hides all charges made so far, clears Redis and commits.
ResetPolicy ==
  /\ rowLock = NoOne /\ resets + days < MaxClears /\ policy.version <= MaxEdits
  /\ policy' = [policy EXCEPT !.version = @ + 1]
  /\ charged' = {} /\ visible' = {}
  /\ redis' = [count |-> 0, marks |-> {}, slots |-> {}]
  /\ peak' = policy.limit /\ resets' = resets + 1
  /\ UNCHANGED <<rowLock, event, repairLock, callVars, repairVars, edit, counted, days>>

\* Midnight: the day's charges no longer count, in either store. Leases and marks stay.
EndDay ==
  /\ resets + days < MaxClears /\ rowLock = NoOne
  /\ charged' = {} /\ redis' = [redis EXCEPT !.count = 0]
  /\ plan' = [r \in Reconciler |-> [plan[r] EXCEPT !.count = 0]]
  /\ peak' = policy.limit /\ days' = days + 1
  /\ UNCHANGED <<policy, rowLock, event, visible, repairLock, callVars, stage, edit, counted, resets>>

\* purge_usage deletes events of past days whose lease is over; by then Redis has forgotten
\* their marks and counters. No call or repair lasts that long. Taken before the day's
\* first charge.
PurgeUsage(k) ==
  /\ event[k] # NoOne /\ ~event[k].live /\ days > 0 /\ charged = {} /\ redis.count = 0
  /\ \A c \in Caller : key[c] # k
  /\ \A r \in Reconciler : stage[r] # "read"
  /\ event' = [event EXCEPT ![k] = NoOne] /\ visible' = visible \ {k}
  /\ redis' = [redis EXCEPT !.marks = @ \ {k}]
  /\ UNCHANGED <<policy, rowLock, charged, repairLock, callVars, repairVars, edit,
                 historyVars, boundVars>>

-----------------------------------------------------------------------------
(* Reconciliation.                                                         *)

LockTenant(r) ==
  /\ stage[r] = "new" /\ repairLock = NoOne
  /\ repairLock' = r /\ stage' = [stage EXCEPT ![r] = "locked"]
  /\ UNCHANGED <<policy, rowLock, ledgerVars, redis, callVars, plan, edit, historyVars, boundVars>>

\* The comparison finds a difference and a repair was asked for. It may be a false one: the
\* two stores are read one after the other, and count minutes differently. The rebuild
\* lists the keys of the policy and reads the ledger.
ReadLedger(r) ==
  /\ stage[r] = "locked" /\ stage' = [stage EXCEPT ![r] = "read"]
  /\ plan' = [plan EXCEPT ![r] = [count |-> Cardinality(charged), marks |-> visible,
                                  slots |-> {event[k].id : k \in Active},
                                  scanned |-> redis.marks]]
  /\ UNCHANGED <<policy, rowLock, ledgerVars, redis, repairLock, callVars, edit,
                 historyVars, boundVars>>

\* One transaction deletes the listed keys and writes what was read. Leases that have run
\* out since do not count.
Rebuild(r) ==
  /\ stage[r] = "read" /\ stage' = [stage EXCEPT ![r] = "locked"]
  /\ redis' = [count |-> plan[r].count,
               marks |-> (redis.marks \ plan[r].scanned) \union plan[r].marks,
               slots |-> {id \in plan[r].slots :
                            \E k \in Key : event[k] # NoOne /\ event[k].id = id /\ event[k].live}]
  /\ counted' = counted \union plan[r].marks
  /\ plan' = [plan EXCEPT ![r] = NoPlan]
  /\ UNCHANGED <<policy, rowLock, ledgerVars, repairLock, callVars, edit, peak, boundVars>>

Unlocked(r) == IF repairLock = r THEN NoOne ELSE repairLock

\* The reconciliation ends, without a repair or after it, or fails: the finally clause
\* deletes the lock if it is still its own.
EndReconciliation(r) ==
  /\ stage[r] \notin {"new", "over"}
  /\ plan' = [plan EXCEPT ![r] = NoPlan] /\ stage' = [stage EXCEPT ![r] = "over"] /\ repairLock' = Unlocked(r)
  /\ UNCHANGED <<policy, rowLock, ledgerVars, redis, callVars, edit, historyVars, boundVars>>

\* Its process dies.
ReconcilerDies(r) ==
  /\ stage[r] \notin {"new", "over"}
  /\ plan' = [plan EXCEPT ![r] = NoPlan] /\ stage' = [stage EXCEPT ![r] = "over"]
  /\ UNCHANGED <<policy, rowLock, ledgerVars, redis, repairLock, callVars, edit,
                 historyVars, boundVars>>

\* mcp:quota:reconcile:<tenant> lives for a minute, however long the repair takes.
ExpireRepairLock ==
  /\ repairLock # NoOne
  /\ repairLock' = NoOne
  /\ UNCHANGED <<policy, rowLock, ledgerVars, redis, callVars, repairVars, edit, historyVars, boundVars>>

CallerNext == \E c \in Caller :
  \/ \E k \in Key : Reserve(c, k)
  \/ RedisGrants(c) \/ RedisRefuses(c) \/ RedisFails(c) \/ CommitReservation(c)
  \/ ReadLease(c) \/ EndLease(c) \/ FreeSlot(c) \/ CallerDies(c) \/ ExpireReservation(c)

PolicyNext ==
  \/ \E e \in Editor : LoadPolicy(e)
  \/ \E e \in Editor, limit \in Limit, mode \in {"active", "off"} : UpdatePolicy(e, limit, mode)
  \/ \E limit \in Limit, mode \in {"active", "off"} : AdjustPolicy(limit, mode)
  \/ ResetPolicy \/ EndDay \/ \E k \in Key : PurgeUsage(k)

ReconcilerNext == \E r \in Reconciler :
  LockTenant(r) \/ ReadLedger(r) \/ Rebuild(r) \/ EndReconciliation(r) \/ ReconcilerDies(r)

QuotaNext == CallerNext \/ PolicyNext \/ ReconcilerNext \/ ExpireRepairLock

QuotaSpec == QuotaInit /\ [][QuotaNext]_quotaVars

-----------------------------------------------------------------------------
(* Properties.                                                             *)

\* The calls charged in a day stay within the greatest limit of that day, whatever crashes,
\* retries, edits and repairs of Redis do in between (_check_policy behind the row lock).
BudgetHolds == Cardinality(charged) <= peak

\* Redis counts a logical call once: an attempt that died between Redis and the commit is
\* not counted again when it is repeated (the mark of the script, already_counted).
CountedOnce == redis.count <= Cardinality(counted)
=============================================================================
