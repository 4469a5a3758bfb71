------------------------- MODULE MCPExecutionProofs -------------------------
(***************************************************************************)
(* Proofs about the execution ledger, for any number of overlapping         *)
(* sessions, operators, attempts and claims.                                *)
(***************************************************************************)
EXTENDS MCPExecution, TLAPS

-----------------------------------------------------------------------------
(* The row operators keep the row's type *)

\* A flush of a typed change into a typed row leaves a typed row.
LEMMA FlushType ==
  ASSUME db \in Row, NEW loaded \in Row, NEW new \in Row
  PROVE  /\ Flush(loaded, new) \in Row
         /\ \A c \in {"status", "token", "attempts", "version", "result"} :
              Flush(loaded, new)[c] = IF new[c] = loaded[c] THEN db[c] ELSE new[c]
  BY DEF Flush, Row

\* Assigning one column a value of the column's type leaves a row.
LEMMA SetColumn ==
  ASSUME NEW row \in Row
  PROVE  /\ \A v \in Status : [row EXCEPT !.status = v] \in Row
         /\ \A v \in Nat : [row EXCEPT !.token = v] \in Row
         /\ \A v \in Nat : [row EXCEPT !.attempts = v] \in Row
         /\ \A v \in Nat : [row EXCEPT !.version = v] \in Row
         /\ \A v \in Result : [row EXCEPT !.result = v] \in Row
  BY DEF Row

\* Every transformation of a row that the service applies is a row.
LEMMA RowOperators ==
  ASSUME NEW row \in Row
  PROVE  /\ Recovered(row) \in Row
         /\ \A token \in Nat : Claimed(row, token) \in Row
         /\ \A status \in Terminal, result \in {"ok", "error"} :
              Settled(row, status, result) \in Row
         /\ Unknown(row) \in Row
         /\ [row EXCEPT !.version = @ + 1] \in Row
  <1>1. /\ row.version + 1 \in Nat /\ row.attempts + 1 \in Nat /\ 0 \in Nat
        /\ {"prepared", "executing", "unknown"} \union Terminal \subseteq Status
        /\ {"ok", "error"} \subseteq Result
    BY DEF Row, Status, Result
  <1>2. Recovered(row) \in Row
    <2> DEFINE next == IF Retryable(row) THEN "prepared" ELSE "unknown"
    <2>1. next \in Status
      BY <1>1
    <2>2. [row EXCEPT !.token = 0] \in Row
      BY <1>1, SetColumn
    <2>3. [row EXCEPT !.token = 0, !.version = row.version + 1] \in Row
      BY <1>1, <2>2, SetColumn
    <2> HIDE DEF next
    <2>4. [row EXCEPT !.token = 0, !.version = row.version + 1, !.status = next] \in Row
      BY <2>1, <2>3, SetColumn
    <2> QED BY <2>4 DEF Recovered, next
  <1>3. ASSUME NEW token \in Nat PROVE Claimed(row, token) \in Row
    <2>1. [row EXCEPT !.status = "executing"] \in Row
      BY <1>1, SetColumn
    <2>2. [row EXCEPT !.status = "executing", !.token = token] \in Row
      BY <2>1, SetColumn
    <2>3. [row EXCEPT !.status = "executing", !.token = token,
                      !.attempts = row.attempts + 1] \in Row
      BY <1>1, <2>2, SetColumn
    <2>4. [row EXCEPT !.status = "executing", !.token = token,
                      !.attempts = row.attempts + 1, !.version = row.version + 1] \in Row
      BY <1>1, <2>3, SetColumn
    <2> QED BY <2>4 DEF Claimed
  <1>4. ASSUME NEW status \in Terminal, NEW result \in {"ok", "error"}
        PROVE  Settled(row, status, result) \in Row
    <2>1. [row EXCEPT !.status = status] \in Row
      BY <1>1, SetColumn
    <2>2. [row EXCEPT !.status = status, !.result = result] \in Row
      BY <1>1, <2>1, SetColumn
    <2>3. [row EXCEPT !.status = status, !.result = result, !.token = 0] \in Row
      BY <1>1, <2>2, SetColumn
    <2>4. [row EXCEPT !.status = status, !.result = result, !.token = 0,
                      !.version = row.version + 1] \in Row
      BY <1>1, <2>3, SetColumn
    <2> QED BY <2>4 DEF Settled
  <1>5. Unknown(row) \in Row
    <2>1. [row EXCEPT !.status = "unknown"] \in Row
      BY <1>1, SetColumn
    <2>2. [row EXCEPT !.status = "unknown", !.token = 0] \in Row
      BY <1>1, <2>1, SetColumn
    <2>3. [row EXCEPT !.status = "unknown", !.token = 0,
                      !.version = row.version + 1] \in Row
      BY <1>1, <2>2, SetColumn
    <2> QED BY <2>3 DEF Unknown
  <1>6. [row EXCEPT !.version = @ + 1] \in Row
    BY <1>1, SetColumn
  <1> QED BY <1>2, <1>3, <1>4, <1>5, <1>6

-----------------------------------------------------------------------------
(* Types *)

\* Before the row exists nobody holds it, watches it or has seen it.
NothingYet ==
  db = NoRow =>
    /\ \A s \in Session : pc[s] = "idle"
    /\ \A o \in Operator : seen[o] = NoRow
    /\ watch = {} /\ claims = 0

TypeInv == TypeOK /\ NothingYet

\* What a session holds while it is at work is a row, and so is the table's.
LEMMA AtWork ==
  ASSUME TypeInv, NEW s \in Session, pc[s] # "idle"
  PROVE  cache[s] \in Row /\ db \in Row
  BY DEF TypeInv, TypeOK, NothingYet

\* Closing a session keeps the session variables typed.
LEMMA LeaveType ==
  ASSUME TypeInv, NEW s \in Session, Leave(s)
  PROVE  /\ cache' \in [Session -> Row \union {NoRow}]
         /\ pc' \in [Session -> Phase]
         /\ lease' \in [Session -> Nat]
         /\ early' \subseteq Session
         /\ \A r \in Session : pc'[r] # "idle" => cache'[r] # NoRow
  BY DEF TypeInv, TypeOK, Leave, Phase

\* So does moving a session on with a row in its identity map.
LEMMA HoldType ==
  ASSUME TypeInv, NEW s \in Session, NEW row \in Row, NEW phase \in Phase,
         Hold(s, row, phase)
  PROVE  /\ cache' \in [Session -> Row \union {NoRow}]
         /\ pc' \in [Session -> Phase]
         /\ \A r \in Session : pc'[r] # "idle" => cache'[r] # NoRow
  BY LedgerAssumption DEF TypeInv, TypeOK, Hold

LEMMA CompleteType ==
  ASSUME TypeInv, NEW s \in Session, pc[s] # "idle",
         NEW status \in Terminal, NEW result \in {"ok", "error"},
         Complete(s, status, result)
  PROVE  db' \in Row /\ handed' \subseteq Result
  <1>1. cache[s] \in Row /\ db \in Row /\ handed \subseteq Result
    BY AtWork DEF TypeInv, TypeOK
  <1>2. Flush(cache[s], Settled(cache[s], status, result)) \in Row
    BY <1>1, FlushType, RowOperators
  <1>3. \A row \in Row : row.result \in Result
    BY DEF Row
  <1>4. "error" \in Result
    BY DEF Result
  <1>5. CASE UNCHANGED db /\ handed' = handed \union {cache[s].result}
    BY <1>1, <1>3, <1>5
  <1>6. CASE /\ db' = Flush(cache[s], Settled(cache[s], status, result))
             /\ handed' = handed \union {db'.result}
    BY <1>1, <1>2, <1>3, <1>6
  <1>7. CASE UNCHANGED db /\ handed' = handed \union {"error"}
    BY <1>1, <1>4, <1>7
  <1> QED BY <1>5, <1>6, <1>7 DEF Complete

\* TypeInv holds initially.
LEMMA TypeInit == Init => TypeInv
  <1> SUFFICES ASSUME Init PROVE TypeInv
    OBVIOUS
  <1>1. /\ db \in Row \union {NoRow} /\ retrySafe \in BOOLEAN
        /\ cache \in [Session -> Row \union {NoRow}]
        /\ seen \in [Operator -> Row \union {NoRow}]
    BY DEF Init
  <1>2. pc \in [Session -> Phase] /\ lease \in [Session -> Nat]
    BY DEF Init, Phase
  <1>3. /\ live \subseteq Nat /\ watch \subseteq Nat /\ claims \in Nat
        /\ early \subseteq Session /\ handed \subseteq Result
        /\ reissued \in BOOLEAN /\ witnessed \in BOOLEAN
    BY DEF Init
  <1>4. (\A s \in Session : pc[s] # "idle" => cache[s] # NoRow) /\ NothingYet
    BY DEF Init, NothingYet
  <1> QED BY <1>1, <1>2, <1>3, <1>4 DEF TypeInv, TypeOK

\* Every step keeps it.
LEMMA TypeStep == TypeInv /\ [Next]_vars => TypeInv'
  <1> SUFFICES ASSUME TypeInv, [Next]_vars PROVE TypeInv'
    OBVIOUS
  <1> USE DEF ledgerVars, sessionVars, historyVars
  <1>1. ASSUME NEW s \in Session, Prepare(s) PROVE TypeInv'
    <2>1. NewRow \in Row
      BY DEF NewRow, Row, Status, Terminal, Result
    <2>2. db' \in Row
      BY <1>1, <2>1 DEF Prepare, TypeInv, TypeOK
    <2>3. "loaded" \in Phase
      BY DEF Phase
    <2>4. /\ cache' \in [Session -> Row \union {NoRow}]
          /\ pc' \in [Session -> Phase]
          /\ \A r \in Session : pc'[r] # "idle" => cache'[r] # NoRow
      BY <1>1, <2>2, <2>3, HoldType DEF Prepare
    <2> QED
      BY <1>1, <2>2, <2>4, LedgerAssumption DEF Prepare, TypeInv, TypeOK, NothingYet
  <1>2. ASSUME NEW s \in Session, ReturnCached(s) PROVE TypeInv'
    <2>1. cache[s] \in Row /\ db \in Row
      BY <1>2, AtWork DEF ReturnCached
    <2>2. db' \in Row
      BY <1>2, <2>1, FlushType, RowOperators DEF ReturnCached
    <2>3. db'.result \in Result
      BY <2>2 DEF Row
    <2> QED
      BY <1>2, <2>2, <2>3, LeaveType, LedgerAssumption
      DEF ReturnCached, TypeInv, TypeOK, NothingYet
  <1>3. ASSUME NEW s \in Session, RefuseClaim(s) PROVE TypeInv'
    BY <1>3, LeaveType, AtWork, LedgerAssumption
    DEF RefuseClaim, TypeInv, TypeOK, NothingYet
  <1>4. ASSUME NEW s \in Session, GiveUpExpired(s) PROVE TypeInv'
    <2>1. cache[s] \in Row /\ db \in Row
      BY <1>4, AtWork DEF GiveUpExpired
    <2>2. db' \in Row
      BY <1>4, <2>1, FlushType, RowOperators DEF GiveUpExpired
    <2> QED
      BY <1>4, <2>2, LeaveType, LedgerAssumption
      DEF GiveUpExpired, TypeInv, TypeOK, NothingYet
  <1>5. ASSUME NEW s \in Session, Claim(s) PROVE TypeInv'
    <2> DEFINE from == IF cache[s].status = "prepared" THEN cache[s]
                                                       ELSE Recovered(cache[s])
    <2> DEFINE new == Claimed(from, claims + 1)
    <2>1. cache[s] \in Row /\ db \in Row /\ claims + 1 \in Nat
      BY <1>5, AtWork DEF Claim, TypeInv, TypeOK
    <2>2. from \in Row
      BY <2>1, RowOperators
    <2>3. new \in Row
      BY <2>1, <2>2, RowOperators
    <2>4. db' \in Row
      BY <1>5, <2>1, <2>3, FlushType DEF Claim
    <2>5. /\ cache' \in [Session -> Row \union {NoRow}]
          /\ pc' \in [Session -> Phase]
          /\ \A r \in Session : pc'[r] # "idle" => cache'[r] # NoRow
      BY <1>5, <2>3, HoldType DEF Claim, Phase
    <2> QED
      BY <1>5, <2>1, <2>4, <2>5, LedgerAssumption
      DEF Claim, TypeInv, TypeOK, NothingYet
  <1>6. ASSUME NEW s \in Session, Refresh(s) PROVE TypeInv'
    <2>1. db \in Row /\ "ready" \in Phase
      BY <1>6, AtWork DEF Refresh, Phase
    <2> QED
      BY <1>6, <2>1, HoldType, LedgerAssumption
      DEF Refresh, TypeInv, TypeOK, NothingYet
  <1>7. ASSUME NEW s \in Session, CircuitOpen(s) PROVE TypeInv'
    <2>1. db' \in Row /\ handed' \subseteq Result
      BY <1>7, CompleteType DEF CircuitOpen, Terminal
    <2> QED
      BY <1>7, <2>1, LeaveType, LedgerAssumption
      DEF CircuitOpen, Complete, TypeInv, TypeOK, NothingYet
  <1>8. ASSUME NEW s \in Session, StartCall(s) PROVE TypeInv'
    <2>1. db \in Row
      BY <1>8, AtWork DEF StartCall
    <2>2. watch' \subseteq Nat
      BY <1>8 DEF StartCall, Schedule, TypeInv, TypeOK
    <2> QED
      BY <1>8, <2>1, <2>2, LedgerAssumption
      DEF StartCall, TypeInv, TypeOK, NothingYet, Phase
  <1>9. ASSUME NEW s \in Session, QuotaDenied(s) PROVE TypeInv'
    <2>1. db \in Row /\ "denied" \in Phase
      BY <1>9, AtWork DEF QuotaDenied, Phase
    <2>2. watch' \subseteq Nat
      BY <1>9 DEF QuotaDenied, Schedule, TypeInv, TypeOK
    <2> QED
      BY <1>9, <2>1, <2>2, HoldType, LedgerAssumption
      DEF QuotaDenied, TypeInv, TypeOK, NothingYet
  <1>10. ASSUME NEW s \in Session, CompleteDenied(s) PROVE TypeInv'
    <2>1. db' \in Row /\ handed' \subseteq Result
      BY <1>10, CompleteType DEF CompleteDenied, Terminal
    <2> QED
      BY <1>10, <2>1, LeaveType, LedgerAssumption
      DEF CompleteDenied, Complete, TypeInv, TypeOK, NothingYet
  <1>11. ASSUME NEW s \in Session, NEW result \in {"ok", "error"},
                RemoteAnswer(s, result)
         PROVE  TypeInv'
    <2>1. db' \in Row /\ handed' \subseteq Result
      BY <1>11, CompleteType DEF RemoteAnswer, Terminal
    <2> QED
      BY <1>11, <2>1, LeaveType, LedgerAssumption
      DEF RemoteAnswer, Complete, TypeInv, TypeOK, NothingYet
  <1>12. ASSUME NEW s \in Session, RemoteLost(s) PROVE TypeInv'
    <2>1. cache[s] \in Row /\ db \in Row
      BY <1>12, AtWork DEF RemoteLost
    <2>2. Flush(cache[s], Unknown(cache[s])) \in Row
      BY <2>1, FlushType, RowOperators
    <2>3. db' \in Row /\ handed' \subseteq Result
      BY <1>12, <2>1, <2>2 DEF RemoteLost, MarkUnknown, TypeInv, TypeOK, Result
    <2> QED
      BY <1>12, <2>3, LeaveType, LedgerAssumption
      DEF RemoteLost, MarkUnknown, TypeInv, TypeOK, NothingYet
  <1>13. ASSUME NEW s \in Session, Crash(s) PROVE TypeInv'
    BY <1>13, LeaveType, AtWork, LedgerAssumption
    DEF Crash, TypeInv, TypeOK, NothingYet
  <1>14. ASSUME NEW s \in Session, NEW t \in watch, Watchdog(s, t) PROVE TypeInv'
    <2>1. db \in Row
      BY DEF TypeInv, TypeOK, NothingYet
    <2>2. db' \in Row
      BY <1>14, <2>1, RowOperators DEF Watchdog
    <2>3. /\ cache' \in [Session -> Row \union {NoRow}]
          /\ pc' \in [Session -> Phase]
          /\ \A r \in Session : pc'[r] # "idle" => cache'[r] # NoRow
      BY <1>14, <2>2, HoldType DEF Watchdog, TypeInv, TypeOK, Phase
    <2> QED
      BY <1>14, <2>2, <2>3, LedgerAssumption
      DEF Watchdog, TypeInv, TypeOK, NothingYet
  <1>15. ASSUME NEW t \in live, ExpireLease(t) PROVE TypeInv'
    BY <1>15 DEF ExpireLease, TypeInv, TypeOK, NothingYet
  <1>16. ASSUME NEW o \in Operator, Inspect(o) PROVE TypeInv'
    BY <1>16 DEF Inspect, TypeInv, TypeOK, NothingYet
  <1>17. ASSUME NEW o \in Operator, NEW new \in Row, Reconcile(o, new),
                witnessed' \in BOOLEAN
         PROVE  TypeInv'
    <2>1. db' \in Row
      BY <1>17, RowOperators DEF Reconcile
    <2> QED
      BY <1>17, <2>1, LedgerAssumption
      DEF Reconcile, TypeInv, TypeOK, NothingYet
  <1>18. ASSUME NEW o \in Operator,
                ConfirmSucceeded(o) \/ ConfirmFailed(o) \/ RetryUnknown(o)
         PROVE  TypeInv'
    <2>1. db \in Row
      BY <1>18 DEF ConfirmSucceeded, ConfirmFailed, RetryUnknown, Reconcile,
                   TypeInv, TypeOK, NothingYet
    <2>2. /\ [db EXCEPT !.status = "succeeded", !.result = "ok"] \in Row
          /\ [db EXCEPT !.status = "failed", !.result = "error"] \in Row
          /\ [db EXCEPT !.status = "prepared", !.result = "none"] \in Row
      BY <2>1 DEF Row, Status, Terminal, Result
    <2>3. witnessed' \in BOOLEAN
      BY <1>18 DEF ConfirmSucceeded, ConfirmFailed, RetryUnknown, TypeInv, TypeOK
    <2> QED
      BY <1>17, <1>18, <2>2, <2>3 DEF ConfirmSucceeded, ConfirmFailed, RetryUnknown
  <1>19. CASE UNCHANGED vars
    BY <1>19 DEF vars, TypeInv, TypeOK, NothingYet
  <1> QED
    BY <1>1, <1>2, <1>3, <1>4, <1>5, <1>6, <1>7, <1>8, <1>9, <1>10, <1>11,
       <1>12, <1>13, <1>14, <1>15, <1>16, <1>18, <1>19
    DEF Next, Progress

\* Whatever the sessions, operators and clock do, every variable keeps its type.
THEOREM LedgerTypes == Spec => []TypeOK
  <1>1. TypeInv => TypeOK
    BY DEF TypeInv
  <1> QED BY <1>1, TypeInit, TypeStep, PTL DEF Spec

-----------------------------------------------------------------------------
(* A call that is not retry-safe is never issued again *)

\* A session at work is never at work on a row that is not there; a committed
\* change of status comes from the change the session made to its object.
LEMMA FlushStatus ==
  ASSUME db \in Row, NEW loaded \in Row, NEW new \in Row
  PROVE  Flush(loaded, new).status \in {db.status, new.status}
  BY FlushType DEF Row

\* Without retry_safe an expired lease leads to "unknown", not to "prepared".
LEMMA RecoveredStatus ==
  ASSUME NEW row \in Row, ~retrySafe
  PROVE  Recovered(row).status = "unknown"
  BY DEF Recovered, Retryable, Row

LEMMA UnsafeInit == Init => UnsafeInv
  BY DEF Init, UnsafeInv

LEMMA UnsafeStep == TypeInv /\ UnsafeInv /\ [Next]_vars => UnsafeInv'
  <1> SUFFICES ASSUME TypeInv, UnsafeInv, [Next]_vars, ~retrySafe'
               PROVE  UnsafeInv'
    BY DEF UnsafeInv
  <1> USE DEF ledgerVars, sessionVars, historyVars
  <1>1. ~retrySafe
    BY DEF Next, Progress, vars, Prepare, ReturnCached, RefuseClaim, GiveUpExpired,
           Claim, Refresh, CircuitOpen, StartCall, QuotaDenied, CompleteDenied,
           RemoteAnswer, RemoteLost, Crash, Watchdog, ExpireLease, Inspect,
           ConfirmSucceeded, ConfirmFailed, RetryUnknown, Reconcile, Complete,
           MarkUnknown
  <1>2. /\ ~reissued
        /\ claims > 0 => db # NoRow /\ db.status # "prepared"
        /\ \A s \in Session :
             /\ pc[s] = "loaded" /\ cache[s].status = "prepared" => s \in early
             /\ pc[s] \in {"claimed", "ready"} => s \in early
    BY <1>1 DEF UnsafeInv
  <1>3. /\ pc \in [Session -> Phase] /\ cache \in [Session -> Row \union {NoRow}]
        /\ claims \in Nat /\ db \in Row \union {NoRow} /\ NoRow \notin Row
    BY LedgerAssumption DEF TypeInv, TypeOK
  <1>4. ASSUME NEW s \in Session, Prepare(s) PROVE UnsafeInv'
    <2>1. claims' > 0 => db' # NoRow /\ db'.status # "prepared"
      BY <1>2, <1>4 DEF Prepare
    <2>2. claims = 0 => s \in early'
      BY <1>4 DEF Prepare
    <2>3. claims # 0 => cache'[s].status # "prepared"
      BY <1>3, <1>4, <2>1 DEF Prepare, Hold
    <2> QED BY <1>2, <1>3, <1>4, <2>1, <2>2, <2>3 DEF Prepare, Hold, UnsafeInv
  <1>5. ASSUME NEW s \in Session, Leave(s), UNCHANGED <<claims, reissued>>,
               claims > 0 => db' # NoRow /\ db'.status # "prepared"
        PROVE  UnsafeInv'
    BY <1>2, <1>3, <1>5 DEF Leave, UnsafeInv
  <1>6. ASSUME NEW s \in Session, ReturnCached(s) PROVE UnsafeInv'
    <2>1. cache[s] \in Row /\ db \in Row
      BY <1>6, AtWork DEF ReturnCached
    <2>2. /\ [cache[s] EXCEPT !.version = @ + 1] \in Row
          /\ [cache[s] EXCEPT !.version = @ + 1].status = cache[s].status
      BY <2>1, RowOperators DEF Row
    <2>3. db' \in Row /\ db'.status = db.status
      BY <1>6, <2>1, <2>2, FlushType DEF ReturnCached, Row
    <2> QED BY <1>2, <1>3, <1>5, <1>6, <2>3 DEF ReturnCached
  <1>7. ASSUME NEW s \in Session, RefuseClaim(s) \/ Crash(s) PROVE UnsafeInv'
    BY <1>2, <1>5, <1>7 DEF RefuseClaim, Crash
  <1>8. ASSUME NEW s \in Session, GiveUpExpired(s) PROVE UnsafeInv'
    <2>1. cache[s] \in Row /\ db \in Row
      BY <1>8, AtWork DEF GiveUpExpired
    <2>2. Recovered(cache[s]) \in Row /\ Recovered(cache[s]).status = "unknown"
      BY <1>1, <2>1, RowOperators, RecoveredStatus
    <2> DEFINE new == Recovered(cache[s])
    <2>4. db' = Flush(cache[s], new)
      BY <1>8 DEF GiveUpExpired
    <2>5. new \in Row /\ new.status = "unknown"
      BY <2>2
    <2> HIDE DEF new
    <2>6. /\ Flush(cache[s], new) \in Row
          /\ Flush(cache[s], new).status \in {db.status, new.status}
      BY <2>1, <2>5, FlushType, FlushStatus
    <2>3. db' \in Row /\ db'.status \in {db.status, "unknown"}
      BY <2>4, <2>5, <2>6
    <2> QED BY <1>2, <1>3, <1>5, <1>8, <2>3 DEF GiveUpExpired
  <1>9. ASSUME NEW s \in Session, Claim(s) PROVE UnsafeInv'
    <2> DEFINE new == Claimed(cache[s], claims + 1)
    <2>1. cache[s] \in Row /\ db \in Row /\ claims + 1 \in Nat
      BY <1>3, <1>9, AtWork DEF Claim
    <2>2. cache[s].status = "prepared" /\ s \in early
      BY <1>1, <1>2, <1>9 DEF Claim, Claimable, Retryable
    <2>3. new \in Row /\ new.status = "executing"
      BY <2>1, RowOperators DEF Claimed, Row
    <2>4. db' = Flush(cache[s], new)
      BY <1>9, <2>2 DEF Claim
    <2>5. db' \in Row /\ db'.status = "executing"
      BY <2>1, <2>2, <2>3, <2>4, FlushType
    <2>6. /\ pc' = [pc EXCEPT ![s] = "claimed"] /\ UNCHANGED <<early, reissued>>
          /\ \A r \in Session : r # s => cache'[r] = cache[r]
      BY <1>3, <1>9 DEF Claim, Hold
    <2> QED BY <1>2, <1>3, <2>2, <2>5, <2>6 DEF UnsafeInv
  <1>10. ASSUME NEW s \in Session, Refresh(s) PROVE UnsafeInv'
    BY <1>2, <1>3, <1>10 DEF Refresh, Hold, UnsafeInv
  <1>11. ASSUME NEW s \in Session, NEW status \in Terminal, NEW result \in {"ok", "error"},
                pc[s] # "idle", Complete(s, status, result)
         PROVE  UnsafeInv'
    <2>1. cache[s] \in Row /\ db \in Row
      BY <1>11, AtWork
    <2> DEFINE new == Settled(cache[s], status, result)
    <2>2. new \in Row /\ new.status = status
      BY <1>11, <2>1, RowOperators DEF Settled, Row
    <2>3. db' = db \/ db' = Flush(cache[s], new)
      BY <1>11 DEF Complete
    <2> HIDE DEF new
    <2>4. db' \in Row /\ db'.status \in {db.status, status}
      <3>1. /\ Flush(cache[s], new) \in Row
            /\ Flush(cache[s], new).status \in {db.status, new.status}
        BY <2>1, <2>2, FlushType, FlushStatus
      <3> QED BY <2>1, <2>2, <2>3, <3>1
    <2>5. Leave(s) /\ UNCHANGED <<claims, reissued>> /\ status # "prepared"
      BY <1>11 DEF Complete, Terminal
    <2> QED BY <1>2, <1>3, <1>5, <2>4, <2>5
  <1>12. ASSUME NEW s \in Session, CircuitOpen(s) \/ CompleteDenied(s) PROVE UnsafeInv'
    BY <1>11, <1>12 DEF CircuitOpen, CompleteDenied, Terminal
  <1>13. ASSUME NEW s \in Session, NEW result \in {"ok", "error"}, RemoteAnswer(s, result)
         PROVE  UnsafeInv'
    BY <1>11, <1>13 DEF RemoteAnswer, Terminal
  <1>14. ASSUME NEW s \in Session, StartCall(s) PROVE UnsafeInv'
    BY <1>2, <1>3, <1>14 DEF StartCall, UnsafeInv
  <1>15. ASSUME NEW s \in Session, QuotaDenied(s) PROVE UnsafeInv'
    BY <1>2, <1>3, <1>15 DEF QuotaDenied, Hold, UnsafeInv
  <1>16. ASSUME NEW s \in Session, RemoteLost(s) PROVE UnsafeInv'
    <2>1. cache[s] \in Row /\ db \in Row
      BY <1>16, AtWork DEF RemoteLost
    <2>2. Unknown(cache[s]) \in Row /\ Unknown(cache[s]).status = "unknown"
      BY <2>1, RowOperators DEF Unknown, Row
    <2>3. db' = db \/ db' = Flush(cache[s], Unknown(cache[s]))
      <3>1. MarkUnknown(s)
        BY <1>16 DEF RemoteLost
      <3> QED BY <3>1, Zenon DEF MarkUnknown
    <2> DEFINE new == Unknown(cache[s])
    <2> HIDE DEF new
    <2>4. db' \in Row /\ db'.status \in {db.status, "unknown"}
      <3>1. new \in Row /\ new.status = "unknown" /\ (db' = db \/ db' = Flush(cache[s], new))
        BY <2>2, <2>3 DEF new
      <3>2. /\ Flush(cache[s], new) \in Row
            /\ Flush(cache[s], new).status \in {db.status, new.status}
        BY <2>1, <3>1, FlushType, FlushStatus
      <3> QED BY <2>1, <3>1, <3>2
    <2>5. Leave(s) /\ UNCHANGED <<claims, reissued>>
      BY <1>16 DEF RemoteLost, MarkUnknown
    <2> QED BY <1>2, <1>3, <1>5, <2>4, <2>5
  <1>17. ASSUME NEW s \in Session, NEW t \in watch, Watchdog(s, t) PROVE UnsafeInv'
    <2>1. db \in Row
      BY DEF TypeInv, TypeOK, NothingYet
    <2>2. db' = db \/ (db' = Recovered(db) /\ db'.status = "unknown")
      <3>1. db' = db \/ db' = Recovered(db)
        BY <1>17, Zenon DEF Watchdog
      <3> QED BY <1>1, <2>1, <3>1, RecoveredStatus
    <2>3. db' \in Row
      BY <2>1, <2>2, RowOperators
    <2>4. UNCHANGED <<cache, pc, claims, reissued>> /\ early' = early \ {s} /\ pc[s] = "idle"
      BY <1>1, <1>17, <2>1, RecoveredStatus DEF Watchdog
    <2> QED BY <1>2, <1>3, <2>2, <2>3, <2>4 DEF UnsafeInv
  <1>18. ASSUME NEW t \in live, ExpireLease(t) PROVE UnsafeInv'
    BY <1>2, <1>18 DEF ExpireLease, UnsafeInv
  <1>19. ASSUME NEW o \in Operator, Inspect(o) PROVE UnsafeInv'
    BY <1>2, <1>19 DEF Inspect, UnsafeInv
  <1>20. ASSUME NEW o \in Operator, ConfirmSucceeded(o) \/ ConfirmFailed(o)
         PROVE  UnsafeInv'
    <2>1. db \in Row
      BY <1>20 DEF ConfirmSucceeded, ConfirmFailed, Reconcile, TypeInv, TypeOK, NothingYet
    <2>2. db' \in Row /\ db'.status \in {"succeeded", "failed"}
      <3>1. \A v \in {"succeeded", "failed"}, r \in {"ok", "error"} :
              /\ [db EXCEPT !.status = v, !.result = r] \in Row
              /\ [db EXCEPT !.status = v, !.result = r].status = v
        BY <2>1 DEF Row, Status, Terminal, Result
      <3>2. PICK row \in Row : /\ db' = [row EXCEPT !.version = @ + 1]
                               /\ row.status \in {"succeeded", "failed"}
        BY <1>20, <3>1 DEF ConfirmSucceeded, ConfirmFailed, Reconcile
      <3> QED BY <3>2, RowOperators DEF Row
    <2>3. UNCHANGED <<cache, pc, claims, early, reissued>>
      BY <1>20 DEF ConfirmSucceeded, ConfirmFailed, Reconcile
    <2> QED BY <1>2, <1>3, <2>2, <2>3 DEF UnsafeInv
  <1>21. ASSUME NEW o \in Operator, RetryUnknown(o) PROVE UnsafeInv'
    BY <1>1, <1>21 DEF RetryUnknown, Retryable
  <1>22. CASE UNCHANGED vars
    BY <1>2, <1>22 DEF vars, UnsafeInv
  <1> QED
    BY <1>4, <1>6, <1>7, <1>8, <1>9, <1>10, <1>12, <1>13, <1>14, <1>15, <1>16,
       <1>17, <1>18, <1>19, <1>20, <1>21, <1>22
    DEF Next, Progress

\* Queue redeliveries, watchdogs, crashes, expired leases and reconciliations of
\* any number of overlapping sessions never re-issue a call that is not retry-safe.
THEOREM UnsafeCallsNeverReissued == Spec => []UnsafeNeverReissued
  <1>1. UnsafeInv => UnsafeNeverReissued
    BY DEF UnsafeInv, UnsafeNeverReissued
  <1> QED BY <1>1, TypeInit, TypeStep, UnsafeInit, UnsafeStep, PTL DEF Spec

-----------------------------------------------------------------------------
(* Success is never invented *)

\* A flush mixes columns of two rows that do not speak of success.
LEMMA FlushUnproven ==
  ASSUME db \in Row, NEW loaded \in Row, NEW new \in Row,
         Unproven(db), Unproven(new)
  PROVE  Unproven(Flush(loaded, new))
  BY FlushType DEF Row, Unproven

\* No transformation but the settlement with an answer makes a success.
LEMMA OperatorsUnproven ==
  ASSUME NEW row \in Row, Unproven(row)
  PROVE  /\ Unproven(Recovered(row))
         /\ \A token \in Nat : Unproven(Claimed(row, token))
         /\ Unproven(Settled(row, "failed", "error"))
         /\ Unproven(Unknown(row))
         /\ Unproven([row EXCEPT !.version = @ + 1])
  <1>1. Unproven(Recovered(row))
    BY DEF Recovered, Unproven, Row
  <1>2. \A token \in Nat : Unproven(Claimed(row, token))
    BY DEF Claimed, Unproven, Row
  <1>3. Unproven(Settled(row, "failed", "error"))
    BY DEF Settled, Unproven, Row
  <1>4. Unproven(Unknown(row))
    BY DEF Unknown, Unproven, Row
  <1>5. Unproven([row EXCEPT !.version = @ + 1])
    BY DEF Unproven, Row
  <1> QED BY <1>1, <1>2, <1>3, <1>4, <1>5

LEMMA WitnessInit == Init => WitnessInv
  BY DEF Init, WitnessInv

LEMMA WitnessStep == TypeInv /\ WitnessInv /\ [Next]_vars => WitnessInv'
  <1> SUFFICES ASSUME TypeInv, WitnessInv, [Next]_vars, ~witnessed'
               PROVE  WitnessInv'
    BY DEF WitnessInv
  <1> USE DEF ledgerVars, sessionVars, historyVars
  <1>1. ~witnessed
    BY DEF Next, Progress, vars, Prepare, ReturnCached, RefuseClaim, GiveUpExpired,
           Claim, Refresh, CircuitOpen, StartCall, QuotaDenied, CompleteDenied,
           RemoteAnswer, RemoteLost, Crash, Watchdog, ExpireLease, Inspect,
           ConfirmSucceeded, ConfirmFailed, RetryUnknown, Reconcile
  <1>2. /\ db # NoRow => Unproven(db)
        /\ \A s \in Session : pc[s] # "idle" => Unproven(cache[s])
        /\ "ok" \notin handed
    BY <1>1 DEF WitnessInv
  <1>3. /\ pc \in [Session -> Phase] /\ cache \in [Session -> Row \union {NoRow}]
        /\ claims \in Nat /\ NoRow \notin Row
    BY LedgerAssumption DEF TypeInv, TypeOK
  <1>4. ASSUME NEW s \in Session, NEW row \in Row, NEW phase, Hold(s, row, phase),
               Unproven(row), db' # NoRow => Unproven(db'), UNCHANGED handed
        PROVE  WitnessInv'
    BY <1>2, <1>3, <1>4 DEF Hold, WitnessInv
  <1>5. ASSUME NEW s \in Session, Leave(s), db' # NoRow => Unproven(db'),
               "ok" \notin handed'
        PROVE  WitnessInv'
    BY <1>2, <1>3, <1>5 DEF Leave, WitnessInv
  <1>6. ASSUME NEW s \in Session, Prepare(s) PROVE WitnessInv'
    <2>1. NewRow \in Row /\ Unproven(NewRow)
      BY DEF NewRow, Row, Status, Terminal, Result, Unproven
    <2>2. db' \in Row /\ Unproven(db')
      BY <1>2, <1>6, <2>1 DEF Prepare, TypeInv, TypeOK
    <2> QED BY <1>4, <1>6, <2>2 DEF Prepare
  <1>7. ASSUME NEW s \in Session, ReturnCached(s) PROVE WitnessInv'
    <2> DEFINE new == [cache[s] EXCEPT !.version = @ + 1]
    <2>1. cache[s] \in Row /\ db \in Row
      BY <1>7, AtWork DEF ReturnCached
    <2>2. new \in Row /\ Unproven(new) /\ Unproven(db)
      BY <1>2, <1>3, <1>7, <2>1, RowOperators, OperatorsUnproven DEF ReturnCached
    <2>3. db' = Flush(cache[s], new) /\ handed' = handed \union {db'.result} /\ Leave(s)
      BY <1>7 DEF ReturnCached
    <2> HIDE DEF new
    <2>4. Unproven(db')
      BY <2>1, <2>2, <2>3, FlushUnproven
    <2> QED BY <1>2, <1>5, <2>3, <2>4 DEF Unproven
  <1>8. ASSUME NEW s \in Session, RefuseClaim(s) \/ Crash(s) PROVE WitnessInv'
    BY <1>2, <1>5, <1>8 DEF RefuseClaim, Crash
  <1>9. ASSUME NEW s \in Session, GiveUpExpired(s) PROVE WitnessInv'
    <2> DEFINE new == Recovered(cache[s])
    <2>1. cache[s] \in Row /\ db \in Row
      BY <1>9, AtWork DEF GiveUpExpired
    <2>2. new \in Row /\ Unproven(new) /\ Unproven(db)
      BY <1>2, <1>3, <1>9, <2>1, RowOperators, OperatorsUnproven DEF GiveUpExpired
    <2>3. db' = Flush(cache[s], new) /\ UNCHANGED handed /\ Leave(s)
      BY <1>9 DEF GiveUpExpired
    <2> HIDE DEF new
    <2>4. Unproven(db')
      BY <2>1, <2>2, <2>3, FlushUnproven
    <2> QED BY <1>2, <1>5, <2>3, <2>4
  <1>10. ASSUME NEW s \in Session, Claim(s) PROVE WitnessInv'
    <2> DEFINE from == IF cache[s].status = "prepared" THEN cache[s]
                                                       ELSE Recovered(cache[s])
    <2> DEFINE new == Claimed(from, claims + 1)
    <2>1. cache[s] \in Row /\ db \in Row /\ claims + 1 \in Nat
      BY <1>3, <1>10, AtWork DEF Claim
    <2>2. Unproven(cache[s]) /\ Unproven(db)
      BY <1>2, <1>3, <1>10, <2>1 DEF Claim
    <2>3. from \in Row /\ Unproven(from)
      BY <2>1, <2>2, RowOperators, OperatorsUnproven
    <2>4. db' = Flush(cache[s], new) /\ UNCHANGED handed /\ Hold(s, new, "claimed")
      BY <1>10 DEF Claim
    <2> HIDE DEF from
    <2>5. new \in Row /\ Unproven(new)
      BY <2>1, <2>3, RowOperators, OperatorsUnproven
    <2> HIDE DEF new
    <2>6. Unproven(db')
      BY <2>1, <2>2, <2>4, <2>5, FlushUnproven
    <2> QED BY <1>4, <2>4, <2>5, <2>6
  <1>11. ASSUME NEW s \in Session, Refresh(s) \/ QuotaDenied(s) PROVE WitnessInv'
    <2>1. db \in Row /\ Unproven(db)
      BY <1>2, <1>3, <1>11, AtWork DEF Refresh, QuotaDenied
    <2>2. PICK phase \in {"ready", "denied"} : Hold(s, db, phase)
      BY <1>11 DEF Refresh, QuotaDenied
    <2>3. UNCHANGED <<db, handed>>
      BY <1>11 DEF Refresh, QuotaDenied
    <2> QED BY <1>4, <2>1, <2>2, <2>3
  <1>12. ASSUME NEW s \in Session, pc[s] # "idle", Complete(s, "failed", "error")
         PROVE  WitnessInv'
    <2> DEFINE new == Settled(cache[s], "failed", "error")
    <2>1. cache[s] \in Row /\ db \in Row /\ "failed" \in Terminal
      BY <1>12, AtWork DEF Terminal
    <2>2. new \in Row /\ Unproven(new) /\ Unproven(db) /\ Unproven(cache[s])
      BY <1>2, <1>3, <1>12, <2>1, RowOperators, OperatorsUnproven
    <2>3. /\ Leave(s)
          /\ \/ UNCHANGED db /\ handed' = handed \union {cache[s].result}
             \/ db' = Flush(cache[s], new) /\ handed' = handed \union {db'.result}
             \/ UNCHANGED db /\ handed' = handed \union {"error"}
      BY <1>12 DEF Complete
    <2> HIDE DEF new
    <2>4. Unproven(db')
      BY <2>1, <2>2, <2>3, FlushUnproven
    <2>5. "ok" \notin handed'
      BY <1>2, <2>2, <2>3, <2>4 DEF Unproven
    <2> QED BY <1>5, <2>3, <2>4, <2>5
  <1>13. ASSUME NEW s \in Session, CircuitOpen(s) \/ CompleteDenied(s) PROVE WitnessInv'
    BY <1>12, <1>13 DEF CircuitOpen, CompleteDenied
  <1>14. ASSUME NEW s \in Session, NEW result \in {"ok", "error"}, RemoteAnswer(s, result)
         PROVE  WitnessInv'
    <2>1. result = "error"
      BY <1>14 DEF RemoteAnswer
    <2> QED BY <1>12, <1>14, <2>1 DEF RemoteAnswer
  <1>15. ASSUME NEW s \in Session, StartCall(s) PROVE WitnessInv'
    BY <1>2, <1>3, <1>15 DEF StartCall, WitnessInv
  <1>16. ASSUME NEW s \in Session, RemoteLost(s) PROVE WitnessInv'
    <2> DEFINE new == Unknown(cache[s])
    <2>1. cache[s] \in Row /\ db \in Row /\ MarkUnknown(s)
      BY <1>16, AtWork DEF RemoteLost
    <2>2. new \in Row /\ Unproven(new) /\ Unproven(db)
      BY <1>2, <1>3, <1>16, <2>1, RowOperators, OperatorsUnproven DEF RemoteLost
    <2>3. (UNCHANGED db) \/ db' = Flush(cache[s], new)
      BY <2>1, Zenon DEF MarkUnknown
    <2>4. Leave(s) /\ "ok" \notin handed'
      BY <1>2, <2>1 DEF MarkUnknown
    <2> HIDE DEF new
    <2>5. Unproven(db')
      BY <2>1, <2>2, <2>3, FlushUnproven
    <2> QED BY <1>5, <2>4, <2>5
  <1>17. ASSUME NEW s \in Session, NEW t \in watch, Watchdog(s, t) PROVE WitnessInv'
    <2>1. db \in Row
      BY DEF TypeInv, TypeOK, NothingYet
    <2>2. db' = db \/ db' = Recovered(db)
      BY <1>17, Zenon DEF Watchdog
    <2>3. db' \in Row /\ Unproven(db')
      BY <1>2, <1>3, <2>1, <2>2, RowOperators, OperatorsUnproven
    <2>4. Hold(s, db', "loaded") \/ UNCHANGED <<cache, pc>>
      BY <1>17, Zenon DEF Watchdog
    <2>5. UNCHANGED handed
      BY <1>17 DEF Watchdog
    <2>6. CASE Hold(s, db', "loaded")
      BY <1>4, <2>3, <2>5, <2>6
    <2>7. CASE UNCHANGED <<cache, pc>>
      BY <1>2, <2>3, <2>5, <2>7 DEF WitnessInv
    <2> QED BY <2>4, <2>6, <2>7
  <1>18. ASSUME NEW t \in live, ExpireLease(t) PROVE WitnessInv'
    BY <1>2, <1>18 DEF ExpireLease, WitnessInv
  <1>19. ASSUME NEW o \in Operator, Inspect(o) PROVE WitnessInv'
    BY <1>2, <1>19 DEF Inspect, WitnessInv
  <1>20. ASSUME NEW o \in Operator, ConfirmSucceeded(o) PROVE WitnessInv'
    BY <1>20 DEF ConfirmSucceeded
  <1>21. ASSUME NEW o \in Operator, ConfirmFailed(o) \/ RetryUnknown(o)
         PROVE  WitnessInv'
    <2>1. db \in Row
      BY <1>21 DEF ConfirmFailed, RetryUnknown, Reconcile, TypeInv, TypeOK, NothingYet
    <2>2. PICK row \in Row : db' = [row EXCEPT !.version = @ + 1] /\ Unproven(row)
      <3>1. \A v \in {"failed", "prepared"}, r \in {"error", "none"} :
              /\ [db EXCEPT !.status = v, !.result = r] \in Row
              /\ Unproven([db EXCEPT !.status = v, !.result = r])
        BY <2>1 DEF Row, Status, Terminal, Result, Unproven
      <3> QED BY <1>21, <3>1 DEF ConfirmFailed, RetryUnknown, Reconcile
    <2>3. Unproven(db')
      BY <2>2, OperatorsUnproven
    <2>4. UNCHANGED <<cache, pc, handed>>
      BY <1>21 DEF ConfirmFailed, RetryUnknown, Reconcile
    <2> QED BY <1>2, <2>3, <2>4 DEF WitnessInv
  <1>22. CASE UNCHANGED vars
    BY <1>2, <1>22 DEF vars, WitnessInv
  <1> QED
    BY <1>6, <1>7, <1>8, <1>9, <1>10, <1>11, <1>13, <1>14, <1>15, <1>16, <1>17,
       <1>18, <1>19, <1>20, <1>21, <1>22
    DEF Next, Progress

\* No overlap of sessions, late write, crash or mixed flush makes a success that
\* neither the remote server nor an operator has vouched for.
THEOREM SuccessNeverInvented == Spec => []SuccessIsWitnessed
  <1>1. WitnessInv => SuccessIsWitnessed
    BY DEF WitnessInv, SuccessIsWitnessed, Unproven
  <1> QED BY <1>1, TypeInit, TypeStep, WitnessInit, WitnessStep, PTL DEF Spec

-----------------------------------------------------------------------------
(* Jobs that never overlap: the row under one session *)

\* The row is within its budget and its columns agree.
SoundRow ==
  db # NoRow =>
    /\ db.attempts <= MaxAttempts
    /\ db.status = "prepared" => db.attempts < MaxAttempts
    /\ RowIsCoherent

\* The object of the session is the committed row, unless an operator moved a
\* row the session can only refuse; past its claim the session owns the lease.
HoldsTheRow ==
  \A s \in Session :
    /\ pc[s] = "loaded" => cache[s] = db \/ cache[s].status = "unknown"
    /\ pc[s] \in {"claimed", "ready", "inflight", "denied"} =>
         cache[s] = db /\ db.status = "executing" /\ db.token = lease[s]

\* Versions grow with every change, so equal versions are equal rows.
SeenIsPast ==
  \A o \in Operator : seen[o] # NoRow =>
    /\ db # NoRow
    /\ seen[o].version <= db.version
    /\ seen[o].version = db.version => seen[o] = db

SerialInv == OneSession => SoundRow /\ HoldsTheRow /\ SeenIsPast

\* The changes of the row that a session makes with an object that is the row.
SessionMove(row, new) ==
  \/ row.status \in Terminal /\ new = [row EXCEPT !.version = @ + 1]
  \/ row.status = "executing" /\ new \in {Recovered(row), Unknown(row)}
  \/ /\ \/ row.status = "prepared"
        \/ row.status = "executing" /\ Retryable(row)
     /\ \E token \in Nat \ {0} :
          new = Claimed(IF row.status = "prepared" THEN row ELSE Recovered(row), token)
  \/ row.status = "executing" /\ new = Settled(row, "succeeded", "ok")
  \/ row.status = "executing" /\ new = Settled(row, "failed", "error")

\* The changes of an unknown row that an operator makes.
OperatorMove(row, new) ==
  /\ row.status = "unknown"
  /\ \/ new = [row EXCEPT !.status = "succeeded", !.result = "ok", !.version = @ + 1]
     \/ new = [row EXCEPT !.status = "failed", !.result = "error", !.version = @ + 1]
     \/ /\ Retryable(row)
        /\ new = [row EXCEPT !.status = "prepared", !.result = "none", !.version = @ + 1]

RowMove ==
  \/ UNCHANGED db
  \/ db = NoRow /\ db' = NewRow
  \/ db # NoRow /\ (SessionMove(db, db') \/ OperatorMove(db, db'))

\* What each transformation does to the columns the argument is about.
LEMMA Columns ==
  ASSUME NEW row \in Row
  PROVE  /\ /\ Recovered(row).status = IF Retryable(row) THEN "prepared" ELSE "unknown"
            /\ Recovered(row).token = 0
            /\ Recovered(row).attempts = row.attempts
            /\ Recovered(row).version = row.version + 1
            /\ Recovered(row).result = row.result
         /\ \A token \in Nat :
              /\ Claimed(row, token).status = "executing"
              /\ Claimed(row, token).token = token
              /\ Claimed(row, token).attempts = row.attempts + 1
              /\ Claimed(row, token).version = row.version + 1
         /\ \A status \in Terminal, result \in {"ok", "error"} :
              /\ Settled(row, status, result).status = status
              /\ Settled(row, status, result).result = result
              /\ Settled(row, status, result).token = 0
              /\ Settled(row, status, result).attempts = row.attempts
              /\ Settled(row, status, result).version = row.version + 1
         /\ /\ Unknown(row).status = "unknown"
            /\ Unknown(row).token = 0
            /\ Unknown(row).attempts = row.attempts
            /\ Unknown(row).version = row.version + 1
  <1>1. /\ Recovered(row).status = IF Retryable(row) THEN "prepared" ELSE "unknown"
        /\ Recovered(row).token = 0
        /\ Recovered(row).attempts = row.attempts
        /\ Recovered(row).version = row.version + 1
        /\ Recovered(row).result = row.result
    BY DEF Recovered, Row
  <1>2. ASSUME NEW token \in Nat
        PROVE  /\ Claimed(row, token).status = "executing"
               /\ Claimed(row, token).token = token
               /\ Claimed(row, token).attempts = row.attempts + 1
               /\ Claimed(row, token).version = row.version + 1
    BY DEF Claimed, Row
  <1>3. ASSUME NEW status \in Terminal, NEW result \in {"ok", "error"}
        PROVE  /\ Settled(row, status, result).status = status
               /\ Settled(row, status, result).result = result
               /\ Settled(row, status, result).token = 0
               /\ Settled(row, status, result).attempts = row.attempts
               /\ Settled(row, status, result).version = row.version + 1
    BY DEF Settled, Row
  <1>4. /\ Unknown(row).status = "unknown"
        /\ Unknown(row).token = 0
        /\ Unknown(row).attempts = row.attempts
        /\ Unknown(row).version = row.version + 1
    BY DEF Unknown, Row
  <1> QED BY <1>1, <1>2, <1>3, <1>4

\* Changes to an object that is the committed row are committed as they are.
LEMMA FlushOwnRow ==
  ASSUME db \in Row, NEW new \in Row
  PROVE  Flush(db, new) = new
  BY DEF Flush, Row

\* Every step changes the row by one of these moves, and leaves the session with
\* the committed row.
LEMMA SerialMoves ==
  ASSUME OneSession, TypeInv, SoundRow, HoldsTheRow, [Next]_vars
  PROVE  RowMove /\ HoldsTheRow'
  <1> USE DEF ledgerVars, sessionVars, historyVars
  <1>1. /\ pc \in [Session -> Phase] /\ cache \in [Session -> Row \union {NoRow}]
        /\ lease \in [Session -> Nat]
        /\ claims \in Nat /\ db \in Row \union {NoRow} /\ NoRow \notin Row
    BY LedgerAssumption DEF TypeInv, TypeOK
  <1>2. ASSUME NEW s \in Session, pc[s] = "loaded", cache[s].status # "unknown"
        PROVE  cache[s] = db /\ db \in Row
    BY <1>2, AtWork DEF HoldsTheRow
  <1>3. ASSUME NEW s \in Session, pc[s] \in {"claimed", "ready", "inflight", "denied"}
        PROVE  /\ cache[s] = db /\ db \in Row /\ db # NoRow
               /\ db.status = "executing" /\ db.token = lease[s]
    BY <1>1, <1>3, AtWork DEF HoldsTheRow
  <1>4. ASSUME NEW s \in Session, Leave(s) PROVE HoldsTheRow'
    BY <1>1, <1>4 DEF Leave, HoldsTheRow, OneSession
  <1>5. ASSUME NEW s \in Session, UNCHANGED <<cache, pc, lease, db>> PROVE HoldsTheRow'
    BY <1>5 DEF HoldsTheRow
  <1>6. ASSUME NEW s \in Session, Prepare(s) PROVE RowMove /\ HoldsTheRow'
    <2>1. RowMove
      BY <1>6 DEF Prepare, RowMove
    <2>2. cache'[s] = db' /\ pc'[s] = "loaded"
      BY <1>1, <1>6 DEF Prepare, Hold
    <2>3. \A r \in Session : r = s
      BY DEF OneSession
    <2> QED BY <2>1, <2>2, <2>3 DEF HoldsTheRow
  <1>7. ASSUME NEW s \in Session, ReturnCached(s) PROVE RowMove /\ HoldsTheRow'
    <2>1. cache[s] = db /\ db \in Row /\ db.status \in Terminal
      BY <1>2, <1>7 DEF ReturnCached, Terminal
    <2>2. db' = [db EXCEPT !.version = @ + 1]
      BY <1>7, <2>1, FlushOwnRow, RowOperators DEF ReturnCached
    <2> QED BY <1>1, <1>4, <1>7, <2>1, <2>2 DEF ReturnCached, RowMove, SessionMove
  <1>8. ASSUME NEW s \in Session, RefuseClaim(s) \/ Crash(s) PROVE RowMove /\ HoldsTheRow'
    BY <1>4, <1>8 DEF RefuseClaim, Crash, RowMove
  <1>9. ASSUME NEW s \in Session, GiveUpExpired(s) PROVE RowMove /\ HoldsTheRow'
    <2>1. cache[s] = db /\ db \in Row /\ db.status = "executing"
      BY <1>2, <1>9 DEF GiveUpExpired
    <2>2. db' = Recovered(db)
      BY <1>9, <2>1, FlushOwnRow, RowOperators DEF GiveUpExpired
    <2> QED BY <1>1, <1>4, <1>9, <2>1, <2>2 DEF GiveUpExpired, RowMove, SessionMove
  <1>10. ASSUME NEW s \in Session, Claim(s) PROVE RowMove /\ HoldsTheRow'
    <2> DEFINE from == IF cache[s].status = "prepared" THEN cache[s]
                                                       ELSE Recovered(cache[s])
    <2> DEFINE new == Claimed(from, claims + 1)
    <2>1. cache[s] = db /\ db \in Row /\ db # NoRow
      BY <1>1, <1>2, <1>10 DEF Claim, Claimable
    <2>2. from \in Row /\ claims + 1 \in Nat \ {0}
      <3>1. from \in Row
        BY <2>1, RowOperators
      <3> QED BY <1>1, <3>1
    <2>3. /\ db' = Flush(cache[s], new) /\ Hold(s, new, "claimed")
          /\ lease' = [lease EXCEPT ![s] = claims + 1] /\ Claimable(cache[s])
      BY <1>10 DEF Claim
    <2>4. new \in Row /\ new.status = "executing" /\ new.token = claims + 1
      <3> HIDE DEF from
      <3> QED BY <2>2, RowOperators, Columns
    <2>5. db' = new
      <3> HIDE DEF new
      <3> QED BY <2>1, <2>3, <2>4, FlushOwnRow
    <2>6. RowMove
      BY <2>1, <2>2, <2>3, <2>5 DEF RowMove, SessionMove, Claimable
    <2>7. cache'[s] = db' /\ lease'[s] = claims + 1 /\ \A r \in Session : r = s
      BY <1>1, <2>3, <2>5 DEF Hold, OneSession
    <2> HIDE DEF new
    <2> QED BY <1>1, <2>3, <2>4, <2>5, <2>6, <2>7 DEF HoldsTheRow, Hold
  <1>11. ASSUME NEW s \in Session, Refresh(s) \/ QuotaDenied(s)
         PROVE  RowMove /\ HoldsTheRow'
    <2>1. PICK phase \in {"ready", "denied"} : Hold(s, db, phase)
      BY <1>11 DEF Refresh, QuotaDenied
    <2>2. UNCHANGED <<db, lease>> /\ pc[s] \in {"claimed", "ready"}
      BY <1>11 DEF Refresh, QuotaDenied
    <2>3. db.status = "executing" /\ db.token = lease[s]
      BY <1>3, <2>2
    <2>4. cache'[s] = db /\ \A r \in Session : r = s
      BY <1>1, <2>1 DEF Hold, OneSession
    <2> QED BY <2>2, <2>3, <2>4 DEF RowMove, HoldsTheRow
  <1>12. ASSUME NEW s \in Session, NEW status \in Terminal, NEW result \in {"ok", "error"},
                pc[s] \in {"ready", "inflight", "denied"}, Complete(s, status, result),
                <<status, result>> \in {<<"succeeded", "ok">>, <<"failed", "error">>}
         PROVE  RowMove /\ HoldsTheRow'
    <2>1. /\ cache[s] = db /\ db \in Row /\ db # NoRow
          /\ db.status = "executing" /\ db.token = lease[s]
      BY <1>3, <1>12
    <2>2. db' = Flush(db, Settled(db, status, result))
      BY <1>12, <2>1 DEF Complete, Fenced, Terminal
    <2>3. db' = Settled(db, status, result)
      BY <2>1, <2>2, FlushOwnRow, RowOperators
    <2>4. Leave(s)
      BY <1>12 DEF Complete
    <2> QED BY <1>4, <1>12, <2>1, <2>3, <2>4 DEF RowMove, SessionMove
  <1>13. ASSUME NEW s \in Session, CircuitOpen(s) \/ CompleteDenied(s)
         PROVE  RowMove /\ HoldsTheRow'
    BY <1>12, <1>13 DEF CircuitOpen, CompleteDenied, Terminal
  <1>14. ASSUME NEW s \in Session, NEW result \in {"ok", "error"}, RemoteAnswer(s, result)
         PROVE  RowMove /\ HoldsTheRow'
    BY <1>12, <1>14 DEF RemoteAnswer, Terminal
  <1>15. ASSUME NEW s \in Session, StartCall(s) PROVE RowMove /\ HoldsTheRow'
    <2>1. /\ UNCHANGED <<db, cache, lease>> /\ pc[s] = "ready"
          /\ pc' = [pc EXCEPT ![s] = "inflight"]
      BY <1>15 DEF StartCall
    <2>2. cache[s] = db /\ db.status = "executing" /\ db.token = lease[s]
      BY <1>3, <2>1
    <2>3. \A r \in Session : r = s
      BY DEF OneSession
    <2> QED BY <1>1, <2>1, <2>2, <2>3 DEF RowMove, HoldsTheRow
  <1>16. ASSUME NEW s \in Session, RemoteLost(s) PROVE RowMove /\ HoldsTheRow'
    <2>1. /\ cache[s] = db /\ db \in Row /\ db # NoRow
          /\ db.status = "executing" /\ db.token = lease[s]
      BY <1>3, <1>16 DEF RemoteLost
    <2>2. MarkUnknown(s) /\ Fenced(s)
      BY <1>16, <2>1 DEF RemoteLost, Fenced
    <2>3. db' = Flush(db, Unknown(db)) /\ Leave(s)
      BY <2>1, <2>2 DEF MarkUnknown
    <2>4. db' = Unknown(db)
      BY <2>1, <2>3, FlushOwnRow, RowOperators
    <2> QED BY <1>4, <2>1, <2>3, <2>4 DEF RowMove, SessionMove
  <1>17. ASSUME NEW s \in Session, NEW t \in watch, Watchdog(s, t)
         PROVE  RowMove /\ HoldsTheRow'
    <2>1. db \in Row /\ db # NoRow /\ pc[s] = "idle" /\ UNCHANGED lease
      BY <1>1, <1>17 DEF Watchdog, TypeInv, NothingYet
    <2>2. CASE db.status = "executing" /\ Expired(db)
      <3>1. db' = Recovered(db)
        BY <1>17, <2>2 DEF Watchdog
      <3>2. Hold(s, db', "loaded") \/ UNCHANGED <<cache, pc>>
        BY <1>17, Zenon DEF Watchdog
      <3>3. \A r \in Session : r = s
        BY DEF OneSession
      <3>4. HoldsTheRow'
        BY <1>1, <2>1, <3>2, <3>3 DEF Hold, HoldsTheRow
      <3> QED BY <2>1, <2>2, <3>1, <3>4 DEF RowMove, SessionMove
    <2>3. CASE ~(db.status = "executing" /\ Expired(db))
      <3>1. UNCHANGED <<db, cache, pc>>
        BY <1>17, <2>3 DEF Watchdog
      <3> QED BY <1>5, <2>1, <3>1 DEF RowMove
    <2> QED BY <2>2, <2>3
  <1>18. ASSUME NEW t \in live, ExpireLease(t) PROVE RowMove /\ HoldsTheRow'
    BY <1>18 DEF ExpireLease, RowMove, HoldsTheRow
  <1>19. ASSUME NEW o \in Operator, Inspect(o) PROVE RowMove /\ HoldsTheRow'
    BY <1>19 DEF Inspect, RowMove, HoldsTheRow
  <1>20. ASSUME NEW o \in Operator,
                ConfirmSucceeded(o) \/ ConfirmFailed(o) \/ RetryUnknown(o)
         PROVE  RowMove /\ HoldsTheRow'
    <2>1. db \in Row /\ db # NoRow /\ db.status = "unknown" /\ UNCHANGED <<cache, pc, lease>>
      BY <1>1, <1>20 DEF ConfirmSucceeded, ConfirmFailed, RetryUnknown, Reconcile,
                         TypeInv, NothingYet
    <2>2. \A status \in Status, result \in Result :
            [[db EXCEPT !.status = status, !.result = result] EXCEPT !.version = @ + 1]
              = [db EXCEPT !.status = status, !.result = result, !.version = @ + 1]
      BY <2>1 DEF Row
    <2>3. OperatorMove(db, db')
      BY <1>20, <2>1, <2>2
      DEF ConfirmSucceeded, ConfirmFailed, RetryUnknown, Reconcile, OperatorMove,
          Status, Terminal, Result
    <2>4. \A s \in Session :
            /\ pc[s] = "loaded" => cache[s].status = "unknown"
            /\ pc[s] \notin {"claimed", "ready", "inflight", "denied"}
      BY <1>3, <2>1 DEF HoldsTheRow
    <2> QED BY <2>1, <2>3, <2>4 DEF RowMove, HoldsTheRow
  <1>21. CASE UNCHANGED vars
    BY <1>21 DEF vars, RowMove, HoldsTheRow
  <1> QED
    BY <1>6, <1>7, <1>8, <1>9, <1>10, <1>11, <1>13, <1>14, <1>15, <1>16, <1>17,
       <1>18, <1>19, <1>20, <1>21
    DEF Next, Progress

\* A move leaves a typed row, and a new one carries a higher version.
LEMMA MoveGrows ==
  ASSUME TypeInv, TypeInv', RowMove
  PROVE  \/ UNCHANGED db
         \/ db' \in Row /\ db' # NoRow /\ (db # NoRow => db'.version > db.version)
  <1>1. db \in Row \union {NoRow} /\ db' \in Row \union {NoRow} /\ NoRow \notin Row
    BY LedgerAssumption DEF TypeInv, TypeOK
  <1>2. CASE db = NoRow /\ db' = NewRow
    <2>1. NewRow \in Row
      BY DEF NewRow, Row, Status, Terminal, Result
    <2> QED BY <1>1, <1>2, <2>1
  <1>3. ASSUME db # NoRow, SessionMove(db, db')
        PROVE  db' \in Row /\ db'.version > db.version
    <2>1. db \in Row
      BY <1>1, <1>3
    <2>2. CASE db' = [db EXCEPT !.version = @ + 1]
      BY <2>1, <2>2, RowOperators DEF Row
    <2>3. CASE db' \in {Recovered(db), Unknown(db)}
      <3>1. db'.version = db.version + 1 /\ db.version \in Nat
        BY <2>1, <2>3, Columns DEF Row
      <3>2. db' \in Row
        BY <2>1, <2>3, RowOperators
      <3> QED BY <3>1, <3>2
    <2>4. CASE /\ db.status = "executing" /\ Retryable(db)
               /\ \E token \in Nat \ {0} : db' = Claimed(Recovered(db), token)
      <3> DEFINE row == Recovered(db)
      <3>1. row \in Row /\ row.version = db.version + 1
        BY <2>1, RowOperators, Columns
      <3>2. PICK token \in Nat \ {0} : db' = Claimed(row, token)
        BY <2>4
      <3> HIDE DEF row
      <3>3. db'.version = row.version + 1 /\ db.version \in Nat
        BY <2>1, <3>1, <3>2, Columns DEF Row
      <3>4. db' \in Row
        BY <3>1, <3>2, RowOperators
      <3> QED BY <3>1, <3>3, <3>4
    <2>5. CASE \E token \in Nat \ {0} : db' = Claimed(db, token)
      <3>1. db'.version = db.version + 1 /\ db.version \in Nat
        BY <2>1, <2>5, Columns DEF Row
      <3>2. db' \in Row
        BY <2>1, <2>5, RowOperators
      <3> QED BY <3>1, <3>2
    <2>6. CASE db' \in {Settled(db, "succeeded", "ok"), Settled(db, "failed", "error")}
      <3>1. db'.version = db.version + 1 /\ db.version \in Nat
        BY <2>1, <2>6, Columns DEF Row, Terminal
      <3>2. db' \in Row
        BY <2>1, <2>6, RowOperators DEF Terminal
      <3> QED BY <3>1, <3>2
    <2> QED BY <1>3, <2>2, <2>3, <2>4, <2>5, <2>6 DEF SessionMove
  <1>4. ASSUME db # NoRow, OperatorMove(db, db')
        PROVE  db' \in Row /\ db'.version > db.version
    <2>1. db \in Row
      BY <1>1, <1>4
    <2>2. db'.version = db.version + 1
      BY <1>4, <2>1 DEF OperatorMove, Row
    <2>3. db' \in Row
      <3>1. \A status \in Status, result \in Result :
              [db EXCEPT !.status = status, !.result = result, !.version = @ + 1] \in Row
        <4> SUFFICES ASSUME NEW status \in Status, NEW result \in Result
                     PROVE  [db EXCEPT !.status = status, !.result = result,
                                       !.version = @ + 1] \in Row
          OBVIOUS
        <4>1. db \in Row /\ db.version + 1 \in Nat
          BY <2>1 DEF Row
        <4>2. [db EXCEPT !.status = status] \in Row
          BY <4>1, SetColumn
        <4>3. [db EXCEPT !.status = status, !.result = result] \in Row
          BY <4>2, SetColumn
        <4> QED BY <4>1, <4>3, SetColumn
      <3> QED BY <1>4, <3>1 DEF OperatorMove, Status, Terminal, Result
    <2> QED BY <2>1, <2>2, <2>3 DEF Row
  <1> QED BY <1>1, <1>2, <1>3, <1>4 DEF RowMove

\* A move keeps the row within its budget and its columns in agreement.
LEMMA MoveSound ==
  ASSUME TypeInv, TypeInv', SoundRow, RowMove
  PROVE  SoundRow'
  <1> USE LedgerAssumption
  <1>1. db \in Row \union {NoRow} /\ db' \in Row \union {NoRow} /\ NoRow \notin Row
    BY DEF TypeInv, TypeOK
  <1>2. CASE UNCHANGED db
    BY <1>2 DEF SoundRow, RowIsCoherent
  <1>3. CASE db = NoRow /\ db' = NewRow
    BY <1>3 DEF NewRow, SoundRow, RowIsCoherent
  <1> SUFFICES ASSUME db # NoRow, db \in Row, db' \in Row,
                      SessionMove(db, db') \/ OperatorMove(db, db')
               PROVE  SoundRow'
    BY <1>1, <1>2, <1>3 DEF RowMove, SoundRow
  <1>4. /\ db.attempts <= MaxAttempts
        /\ db.attempts \in Nat /\ db'.attempts \in Nat
        /\ db.status = "prepared" => db.attempts < MaxAttempts
        /\ db.token # 0 <=> db.status = "executing"
        /\ db.status = "succeeded" => db.result = "ok"
        /\ db.status = "failed" => db.result = "error"
    BY DEF SoundRow, RowIsCoherent, Row
  <1> SUFFICES /\ db'.attempts <= MaxAttempts
               /\ db'.status = "prepared" => db'.attempts < MaxAttempts
               /\ db'.token # 0 <=> db'.status = "executing"
               /\ db'.status = "succeeded" => db'.result = "ok"
               /\ db'.status = "failed" => db'.result = "error"
    BY DEF SoundRow, RowIsCoherent
  <1>6. CASE db' = [db EXCEPT !.version = @ + 1]
    BY <1>4, <1>6 DEF Row
  <1>7. CASE db' = Recovered(db)
    BY <1>4, <1>7, Columns DEF Retryable
  <1>8. CASE db' = Unknown(db)
    BY <1>4, <1>8, Columns
  <1>9. ASSUME NEW token \in Nat \ {0}, NEW row \in Row, db' = Claimed(row, token),
               row.attempts = db.attempts, db.attempts < MaxAttempts
        PROVE  db'.status = "executing" /\ db'.token # 0 /\ db'.attempts <= MaxAttempts
    <2>1. db'.status = "executing" /\ db'.token = token /\ db'.attempts = db.attempts + 1
      BY <1>9, Columns
    <2> QED BY <1>4, <1>9, <2>1
  <1>10. CASE \E token \in Nat \ {0} :
                /\ db.status = "prepared" \/ Retryable(db)
                /\ db' = Claimed(IF db.status = "prepared" THEN db ELSE Recovered(db), token)
    <2> DEFINE row == IF db.status = "prepared" THEN db ELSE Recovered(db)
    <2>1. row \in Row
      BY RowOperators
    <2>2. row.attempts = db.attempts
      BY Columns
    <2>3. db.attempts < MaxAttempts
      BY <1>4, <1>10 DEF Retryable
    <2>4. PICK token \in Nat \ {0} : db' = Claimed(row, token)
      BY <1>10
    <2> HIDE DEF row
    <2>5. db'.status = "executing" /\ db'.token # 0 /\ db'.attempts <= MaxAttempts
      BY <1>9, <2>1, <2>2, <2>3, <2>4
    <2> QED BY <2>5
  <1>11. CASE db' = Settled(db, "succeeded", "ok")
    BY <1>4, <1>11, Columns DEF Terminal
  <1>12. CASE db' = Settled(db, "failed", "error")
    BY <1>4, <1>12, Columns DEF Terminal
  <1>13. CASE OperatorMove(db, db')
    BY <1>4, <1>13 DEF OperatorMove, Retryable, Row
  <1> QED BY <1>6, <1>7, <1>8, <1>10, <1>11, <1>12, <1>13 DEF SessionMove

\* Which steps touch what an operator has seen, and that retry_safe is set once.
LEMMA SeenMoves ==
  ASSUME TypeInv, [Next]_vars
  PROVE  /\ retrySafe' = retrySafe
         /\ \A o \in Operator :
              \/ seen'[o] = seen[o]
              \/ db # NoRow /\ db' = db /\ seen'[o] = db
              \/ seen'[o] = NoRow /\ db.version = seen[o].version
  <1> USE DEF ledgerVars, sessionVars, historyVars
  <1>1. seen \in [Operator -> Row \union {NoRow}]
    BY DEF TypeInv, TypeOK
  <1>2. CASE \E o \in Operator :
               Inspect(o) \/ ConfirmSucceeded(o) \/ ConfirmFailed(o) \/ RetryUnknown(o)
    <2>1. PICK o \in Operator :
            Inspect(o) \/ ConfirmSucceeded(o) \/ ConfirmFailed(o) \/ RetryUnknown(o)
      BY <1>2
    <2>2. CASE Inspect(o)
      BY <1>1, <2>2 DEF Inspect
    <2>3. CASE ConfirmSucceeded(o) \/ ConfirmFailed(o) \/ RetryUnknown(o)
      BY <1>1, <2>3 DEF ConfirmSucceeded, ConfirmFailed, RetryUnknown, Reconcile,
                        VersionMatches
    <2> QED BY <2>1, <2>2, <2>3
  <1>3. ASSUME NEW s \in Session, Prepare(s) \/ Progress(s) \/ \E t \in watch : Watchdog(s, t)
        PROVE  retrySafe' = retrySafe /\ seen' = seen
    BY <1>3 DEF Progress, Prepare, ReturnCached, RefuseClaim, GiveUpExpired, Claim, Refresh,
           CircuitOpen, StartCall, QuotaDenied, CompleteDenied, RemoteAnswer, RemoteLost,
           Crash, Watchdog, Complete, MarkUnknown
  <1>4. CASE UNCHANGED vars \/ \E t \in live : ExpireLease(t)
    BY <1>4 DEF vars, ExpireLease
  <1> QED BY <1>2, <1>3, <1>4 DEF Next

LEMMA SerialInit == Init => SerialInv
  BY DEF Init, SerialInv, SoundRow, HoldsTheRow, SeenIsPast

LEMMA SerialStep == TypeInv /\ TypeInv' /\ SerialInv /\ [Next]_vars => SerialInv'
  <1> SUFFICES ASSUME TypeInv, TypeInv', SerialInv, [Next]_vars, OneSession
               PROVE  SoundRow' /\ HoldsTheRow' /\ SeenIsPast'
    BY DEF SerialInv, OneSession
  <1>1. SoundRow /\ HoldsTheRow /\ SeenIsPast
    BY DEF SerialInv
  <1>2. RowMove /\ HoldsTheRow'
    BY <1>1, SerialMoves
  <1>3. SoundRow'
    BY <1>1, <1>2, MoveSound
  <1>4. SeenIsPast'
    <2> SUFFICES ASSUME NEW o \in Operator, seen'[o] # NoRow
                 PROVE  /\ db' # NoRow
                        /\ seen'[o].version <= db'.version
                        /\ seen'[o].version = db'.version => seen'[o] = db'
      BY DEF SeenIsPast
    <2>1. \/ UNCHANGED db
          \/ db' \in Row /\ db' # NoRow /\ (db # NoRow => db'.version > db.version)
      BY <1>2, MoveGrows
    <2>2. CASE seen'[o] = seen[o]
      <3>1. /\ db # NoRow /\ seen[o].version <= db.version
            /\ seen[o].version = db.version => seen[o] = db
        BY <1>1, <2>2 DEF SeenIsPast
      <3>2. db \in Row /\ seen[o] \in Row
        BY <2>2, <3>1 DEF TypeInv, TypeOK
      <3>3. db.version \in Nat /\ seen[o].version \in Nat
        BY <3>2 DEF Row
      <3>4. db' \in Row => db'.version \in Nat
        BY DEF Row
      <3> QED BY <2>1, <2>2, <3>1, <3>3, <3>4
    <2>3. CASE db # NoRow /\ db' = db /\ seen'[o] = db
      <3>1. db \in Row
        BY <2>3 DEF TypeInv, TypeOK
      <3> QED BY <2>3, <3>1 DEF Row
    <2> QED BY <2>2, <2>3, SeenMoves
  <1> QED BY <1>2, <1>3, <1>4

\* Jobs that follow one another, whatever crashes, expires, is redelivered or
\* reconciled between them, stay within the budget of calls for the key.
THEOREM SerialBudget == Spec => [](OneSession => AttemptBudget)
  <1>1. SerialInv => (OneSession => AttemptBudget)
    BY DEF SerialInv, SoundRow, AttemptBudget
  <1> QED BY <1>1, TypeInit, TypeStep, SerialInit, SerialStep, PTL DEF Spec

\* And they leave a row whose lease, status and result agree.
THEOREM SerialCoherence == Spec => [](OneSession => RowIsCoherent)
  <1>1. SerialInv => (OneSession => RowIsCoherent)
    BY DEF SerialInv, SoundRow, RowIsCoherent
  <1> QED BY <1>1, TypeInit, TypeStep, SerialInit, SerialStep, PTL DEF Spec

\* An operator's decision is applied to the very row the operator saw: with jobs
\* that do not overlap every change raises the version that reconcile compares.
THEOREM SerialReconciliation == Spec /\ OneSession => ReconcilesWhatWasSeen
  <1>1. ASSUME TypeInv, SerialInv, OneSession, [Next]_vars
        PROVE  [\A o \in Operator :
                  seen[o] # NoRow /\ seen'[o] = NoRow => db = seen[o]]_vars
    BY <1>1, SeenMoves DEF SerialInv, SeenIsPast
  <1>2. OneSession /\ [Next]_vars => OneSession'
    BY DEF OneSession
  <1> QED
    BY <1>1, <1>2, TypeInit, TypeStep, SerialInit, SerialStep, PTL
    DEF Spec, ReconcilesWhatWasSeen

-----------------------------------------------------------------------------
(* The ledger implements its contract *)

LEMMA ContractInit == Init => Contract!Init
  BY DEF Init, Contract!Init

\* Each move of the row is one step of the contract, or none.
LEMMA ContractStep ==
  ASSUME TypeInv, TypeInv', SoundRow, RowMove, retrySafe' = retrySafe
  PROVE  [Contract!Next]_(Contract!contractVars)
  <1> USE DEF Contract!Next, Contract!contractVars, Contract!Move, Contract!Attempt,
              Contract!Settled
  <1>1. db \in Row \union {NoRow} /\ NoRow \notin Row
    BY LedgerAssumption DEF TypeInv, TypeOK
  <1>2. CASE UNCHANGED db
    BY <1>2
  <1>3. CASE db = NoRow /\ db' = NewRow
    <2>1. NewRow \in Row /\ NewRow.status = "prepared" /\ NewRow.attempts = 0
      BY DEF NewRow, Row, Status, Terminal, Result
    <2>2. db' # NoRow
      BY <1>1, <1>3, <2>1
    <2> QED BY <1>3, <2>1, <2>2 DEF Contract!Record
  <1> SUFFICES ASSUME db # NoRow, db \in Row, db' # NoRow,
                      SessionMove(db, db') \/ OperatorMove(db, db')
               PROVE  [Contract!Next]_(Contract!contractVars)
    BY <1>1, <1>2, <1>3, MoveGrows DEF RowMove
  <1>4. db.attempts \in Nat /\ (db.status = "prepared" => db.attempts < MaxAttempts)
    BY DEF SoundRow, Row
  <1>5. CASE db' = [db EXCEPT !.version = @ + 1]
    <2>1. db'.status = db.status /\ db'.attempts = db.attempts
      BY <1>5 DEF Row
    <2> QED BY <2>1
  <1>6. CASE db.status = "executing" /\ db' = Recovered(db)
    <2>1. /\ db'.status = IF Retryable(db) THEN "prepared" ELSE "unknown"
          /\ db'.attempts = db.attempts
      BY <1>6, Columns
    <2>2. CASE Retryable(db)
      BY <1>6, <2>1, <2>2 DEF Retryable, Contract!Reopen
    <2>3. CASE ~Retryable(db)
      BY <1>6, <2>1, <2>3 DEF Contract!LoseTrack
    <2> QED BY <2>2, <2>3
  <1>7. CASE db.status = "executing" /\ db' = Unknown(db)
    <2>1. db'.status = "unknown" /\ db'.attempts = db.attempts
      BY <1>7, Columns
    <2> QED BY <1>7, <2>1 DEF Contract!LoseTrack
  <1>8. CASE db.status = "prepared" /\ \E token \in Nat \ {0} : db' = Claimed(db, token)
    <2>1. db'.status = "executing" /\ db'.attempts = db.attempts + 1
      BY <1>8, Columns
    <2> QED BY <1>4, <1>8, <2>1 DEF Contract!Start
  <1>9. CASE /\ db.status = "executing" /\ Retryable(db)
             /\ \E token \in Nat \ {0} : db' = Claimed(Recovered(db), token)
    <2> DEFINE row == Recovered(db)
    <2>1. row \in Row /\ row.attempts = db.attempts
      BY RowOperators, Columns
    <2>2. PICK token \in Nat \ {0} : db' = Claimed(row, token)
      BY <1>9
    <2> HIDE DEF row
    <2>3. db'.status = "executing" /\ db'.attempts = db.attempts + 1
      BY <2>1, <2>2, Columns
    <2> QED BY <1>9, <2>3 DEF Retryable, Contract!Restart
  <1>10. CASE /\ db.status = "executing"
              /\ db' \in {Settled(db, "succeeded", "ok"), Settled(db, "failed", "error")}
    <2>1. db'.status \in {"succeeded", "failed"} /\ db'.attempts = db.attempts
      BY <1>10, Columns DEF Terminal
    <2> QED BY <1>10, <2>1 DEF Contract!Answer
  <1>11. CASE OperatorMove(db, db')
    <2>1. /\ db.status = "unknown" /\ db'.attempts = db.attempts
          /\ \/ db'.status \in {"succeeded", "failed"}
             \/ Retryable(db) /\ db'.status = "prepared"
      BY <1>11 DEF OperatorMove, Row
    <2>2. CASE db'.status \in {"succeeded", "failed"}
      BY <2>1, <2>2 DEF Contract!Reconcile
    <2>3. CASE Retryable(db) /\ db'.status = "prepared"
      BY <2>1, <2>3 DEF Retryable, Contract!Reopen
    <2> QED BY <2>1, <2>2, <2>3
  <1> QED BY <1>5, <1>6, <1>7, <1>8, <1>9, <1>10, <1>11 DEF SessionMove

\* Sequential jobs, crashes, watchdogs and operators together never take the row
\* a way the documented status machine does not have.
THEOREM LedgerImplementsContract == Spec /\ OneSession => ImplementsContract
  <1>1. TypeInv /\ TypeInv' /\ SerialInv /\ OneSession /\ [Next]_vars
          => [Contract!Next]_(Contract!contractVars)
    BY SerialMoves, SeenMoves, ContractStep DEF SerialInv
  <1>2. OneSession /\ [Next]_vars => OneSession'
    BY DEF OneSession
  <1> QED
    BY <1>1, <1>2, TypeInit, TypeStep, SerialInit, SerialStep, ContractInit, PTL
    DEF Spec, ImplementsContract, Contract!Spec
=============================================================================
