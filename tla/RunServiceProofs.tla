------------------------- MODULE RunServiceProofs -------------------------
(***************************************************************************)
(* Proofs about what serves a repair run: the managed execution plane, for *)
(* any number of servers, assertions, posts and lapsed leases, and the     *)
(* router of dynamic calls, for any tools, proposals, policies and crashes.*)
(***************************************************************************)
EXTENDS SandboxPlane, ToolRouter, FiniteSetTheorems, WellFoundedInduction, TLAPS

Row == [state : {"none", "running", "completed"}, hash : {"none", "own", "other"},
        owner : Server \union {NoServer}, attempt : Nat, leased : BOOLEAN, response : Nat]
Service == [stage : Serving, assertion : Assertion, attempt : Nat, reply : Reply]

StoreTypes ==
  /\ execution \in Row /\ serve \in [Server -> Service]
  /\ kubeJob \in Nat /\ lapses \in Nat /\ answers \subseteq Nat

\* A row that exists has a hash and an attempt; only a running one has a lease; a completed
\* one holds the response of its newest attempt.
RowShape ==
  /\ execution.state = "none" => execution = NoExecution
  /\ execution.state # "none" => execution.hash # "none" /\ execution.attempt > 0
  /\ execution.leased => execution.state = "running"
  /\ execution.state = "completed" => execution.response = execution.attempt

\* Every attempt but the first was paid for by a lease that ran out.
AttemptsPaid ==
  /\ execution.attempt <= lapses + 1
  /\ execution.state = "running" /\ ~execution.leased => execution.attempt <= lapses

At(s) == serve[s].stage \in {"working", "watching"}

\* What is answered, or about to be, is the stored response.
Answered ==
  /\ \A attempt \in answers : execution.state = "completed" /\ execution.response = attempt
  /\ \A s \in Server : serve[s].stage = "replying" /\ serve[s].reply = "response" =>
       execution.state = "completed" /\ execution.response = serve[s].attempt

\* Attempts at work are attempts of the row; until a lease has run out there is one.
OneAtWork ==
  /\ kubeJob <= execution.attempt
  /\ \A s \in Server : At(s) => serve[s].attempt \in 1..execution.attempt
  /\ \A s, t \in Server : lapses = 0 /\ At(s) /\ At(t) => s = t
  /\ \A s \in Server : lapses = 0 /\ serve[s].stage = "watching" => kubeJob = serve[s].attempt

PlaneInv == StoreTypes /\ RowShape /\ AttemptsPaid /\ Answered /\ OneAtWork

LEMMA PlaneConstants == NoServer \notin Server /\ Own \in Assertion /\ MaxLapses \in Nat
  BY PlaneAssumption

LEMMA InitialTypes == NoExecution \in Row /\ FreeServer \in Service
  BY PlaneConstants DEF NoExecution, Row, FreeServer, Service, Serving, Reply

\* One server goes over to another stage.
LEMMA ServeUpdate ==
  ASSUME StoreTypes, NEW s \in Server, NEW stage \in Serving, NEW n \in Nat, NEW reply \in Reply,
         serve' = [serve EXCEPT ![s].stage = stage, ![s].attempt = n, ![s].reply = reply]
  PROVE  /\ serve' \in [Server -> Service]
         /\ \A t \in Server : t # s => serve'[t] = serve[t]
         /\ serve'[s].stage = stage /\ serve'[s].attempt = n /\ serve'[s].reply = reply
  <1>1. serve[s] \in Service
    BY DEF StoreTypes
  <1>2. [serve[s] EXCEPT !.stage = stage, !.attempt = n, !.reply = reply] \in Service
    BY <1>1 DEF Service
  <1>3. serve' = [serve EXCEPT ![s] =
                    [serve[s] EXCEPT !.stage = stage, !.attempt = n, !.reply = reply]]
    BY DEF StoreTypes
  <1>4. QED
    BY <1>1, <1>2, <1>3 DEF StoreTypes, Service

LEMMA PlaneInitInv == PlaneInit => PlaneInv
  <1> SUFFICES ASSUME PlaneInit PROVE PlaneInv
    OBVIOUS
  <1>1. StoreTypes
    BY InitialTypes DEF PlaneInit, StoreTypes
  <1>2. RowShape /\ AttemptsPaid
    BY DEF PlaneInit, RowShape, AttemptsPaid, NoExecution
  <1>3. Answered /\ OneAtWork
    BY DEF PlaneInit, Answered, OneAtWork, At, NoExecution, FreeServer
  <1>4. QED
    BY <1>1, <1>2, <1>3 DEF PlaneInv

\* A step that leaves the store alone and at most takes servers off their work.
LEMMA QuietStep ==
  ASSUME PlaneInv,
         execution' = execution, kubeJob' = kubeJob, lapses' = lapses, answers' = answers,
         serve' \in [Server -> Service],
         \A s \in Server : \/ serve'[s] = serve[s]
                           \/ /\ serve'[s].stage \in {"free", "arrived", "replying"}
                              /\ serve'[s].stage = "replying" => serve'[s].reply # "response"
  PROVE  PlaneInv'
  <1>1. StoreTypes' /\ RowShape' /\ AttemptsPaid'
    BY DEF PlaneInv, StoreTypes, RowShape, AttemptsPaid
  <1>2. Answered'
    BY DEF PlaneInv, Answered
  <1>3. \A s \in Server : At(s)' => serve'[s] = serve[s] /\ At(s)
    BY DEF At
  <1>4. OneAtWork'
    BY <1>3 DEF PlaneInv, OneAtWork, At
  <1>5. QED
    BY <1>1, <1>2, <1>4 DEF PlaneInv

\* The three things a claim may do to the row.
LEMMA ClaimCases ==
  ASSUME PlaneInv, NEW s \in Server, NEW a \in Assertion
  PROVE  LET claim == RedisClaim(execution, spent, a, s) IN
         /\ claim.found # "acquired" => claim.row = execution
         /\ claim.found = "cached" => execution.state = "completed"
         /\ claim.found = "acquired" =>
              /\ claim.row = Acquired(execution, a, s)
              /\ execution.state # "completed" /\ ~execution.leased
              /\ execution.hash \in {"none", HashOf(a)}
  <1> DEFINE row == execution
  <1> USE DEF PlaneInv, StoreTypes, RowShape, Row
  <1>1. CASE row.hash \notin {"none", HashOf(a)}
    BY <1>1 DEF RedisClaim, Claim
  <1>2. CASE row.hash \in {"none", HashOf(a)} /\ row.state = "completed"
    BY <1>2 DEF RedisClaim, Claim
  <1>3. CASE row.hash \in {"none", HashOf(a)} /\ row.state # "completed" /\ a \in spent
    BY <1>3 DEF RedisClaim, Claim
  <1>4. CASE /\ row.hash \in {"none", HashOf(a)} /\ row.state # "completed" /\ a \notin spent
             /\ row.state = "running" /\ row.leased
    BY <1>4 DEF RedisClaim, Claim
  <1>5. CASE /\ row.hash \in {"none", HashOf(a)} /\ row.state # "completed" /\ a \notin spent
             /\ ~(row.state = "running" /\ row.leased)
    BY <1>5 DEF RedisClaim, Claim
  <1>6. QED
    BY <1>1, <1>2, <1>3, <1>4, <1>5

LEMMA ClaimKeepsInv ==
  ASSUME PlaneInv, NEW s \in Server, ClaimExecution(s)
  PROVE  PlaneInv'
  <1> DEFINE a == serve[s].assertion
             claim == RedisClaim(execution, spent, a, s)
  <1>1. a \in Assertion
    BY DEF PlaneInv, StoreTypes, Service
  <1>2. /\ execution' = claim.row
        /\ kubeJob' = kubeJob /\ answers' = answers /\ lapses' = lapses
        /\ serve[s].stage = "arrived"
        /\ serve' = [serve EXCEPT
            ![s].stage = IF claim.found = "acquired" THEN "working" ELSE "replying",
            ![s].attempt = claim.row.attempt,
            ![s].reply = CASE claim.found = "acquired" -> "none"
                           [] claim.found = "cached" -> "response"
                           [] claim.found = "in_progress" -> "busy"
                           [] OTHER -> "refused"]
    BY DEF ClaimExecution, ClaimStep
  <1> HIDE DEF claim, a
  <1>3. CASE claim.found = "acquired"
    <2>1. /\ execution' = [execution EXCEPT !.state = "running", !.hash = HashOf(a),
                                            !.owner = s, !.leased = TRUE, !.attempt = @ + 1]
          /\ execution.state # "completed" /\ ~execution.leased
      BY <1>1, <1>2, <1>3, ClaimCases DEF claim, a, Acquired
    <2>2. /\ execution.attempt \in Nat /\ execution.attempt + 1 \in Nat
          /\ execution'.attempt = execution.attempt + 1
      BY <2>1 DEF PlaneInv, StoreTypes, Row
    <2> DEFINE new == [serve[s] EXCEPT !.stage = "working",
                                       !.attempt = execution.attempt + 1, !.reply = "none"]
    <2>3. /\ new \in Service /\ new.stage = "working" /\ new.attempt = execution.attempt + 1
          /\ serve' = [serve EXCEPT ![s] = new] /\ serve \in [Server -> Service]
      <3>1. serve \in [Server -> Service] /\ serve[s] \in Service
        BY DEF PlaneInv, StoreTypes
      <3>2. "working" \in Serving /\ "none" \in Reply
        BY DEF Serving, Reply
      <3>3. new \in Service /\ new.stage = "working" /\ new.attempt = execution.attempt + 1
        BY <2>2, <3>1, <3>2 DEF Service
      <3>4. serve' = [serve EXCEPT ![s] = new]
        BY <1>2, <1>3, <2>2
      <3>5. QED
        BY <3>1, <3>3, <3>4
    <2>4. /\ serve' \in [Server -> Service]
          /\ \A t \in Server : t # s => serve'[t] = serve[t]
          /\ serve'[s].stage = "working" /\ serve'[s].attempt = execution.attempt + 1
      <3> HIDE DEF new
      <3>1. QED
        BY <2>3
    <2>5. HashOf(a) \in {"own", "other"}
      BY DEF HashOf
    <2>6. StoreTypes'
      <3>1. execution' \in Row
        BY <2>1, <2>2, <2>5 DEF PlaneInv, StoreTypes, Row
      <3>2. QED
        BY <1>2, <2>4, <3>1 DEF PlaneInv, StoreTypes
    <2>7. RowShape'
      BY <2>1, <2>2, <2>5 DEF PlaneInv, StoreTypes, Row, RowShape
    <2>8. execution.attempt <= lapses
      BY <2>1 DEF PlaneInv, StoreTypes, RowShape, AttemptsPaid, Row, NoExecution
    <2>9. AttemptsPaid'
      BY <1>2, <2>1, <2>2, <2>8 DEF PlaneInv, StoreTypes, Row, AttemptsPaid
    <2>10. Answered'
      BY <1>2, <2>1, <2>4 DEF PlaneInv, Answered
    <2>11. lapses = 0 => \A t \in Server : ~At(t)
      BY <2>2, <2>8 DEF PlaneInv, StoreTypes, OneAtWork
    <2>12. OneAtWork'
      <3>1. kubeJob' <= execution'.attempt
        BY <1>2, <2>2 DEF PlaneInv, StoreTypes, OneAtWork
      <3>2. \A t \in Server : At(t)' => serve'[t].attempt \in 1..execution'.attempt
        <4>1. \A t \in Server : At(t) => serve[t].attempt \in 1..execution.attempt
          BY DEF PlaneInv, OneAtWork
        <4>2. QED
          BY <2>2, <2>4, <4>1 DEF At
      <3>3. \A t \in Server : lapses' = 0 /\ At(t)' => t = s
        BY <1>2, <2>4, <2>11 DEF At
      <3>4. lapses' = 0 => serve'[s].stage # "watching"
        BY <2>4
      <3>5. QED
        BY <3>1, <3>2, <3>3, <3>4 DEF OneAtWork, At
    <2>13. QED
      BY <2>6, <2>7, <2>9, <2>10, <2>12 DEF PlaneInv
  <1>4. CASE claim.found = "cached"
    <2>1. execution' = execution /\ execution.state = "completed"
      BY <1>1, <1>2, <1>4, ClaimCases DEF claim, a
    <2>2. serve' = [serve EXCEPT ![s].stage = "replying",
                                 ![s].attempt = execution.attempt, ![s].reply = "response"]
      BY <1>2, <1>4, <2>1
    <2>3. execution.attempt \in Nat
      BY DEF PlaneInv, StoreTypes, Row
    <2>4. /\ serve' \in [Server -> Service]
          /\ \A t \in Server : t # s => serve'[t] = serve[t]
          /\ serve'[s].stage = "replying" /\ serve'[s].attempt = execution.attempt
      BY <2>2, <2>3, ServeUpdate DEF PlaneInv, Serving, Reply
    <2>5. StoreTypes' /\ RowShape' /\ AttemptsPaid'
      BY <1>2, <2>1, <2>4 DEF PlaneInv, StoreTypes, RowShape, AttemptsPaid
    <2>6. Answered'
      BY <1>2, <2>1, <2>4 DEF PlaneInv, Answered, RowShape
    <2>7. OneAtWork'
      BY <1>2, <2>1, <2>4 DEF PlaneInv, OneAtWork, At
    <2>8. QED
      BY <2>5, <2>6, <2>7 DEF PlaneInv
  <1>5. CASE claim.found \notin {"acquired", "cached"}
    <2>1. execution' = execution
      BY <1>1, <1>2, <1>5, ClaimCases DEF claim, a
    <2>2. PICK reply \in {"busy", "refused"} :
            serve' = [serve EXCEPT ![s].stage = "replying",
                                   ![s].attempt = execution.attempt, ![s].reply = reply]
      BY <1>2, <1>5, <2>1
    <2>3. execution.attempt \in Nat
      BY DEF PlaneInv, StoreTypes, Row
    <2>4. /\ serve' \in [Server -> Service]
          /\ \A t \in Server : t # s => serve'[t] = serve[t]
          /\ serve'[s].stage = "replying" /\ serve'[s].reply # "response"
      BY <2>2, <2>3, ServeUpdate DEF PlaneInv, Serving, Reply
    <2>5. QED
      BY <1>2, <2>1, <2>4, QuietStep
  <1>6. QED
    BY <1>3, <1>4, <1>5

\* Requests that arrive, are refused, get lost with their server, and the client.
LEMMA ArriveIsQuiet ==
  ASSUME PlaneInv, NEW s \in Server, NEW a \in Assertion, Arrive(s, a)
  PROVE  /\ serve' \in [Server -> Service]
         /\ \A t \in Server : serve'[t] = serve[t] \/ serve'[t].stage = "arrived"
  <1>1. [FreeServer EXCEPT !.stage = "arrived", !.assertion = a] \in Service
    BY DEF FreeServer, Service, Serving, Reply
  <1>2. [FreeServer EXCEPT !.stage = "arrived", !.assertion = a].stage = "arrived"
    BY DEF FreeServer
  <1>3. QED
    BY <1>1, <1>2 DEF Arrive, PlaneInv, StoreTypes

LEMMA RefusalIsQuiet ==
  ASSUME PlaneInv, NEW s \in Server, AnswerWith(s, "refused")
  PROVE  /\ serve' \in [Server -> Service]
         /\ \A t \in Server :
              \/ serve'[t] = serve[t]
              \/ t = s /\ serve'[t].stage = "replying" /\ serve'[t].reply = "refused"
  <1>1. serve' = [serve EXCEPT ![s].stage = "replying", ![s].attempt = serve[s].attempt,
                               ![s].reply = "refused"]
    BY DEF AnswerWith, PlaneInv, StoreTypes, Service
  <1>2. serve[s].attempt \in Nat
    BY DEF PlaneInv, StoreTypes, Service
  <1>3. /\ serve' \in [Server -> Service]
        /\ \A t \in Server : t # s => serve'[t] = serve[t]
        /\ serve'[s].stage = "replying" /\ serve'[s].reply = "refused"
    BY <1>1, <1>2, ServeUpdate DEF PlaneInv, StoreTypes, Service, Serving, Reply
  <1>4. QED
    BY <1>3

LEMMA QuietActions ==
  ASSUME PlaneInv, NEW s \in Server,
         \/ \E a \in Assertion : ProbePosts(s, a)
         \/ PostRequest(s) \/ RefuseRequest(s) \/ ServerDies(s)
  PROVE  PlaneInv'
  <1>1. ASSUME NEW a \in Assertion, ProbePosts(s, a) PROVE PlaneInv'
    BY <1>1, ArriveIsQuiet, QuietStep DEF ProbePosts
  <1>2. CASE PostRequest(s)
    BY <1>2, PlaneConstants, ArriveIsQuiet, QuietStep DEF PostRequest
  <1>3. CASE RefuseRequest(s)
    BY <1>3, RefusalIsQuiet, QuietStep DEF RefuseRequest
  <1>4. CASE ServerDies(s)
    <2>1. /\ serve' \in [Server -> Service]
          /\ \A t \in Server : serve'[t] = serve[t] \/ serve'[t].stage = "free"
      BY <1>4, InitialTypes DEF ServerDies, PlaneInv, StoreTypes, FreeServer
    <2>2. QED
      BY <1>4, <2>1, QuietStep DEF ServerDies
  <1>5. QED
    BY <1>1, <1>2, <1>3, <1>4

\* The Job of an attempt. Until a lease has run out, whoever deletes it is its only watcher.
LEMMA DeleteKeepsWork ==
  ASSUME PlaneInv, NEW s \in Server, At(s), DeleteJob(s), lapses' = lapses,
         execution'.attempt = execution.attempt, serve'[s].stage = "replying",
         \A t \in Server : t # s => serve'[t] = serve[t]
  PROVE  OneAtWork' /\ kubeJob' \in Nat
  <1>1. kubeJob' \in {kubeJob, 0}
    BY DEF DeleteJob
  <1>2. kubeJob' \in Nat /\ kubeJob' <= execution.attempt
    BY <1>1 DEF PlaneInv, StoreTypes, OneAtWork, Row
  <1>3. \A t \in Server : At(t)' => t # s /\ serve'[t] = serve[t] /\ At(t)
    BY DEF At
  <1>4. \A t \in Server : lapses = 0 => ~At(t)'
    BY <1>3 DEF PlaneInv, OneAtWork
  <1>5. \A t \in Server : At(t)' => serve'[t].attempt \in 1..execution'.attempt
    BY <1>3 DEF PlaneInv, OneAtWork
  <1>6. QED
    BY <1>2, <1>4, <1>5 DEF PlaneInv, OneAtWork, At

LEMMA WorkKeepsInv ==
  ASSUME PlaneInv, NEW s \in Server, CreateJob(s) \/ FailExecution(s)
  PROVE  PlaneInv'
  <1> USE DEF PlaneInv
  <1>1. CASE CreateJob(s)
    <2>1. /\ execution' = execution /\ answers' = answers /\ lapses' = lapses
          /\ serve[s].stage = "working"
          /\ serve' = [serve EXCEPT ![s].stage = "watching"]
          /\ kubeJob' = IF kubeJob = 0 THEN serve[s].attempt ELSE kubeJob
      BY <1>1 DEF CreateJob
    <2>2. serve[s].attempt \in 1..execution.attempt
      BY <2>1 DEF OneAtWork, At
    <2> DEFINE new == [serve[s] EXCEPT !.stage = "watching"]
    <2>3. /\ new \in Service /\ new.stage = "watching" /\ new.attempt = serve[s].attempt
          /\ serve' = [serve EXCEPT ![s] = new] /\ serve \in [Server -> Service]
      <3>1. serve[s] \in Service /\ "watching" \in Serving
        BY DEF StoreTypes, Serving
      <3>2. QED
        BY <2>1, <3>1 DEF StoreTypes, Service
    <2>4. /\ serve' \in [Server -> Service]
          /\ \A t \in Server : t # s => serve'[t] = serve[t]
          /\ serve'[s].stage = "watching" /\ serve'[s].attempt = serve[s].attempt
      <3> HIDE DEF new, PlaneInv
      <3>1. QED
        BY <2>3
    <2>5. kubeJob' \in Nat /\ kubeJob' <= execution.attempt
      BY <2>1, <2>2 DEF StoreTypes, OneAtWork, Row
    <2>6. StoreTypes' /\ RowShape' /\ AttemptsPaid' /\ Answered'
      BY <2>1, <2>4, <2>5 DEF StoreTypes, RowShape, AttemptsPaid, Answered
    <2>7. lapses = 0 => kubeJob' = serve[s].attempt
      BY <2>1, <2>2 DEF StoreTypes, OneAtWork, AttemptsPaid, Row
    <2>8. \A t \in Server : lapses = 0 /\ At(t)' => t = s
      BY <2>1, <2>4 DEF OneAtWork, At
    <2>9. \A t \in Server : At(t)' => serve'[t].attempt \in 1..execution'.attempt
      BY <2>1, <2>2, <2>4 DEF OneAtWork, At
    <2>10. OneAtWork'
      BY <2>1, <2>4, <2>5, <2>7, <2>8, <2>9 DEF OneAtWork, At
    <2>11. QED
      BY <2>6, <2>10
  <1>2. CASE FailExecution(s)
    <2>1. /\ execution' = execution /\ answers' = answers /\ lapses' = lapses
          /\ At(s) /\ AnswerWith(s, "refused") /\ DeleteJob(s)
      BY <1>2 DEF FailExecution, At
    <2>2. serve'[s].stage = "replying"
      BY <2>1 DEF AnswerWith, StoreTypes, Service
    <2>3. /\ serve' \in [Server -> Service]
          /\ \A t \in Server :
               \/ serve'[t] = serve[t]
               \/ t = s /\ serve'[t].stage = "replying" /\ serve'[t].reply = "refused"
      BY <2>1, RefusalIsQuiet
    <2>4. OneAtWork' /\ kubeJob' \in Nat
      BY <2>1, <2>2, <2>3, DeleteKeepsWork
    <2>5. StoreTypes' /\ RowShape' /\ AttemptsPaid' /\ Answered'
      BY <2>1, <2>3, <2>4 DEF StoreTypes, RowShape, AttemptsPaid, Answered
    <2>6. QED
      BY <2>4, <2>5
  <1>3. QED
    BY <1>1, <1>2

LEMMA CommitKeepsInv ==
  ASSUME PlaneInv, NEW s \in Server, CommitResult(s)
  PROVE  PlaneInv'
  <1> USE DEF PlaneInv
  <1> DEFINE n == serve[s].attempt
             stored == FenceHolds(execution, serve[s].assertion, s, n)
  <1>1. /\ answers' = answers /\ lapses' = lapses /\ At(s) /\ DeleteJob(s)
        /\ execution' = IF stored THEN Completed(execution, n) ELSE execution
        /\ serve' = [serve EXCEPT ![s].stage = "replying", ![s].reply = ReplyTo(stored)]
    BY DEF CommitResult, AnswerWith, At
  <1>2. n \in Nat
    BY DEF StoreTypes, Service
  <1>3. PICK reply \in {"response", "refused"} :
          /\ reply = ReplyTo(stored)
          /\ serve' = [serve EXCEPT ![s].stage = "replying", ![s].reply = reply]
    BY <1>1 DEF ReplyTo
  <1>4. /\ serve' \in [Server -> Service]
        /\ \A t \in Server : t # s => serve'[t] = serve[t]
        /\ serve'[s].stage = "replying" /\ serve'[s].attempt = n
        /\ serve'[s].reply = ReplyTo(stored)
    <2>1. serve' = [serve EXCEPT ![s].stage = "replying", ![s].attempt = serve[s].attempt,
                                 ![s].reply = reply]
      BY <1>3 DEF StoreTypes, Service
    <2>2. serve[s].attempt \in Nat /\ reply \in Reply
      BY DEF StoreTypes, Service, Reply
    <2> HIDE DEF n, stored
    <2>3. /\ serve' \in [Server -> Service]
          /\ \A t \in Server : t # s => serve'[t] = serve[t]
          /\ serve'[s].stage = "replying" /\ serve'[s].attempt = serve[s].attempt
          /\ serve'[s].reply = reply
      BY <2>1, <2>2, ServeUpdate DEF StoreTypes, Service, Serving, Reply
    <2>4. QED
      BY <1>3, <2>3 DEF n
  <1>5. CASE stored
    <2>1. execution.attempt = n /\ execution.state = "running"
      BY <1>5 DEF FenceHolds
    <2>2. execution' = [execution EXCEPT !.state = "completed", !.leased = FALSE, !.response = n]
      BY <1>1, <1>5 DEF Completed
    <2>3. /\ execution' \in Row /\ execution'.attempt = execution.attempt
          /\ execution'.state = "completed" /\ execution'.response = n
          /\ execution'.hash = execution.hash /\ ~execution'.leased
      BY <1>2, <2>2 DEF StoreTypes, Row
    <2>4. OneAtWork' /\ kubeJob' \in Nat
      BY <1>1, <1>4, <2>3, DeleteKeepsWork
    <2>5. StoreTypes'
      BY <1>1, <1>4, <2>3, <2>4 DEF StoreTypes
    <2>6. RowShape' /\ AttemptsPaid'
      BY <1>1, <2>1, <2>3 DEF RowShape, AttemptsPaid
    <2>7. Answered'
      BY <1>1, <1>4, <2>1, <2>3 DEF Answered
    <2>8. QED
      BY <2>4, <2>5, <2>6, <2>7
  <1>6. CASE ~stored
    <2>1. execution' = execution /\ serve'[s].reply = "refused"
      BY <1>1, <1>4, <1>6 DEF ReplyTo
    <2>2. OneAtWork' /\ kubeJob' \in Nat
      BY <1>1, <1>4, <2>1, DeleteKeepsWork
    <2>3. StoreTypes' /\ RowShape' /\ AttemptsPaid' /\ Answered'
      BY <1>1, <1>4, <2>1, <2>2 DEF StoreTypes, RowShape, AttemptsPaid, Answered
    <2>4. QED
      BY <2>2, <2>3
  <1>7. QED
    BY <1>5, <1>6

LEMMA SendKeepsInv ==
  ASSUME PlaneInv, NEW s \in Server, SendReply(s)
  PROVE  PlaneInv'
  <1> USE DEF PlaneInv
  <1>1. /\ execution' = execution /\ kubeJob' = kubeJob /\ lapses' = lapses
        /\ serve' \in [Server -> Service]
        /\ \A t \in Server : serve'[t] = serve[t] \/ serve'[t].stage = "free"
    BY InitialTypes DEF SendReply, StoreTypes, FreeServer
  <1>2. serve[s].attempt \in Nat
    BY DEF StoreTypes, Service
  <1>3. answers' \subseteq Nat
    BY <1>2 DEF SendReply, StoreTypes
  <1>4. StoreTypes' /\ RowShape' /\ AttemptsPaid'
    BY <1>1, <1>3 DEF StoreTypes, RowShape, AttemptsPaid
  <1>5. Answered'
    BY <1>1 DEF SendReply, Answered
  <1>6. OneAtWork'
    BY <1>1 DEF OneAtWork, At
  <1>7. QED
    BY <1>4, <1>5, <1>6

LEMMA PlaneStep == PlaneInv /\ [PlaneNext]_planeVars => PlaneInv'
  <1> SUFFICES ASSUME PlaneInv, [PlaneNext]_planeVars PROVE PlaneInv'
    OBVIOUS
  <1>1. CASE LapseLease
    <2>1. /\ execution' = [execution EXCEPT !.leased = FALSE] /\ lapses' = lapses + 1
          /\ execution.leased /\ serve' = serve /\ kubeJob' = kubeJob /\ answers' = answers
      BY <1>1 DEF LapseLease
    <2>2. execution.state = "running" /\ execution.attempt \in Nat /\ lapses \in Nat
      BY <2>1 DEF PlaneInv, StoreTypes, RowShape, Row
    <2>3. StoreTypes' /\ RowShape' /\ AttemptsPaid' /\ Answered'
      <3>1. /\ execution' \in Row /\ ~execution'.leased
            /\ execution'.state = execution.state /\ execution'.hash = execution.hash
            /\ execution'.attempt = execution.attempt
            /\ execution'.response = execution.response
        BY <2>1 DEF PlaneInv, StoreTypes, Row
      <3>2. StoreTypes' /\ RowShape'
        BY <2>1, <2>2, <3>1 DEF PlaneInv, StoreTypes, RowShape
      <3>3. AttemptsPaid'
        BY <2>1, <2>2, <3>1 DEF PlaneInv, AttemptsPaid
      <3>4. Answered'
        BY <2>1, <3>1 DEF PlaneInv, Answered
      <3>5. QED
        BY <3>2, <3>3, <3>4
    <2>4. lapses' # 0
      BY <2>1, <2>2
    <2>5. OneAtWork'
      BY <2>1, <2>4 DEF PlaneInv, StoreTypes, OneAtWork, At, Row
    <2>6. QED
      BY <2>3, <2>5 DEF PlaneInv
  <1>2. ASSUME NEW a \in Assertion, DropMark(a) PROVE PlaneInv'
    BY <1>2, QuietStep DEF DropMark, PlaneInv, StoreTypes
  <1>3. CASE PostFails \/ UNCHANGED planeVars
    BY <1>3, QuietStep DEF PostFails, planeVars, PlaneInv, StoreTypes
  <1>4. QED
    BY <1>1, <1>2, <1>3, QuietActions, ClaimKeepsInv, WorkKeepsInv, CommitKeepsInv, SendKeepsInv
       DEF PlaneNext, ServeNext, ClientNext

LEMMA PlaneInvHolds == PlaneSpec => []PlaneInv
  BY PlaneInitInv, PlaneStep, PTL DEF PlaneSpec

\* Whoever is answered is answered with the stored response, that of the newest attempt
\* (complete's fence and the cached answer of claim).
THEOREM AnswersComeFromTheStore == PlaneSpec => []AnswersAreStored
  <1>1. PlaneInv => AnswersAreStored
    BY DEF PlaneInv, Answered, RowShape, AnswersAreStored
  <1>2. QED
    BY <1>1, PlaneInvHolds, PTL

\* An execution is run again only after a lease ran out; until then its one server watches
\* its own Job.
THEOREM LeasesBoundTheRuns == PlaneSpec => []RunsNeedLeases
  <1>1. PlaneInv => RunsNeedLeases
    BY DEF PlaneInv, AttemptsPaid, OneAtWork, RunsNeedLeases
  <1>2. QED
    BY <1>1, PlaneInvHolds, PTL

\* The store in memory and the script in Redis decide every claim alike.
THEOREM StoresDecideAlike == PlaneSpec => []StoresAgree
  <1>1. ASSUME PlaneInv, NEW a \in Assertion, NEW s \in Server
        PROVE  MemoryClaim(execution, spent, a, s) = RedisClaim(execution, spent, a, s)
    <2>1. execution # NoExecution <=> execution.hash # "none"
      BY <1>1 DEF PlaneInv, StoreTypes, RowShape, Row, NoExecution
    <2>2. execution.leased => execution.state = "running"
      BY <1>1 DEF PlaneInv, RowShape
    <2>3. QED
      BY <2>1, <2>2 DEF MemoryClaim, RedisClaim, HashOf
  <1>2. PlaneInv => StoresAgree
    BY <1>1 DEF StoresAgree
  <1>3. QED
    BY <1>2, PlaneInvHolds, PTL

-----------------------------------------------------------------------------
(* Recursion on an initial part of the naturals.                           *)

\* A set of naturals has a least element.
LEMMA Least ==
  ASSUME NEW T \in SUBSET Nat, T # {}
  PROVE  \E m \in T : \A k \in T : m <= k
  <1>1. PICK m \in T : \A k \in T : ~ (<<k, m>> \in OpToRel(<, Nat))
    BY NatLessThanWellFounded, WFMin, Zenon
  <1>2. \A k \in T : ~(k < m)
    <2>1. \A k \in T : <<k, m>> \in Nat \X Nat /\ <<k, m>>[1] = k /\ <<k, m>>[2] = m
      OBVIOUS
    <2> QED BY <1>1, <2>1, Zenon DEF OpToRel
  <1>3. \A k \in T : m <= k
    BY <1>2
  <1> QED BY <1>3

\* A set of naturals with 0 and every successor is all of them.
LEMMA Induction ==
  ASSUME NEW N \in Nat, NEW T, 0 \in T, \A n \in 1..N : n - 1 \in T => n \in T
  PROVE  0..N \subseteq T
  <1> SUFFICES ASSUME (0..N) \ T # {} PROVE FALSE
    BY Zenon
  <1>1. (0..N) \ T \in SUBSET Nat
    OBVIOUS
  <1>2. PICK m \in (0..N) \ T : \A k \in (0..N) \ T : m <= k
    BY <1>1, Least
  <1>3. m \in 1..N /\ m - 1 \in 0..N
    BY <1>2
  <1>4. m - 1 \in T
    BY <1>2, <1>3
  <1> QED BY <1>2, <1>3, <1>4

\* There is a function on 0..N with first value b and every other value given by G.
Defined(N, V, b, G) ==
  \E f \in [0..N -> V] : f = [n \in 0..N |-> IF n = 0 THEN b ELSE G[n][f[n - 1]]]

\* A function given by its first value and by its value after each other one exists.
LEMMA Recursion ==
  ASSUME NEW N \in Nat, NEW V, NEW b \in V, NEW G \in [1..N -> [V -> V]]
  PROVE  Defined(N, V, b, G)
  <1> DEFINE Partial(M) ==
               {f \in [0..M -> V] : f[0] = b /\ \A n \in 1..M : f[n] = G[n][f[n - 1]]}
             T == {M \in 0..N : Partial(M) # {}}
  <1>1. 0 \in T
    <2>1. [n \in 0..0 |-> b] \in Partial(0)
      OBVIOUS
    <2> QED BY <2>1
  <1>2. ASSUME NEW M \in 1..N, M - 1 \in T PROVE M \in T
    <2>1. PICK f \in [0..(M - 1) -> V] : f[0] = b /\ \A n \in 1..(M - 1) : f[n] = G[n][f[n - 1]]
      BY <1>2
    <2> DEFINE g == [n \in 0..M |-> IF n = M THEN G[M][f[M - 1]] ELSE f[n]]
    <2>2. G[M][f[M - 1]] \in V
      BY <2>1
    <2>3. g \in [0..M -> V]
      BY <2>1, <2>2
    <2>4. g[0] = b
      BY <2>1
    <2>5. ASSUME NEW n \in 1..M PROVE g[n] = G[n][g[n - 1]]
      <3>1. CASE n = M
        BY <3>1
      <3>2. CASE n # M
        <4>1. n \in 1..(M - 1) /\ n - 1 \in 0..M /\ n - 1 # M /\ n \in 0..M
          BY <3>2
        <4>2. g[n] = f[n] /\ g[n - 1] = f[n - 1]
          BY <4>1
        <4> QED BY <2>1, <4>1, <4>2
      <3> QED BY <3>1, <3>2
    <2> HIDE DEF g
    <2>6. g \in Partial(M)
      BY <2>3, <2>4, <2>5
    <2>7. M \in 0..N
      OBVIOUS
    <2> HIDE DEF Partial
    <2> QED BY <2>6, <2>7
  <1>3. N \in T
    <2> HIDE DEF T
    <2>1. 0..N \subseteq T
      BY <1>1, <1>2, Induction
    <2> QED BY <2>1
  <1>4. PICK f \in [0..N -> V] : f[0] = b /\ \A n \in 1..N : f[n] = G[n][f[n - 1]]
    BY <1>3
  <1>5. \A n \in 0..N : f[n] = IF n = 0 THEN b ELSE G[n][f[n - 1]]
    BY <1>4
  <1>6. f = [n \in 0..N |-> IF n = 0 THEN b ELSE G[n][f[n - 1]]]
    BY <1>5
  <1> QED BY <1>6 DEF Defined

-----------------------------------------------------------------------------
(* Plans that the router has validated.                                    *)

\* What a plan may come to: no more calls and requests than remain, none observed before
Plans(remaining, observed) ==
  {v \in [calls : Seq(Call), requests : Seq(Call)] :
     /\ Range(v.calls) \intersect observed = {}
     /\ Range(v.requests) \intersect observed = {}
     /\ Len(v.calls) + Len(v.requests) <= remaining}

LEMMA RangeOfAppended ==
  ASSUME NEW S, NEW s \in Seq(S), NEW e \in S
  PROVE  /\ Append(s, e) \in Seq(S) /\ Len(Append(s, e)) = Len(s) + 1 /\ Len(s) \in Nat
         /\ Range(Append(s, e)) \subseteq Range(s) \union {e}
  <1>1. /\ Append(s, e) \in Seq(S) /\ Len(Append(s, e)) = Len(s) + 1 /\ Len(s) \in Nat
        /\ DOMAIN Append(s, e) = 1..(Len(s) + 1) /\ DOMAIN s = 1..Len(s)
    OBVIOUS
  <1>2. \A i \in 1..(Len(s) + 1) : Append(s, e)[i] \in Range(s) \union {e}
    <2> SUFFICES ASSUME NEW i \in 1..(Len(s) + 1) PROVE Append(s, e)[i] \in Range(s) \union {e}
      OBVIOUS
    <2>1. CASE i = Len(s) + 1
      BY <1>1, <2>1
    <2>2. CASE i # Len(s) + 1
      <3>1. i \in DOMAIN s /\ Append(s, e)[i] = s[i]
        BY <1>1, <2>2
      <3> QED BY <3>1 DEF Range
    <2> QED BY <2>1, <2>2
  <1> QED BY <1>1, <1>2 DEF Range

LEMMA OneMore ==
  ASSUME NEW a \in Nat, NEW c \in Nat, NEW r \in Nat, a + c < r
  PROVE  (a + 1) + c <= r /\ a + (c + 1) <= r
  OBVIOUS

LEMMA JudgedIsPlan ==
  ASSUME NEW v, NEW proposal \in Proposal, NEW catalogue, NEW remaining \in Nat,
         NEW observed, v \in Plans(remaining, observed)
  PROVE  Judged(v, proposal, catalogue, remaining, observed) \in Plans(remaining, observed)
  <1> DEFINE w == Judged(v, proposal, catalogue, remaining, observed)
  <1>1. v \in [calls : Seq(Call), requests : Seq(Call)]
    BY DEF Plans
  <1>2. CASE ~Passes(v, proposal, catalogue, remaining, observed)
    BY <1>2 DEF Judged
  <1>3. CASE Passes(v, proposal, catalogue, remaining, observed)
    <2>1. /\ proposal \in Call /\ proposal \notin observed
          /\ Len(v.calls) + Len(v.requests) < remaining
      BY <1>3 DEF Passes, Proposal, Call
    <2>2. /\ v.calls \in Seq(Call) /\ v.requests \in Seq(Call)
          /\ Len(v.calls) \in Nat /\ Len(v.requests) \in Nat
          /\ Range(v.calls) \intersect observed = {} /\ Range(v.requests) \intersect observed = {}
      BY <1>1 DEF Plans
    <2>5. /\ Len(v.calls) \in Nat /\ Len(v.requests) \in Nat
          /\ Len(v.calls) + Len(v.requests) < remaining
      BY <2>1, <2>2
    <2>3. CASE catalogue[proposal.tool] = "auto"
      <3> DEFINE calls == Append(v.calls, proposal)
      <3>1. w = [calls |-> calls, requests |-> v.requests]
        BY <1>1, <1>3, <2>3 DEF Judged
      <3>2. /\ calls \in Seq(Call) /\ Len(calls) = Len(v.calls) + 1
            /\ Range(calls) \subseteq Range(v.calls) \union {proposal}
        BY <2>1, <2>2, RangeOfAppended
      <3> HIDE DEF calls, w
      <3>4. Len(calls) = Len(v.calls) + 1 /\ Len(calls) \in Nat
        BY <3>2
      <3>3. Len(calls) + Len(v.requests) <= remaining
        BY <2>5, <3>4, OneMore
      <3>5. Range(calls) \intersect observed = {}
        BY <2>1, <2>2, <3>2
      <3>6. w \in Plans(remaining, observed)
        BY <2>2, <3>1, <3>2, <3>3, <3>5 DEF Plans
      <3> QED BY <3>6 DEF w
    <2>4. CASE catalogue[proposal.tool] # "auto"
      <3> DEFINE requests == Append(v.requests, proposal)
      <3>1. w = [calls |-> v.calls, requests |-> requests]
        BY <1>1, <1>3, <2>4 DEF Judged
      <3>2. /\ requests \in Seq(Call) /\ Len(requests) = Len(v.requests) + 1
            /\ Range(requests) \subseteq Range(v.requests) \union {proposal}
        BY <2>1, <2>2, RangeOfAppended
      <3> HIDE DEF requests, w
      <3>4. Len(requests) = Len(v.requests) + 1 /\ Len(requests) \in Nat
        BY <3>2
      <3>3. Len(v.calls) + Len(requests) <= remaining
        BY <2>5, <3>4, OneMore
      <3>5. Range(requests) \intersect observed = {}
        BY <2>1, <2>2, <3>2
      <3>6. w \in Plans(remaining, observed)
        BY <2>2, <3>1, <3>2, <3>3, <3>5 DEF Plans
      <3> QED BY <3>6 DEF w
    <2> QED BY <2>3, <2>4
  <1> QED BY <1>2, <1>3

\* Whatever the model proposes, the router makes a plan of it that is within what remains.
LEMMA ValidatedIsPlan ==
  ASSUME NEW proposals \in Proposals, NEW catalogue, NEW remaining \in Nat, NEW observed
  PROVE  Validated(proposals, catalogue, remaining, observed) \in Plans(remaining, observed)
  <1> DEFINE N == Len(proposals)
             V == Plans(remaining, observed)
             b == [calls |-> <<>>, requests |-> <<>>]
             G == [n \in 1..N |->
                     [v \in V |-> Judged(v, proposals[n], catalogue, remaining, observed)]]
             F == CHOOSE f : f = [n \in 0..N |->
                    IF n = 0 THEN b
                    ELSE Judged(f[n - 1], proposals[n], catalogue, remaining, observed)]
  <1>1. N \in Nat /\ \A n \in 1..N : proposals[n] \in Proposal
    <2>1. PICK n \in 0..MaxProposals : proposals \in [1..n -> Proposal]
      BY DEF Proposals
    <2> QED BY <2>1, RouterAssumption
  <1>2. b \in V
    BY DEF Plans, Range
  <1>3. G \in [1..N -> [V -> V]]
    BY <1>1, JudgedIsPlan
  <1>4. /\ \A n \in 1..N : \A v \in V :
             G[n][v] = Judged(v, proposals[n], catalogue, remaining, observed)
        /\ N \in Nat
    BY <1>1
  <1> HIDE DEF V, G, N, b
  <1>5. PICK f \in [0..N -> V] : f = [n \in 0..N |-> IF n = 0 THEN b ELSE G[n][f[n - 1]]]
    <2>1. N \in Nat /\ b \in V /\ G \in [1..N -> [V -> V]]
      BY <1>2, <1>3, <1>4
    <2>2. Defined(N, V, b, G)
      BY <2>1, Recursion
    <2> QED BY <2>2 DEF Defined
  <1>6. \A n \in 0..N : f[n] = IF n = 0 THEN b
            ELSE Judged(f[n - 1], proposals[n], catalogue, remaining, observed)
    <2> SUFFICES ASSUME NEW n \in 0..N
                 PROVE  f[n] = IF n = 0 THEN b
                          ELSE Judged(f[n - 1], proposals[n], catalogue, remaining, observed)
      OBVIOUS
    <2>1. f[n] = IF n = 0 THEN b ELSE G[n][f[n - 1]]
      BY <1>5
    <2>2. ASSUME n # 0
          PROVE  G[n][f[n - 1]] = Judged(f[n - 1], proposals[n], catalogue, remaining, observed)
      <3>1. n \in 1..N /\ n - 1 \in 0..N
        BY <1>4, <2>2
      <3>2. f[n - 1] \in V
        BY <1>5, <3>1
      <3> QED BY <1>4, <3>1, <3>2
    <2> QED BY <2>1, <2>2
  <1>8. f = [n \in 0..N |->
               IF n = 0 THEN b
               ELSE Judged(f[n - 1], proposals[n], catalogue, remaining, observed)]
    BY <1>5, <1>6
  <1>9. F = [n \in 0..N |->
               IF n = 0 THEN b
               ELSE Judged(F[n - 1], proposals[n], catalogue, remaining, observed)]
    BY <1>8, Zenon
  <1>10. \A n \in 0..N : F[n] = IF n = 0 THEN b
            ELSE Judged(F[n - 1], proposals[n], catalogue, remaining, observed)
    <2> HIDE DEF F
    <2> QED BY <1>9
  <1>7. \A n \in 0..N : F[n] \in V
    <2> DEFINE T == {n \in 0..N : F[n] \in V}
    <2> HIDE DEF F
    <2>1. 0 \in T
      BY <1>2, <1>4, <1>10
    <2>2. ASSUME NEW n \in 1..N, n - 1 \in T PROVE n \in T
      <3>1. F[n] = Judged(F[n - 1], proposals[n], catalogue, remaining, observed)
        BY <1>4, <1>10
      <3>2. F[n - 1] \in V /\ n \in 0..N
        BY <1>4, <2>2
      <3>3. proposals[n] \in Proposal
        BY <1>1 DEF N
      <3>4. F[n] \in V
        BY <3>1, <3>2, <3>3, JudgedIsPlan DEF V
      <3> QED BY <3>2, <3>4
    <2> HIDE DEF T
    <2>3. 0..N \subseteq T
      BY <1>4, <2>1, <2>2, Induction
    <2> QED BY <2>3 DEF T
  <1>11. Validated(proposals, catalogue, remaining, observed) = F[N]
    BY DEF Validated, F, N, b
  <1> QED BY <1>4, <1>7, <1>11 DEF V

-----------------------------------------------------------------------------
(* The budget of a run.                                                    *)

\* Calls made and not taken back by a crash
Live == issued \ takenBack
Calling == {"call", "execution"}

\* The keys of the calls of a round
Keys(g) ==
  {[by |-> "agent", round |-> g.round, index |-> i - 1, call |-> g.calls[i]] : i \in 1..Len(g.calls)}

Earlier(g, live) == {k \in live : k.round < g.round}
Sofar(g, live) == {k \in live : k.round >= g.round}

\* What a graph has counted pays for the calls of the rounds that are over; it has room for
\* those of its round.
Sound(g, live) ==
  /\ g.node # "lost"
  /\ g.node \in Calling \union {"approval"} => g.round < RoundLimit
  /\ g.node = "approval" => Len(g.calls) = 1 /\ g.count < CallLimit
  /\ g.node \in Calling => g.count + Len(g.calls) <= CallLimit
  /\ g.count <= CallLimit
  /\ Cardinality(Earlier(g, live)) <= g.count

\* In its round the graph issues the calls it has planned.
Planning(g, live) == Sofar(g, live) \subseteq IF g.node \in Calling THEN Keys(g) ELSE {}

\* The checkpoint a retry goes back to: where it is about to call, its calls are those of the
\* round it saved, for as long as the round lasts.
Resumable(live) ==
  /\ Sound(savedGraph, live)
  /\ graph.node # "lost" /\ savedGraph.round <= graph.round
  /\ savedGraph.node = "call" =>
       /\ {k \in live : k.round = savedGraph.round} \subseteq Keys(savedGraph)
       /\ savedGraph.round = graph.round => graph.node \in Calling /\ graph.calls = savedGraph.calls

RouterInv ==
  /\ RouterTypeOK /\ IsFiniteSet(issued)
  /\ graph.node = "lost" => Cardinality(Live) <= CallLimit
  /\ graph.node # "lost" => Sound(graph, Live) /\ Planning(graph, Live)
  /\ ~resumed => Resumable(Live)

\* Calls that a person has rejected are observed before anything is planned again.
Remembered ==
  /\ rejected # {} => resumed
  /\ graph.node # "lost" =>
       rejected \subseteq graph.observed \union (IF graph.node = "observe" THEN graph.results ELSE {})
  /\ graph.node \in Calling \union {"approval"} => Range(graph.calls) \intersect rejected = {}

LEMMA KeysAreFew ==
  ASSUME NEW g \in Graph
  PROVE  IsFiniteSet(Keys(g)) /\ Cardinality(Keys(g)) <= Len(g.calls) /\ Len(g.calls) \in Nat
  <1>1. g.calls \in Seq(Call) /\ Len(g.calls) \in Nat
    BY DEF Graph
  <1> DEFINE n == Len(g.calls)
             f == [i \in 1..n |->
                     [by |-> "agent", round |-> g.round, index |-> i - 1, call |-> g.calls[i]]]
  <1>2. f \in Surjection(1..n, Keys(g))
    BY DEF Surjection, Keys
  <1>3. IsFiniteSet(1..n) /\ Cardinality(1..n) = n
    BY <1>1, FS_Interval
  <1> HIDE DEF f
  <1>4. IsFiniteSet(Keys(g)) /\ Cardinality(Keys(g)) <= Cardinality(1..n)
    BY <1>2, <1>3, FS_Surjection
  <1> QED BY <1>1, <1>3, <1>4

\* The calls so far and those of the round are no more than what pays for them.
LEMMA RoundIsPaid ==
  ASSUME NEW g \in Graph, NEW live \in SUBSET Key, IsFiniteSet(live),
         NEW extra, IsFiniteSet(extra), NEW n \in Nat, Cardinality(extra) <= n,
         Sofar(g, live) \subseteq extra, Cardinality(Earlier(g, live)) <= g.count
  PROVE  Cardinality(live) <= g.count + n /\ g.count \in Nat
  <1>1. g.round \in Nat /\ g.count \in Nat /\ \A k \in live : k.round \in Nat
    BY RouterAssumption DEF Graph, Key
  <1>2. live \subseteq Earlier(g, live) \union extra
    BY <1>1 DEF Earlier, Sofar
  <1>3. Earlier(g, live) \in SUBSET live
    BY DEF Earlier
  <1>4. IsFiniteSet(Earlier(g, live))
    BY <1>3, FS_Subset
  <1>5. /\ IsFiniteSet(Earlier(g, live) \union extra)
        /\ Cardinality(Earlier(g, live) \union extra) =
             Cardinality(Earlier(g, live)) + Cardinality(extra)
             - Cardinality(Earlier(g, live) \intersect extra)
    BY <1>4, FS_Union
  <1>6. Earlier(g, live) \intersect extra \in SUBSET extra
    OBVIOUS
  <1>7. IsFiniteSet(Earlier(g, live) \intersect extra)
    BY <1>6, FS_Subset
  <1>8. /\ Cardinality(Earlier(g, live)) \in Nat /\ Cardinality(extra) \in Nat
        /\ Cardinality(Earlier(g, live) \intersect extra) \in Nat /\ Cardinality(live) \in Nat
    BY <1>4, <1>7, FS_CardinalityType
  <1>9. Cardinality(live) <= Cardinality(Earlier(g, live) \union extra)
    BY <1>2, <1>5, FS_Subset
  <1> QED BY <1>1, <1>5, <1>8, <1>9

\* Calls taken back leave a graph as sound as it was, and so do calls of a later round.
LEMMA SoundFewer ==
  ASSUME NEW g \in Graph, NEW live \in SUBSET Key, IsFiniteSet(live), Sound(g, live),
         NEW fewer \in SUBSET Key, Earlier(g, fewer) \subseteq live
  PROVE  Sound(g, fewer)
  <1>1. Earlier(g, fewer) \in SUBSET Earlier(g, live)
    BY DEF Earlier
  <1>2. IsFiniteSet(Earlier(g, live))
    <2>1. Earlier(g, live) \in SUBSET live
      BY DEF Earlier
    <2> QED BY <2>1, FS_Subset
  <1>3. /\ Cardinality(Earlier(g, fewer)) <= Cardinality(Earlier(g, live))
        /\ IsFiniteSet(Earlier(g, fewer))
    BY <1>1, <1>2, FS_Subset
  <1>4. Cardinality(Earlier(g, fewer)) \in Nat /\ Cardinality(Earlier(g, live)) \in Nat
    BY <1>2, <1>3, FS_CardinalityType
  <1>5. g.count \in Nat
    BY DEF Graph
  <1>6. Cardinality(Earlier(g, live)) <= g.count
    BY DEF Sound
  <1>7. Cardinality(Earlier(g, fewer)) <= g.count
    BY <1>3, <1>4, <1>5, <1>6
  <1> QED BY <1>7 DEF Sound

\* A sound graph that issues what it has planned is within the budget.
LEMMA SoundIsWithin ==
  ASSUME NEW g \in Graph, NEW live \in SUBSET Key, IsFiniteSet(live), Sound(g, live),
         Planning(g, live)
  PROVE  Cardinality(live) <= CallLimit
  <1>1. g.count <= CallLimit /\ g.count \in Nat /\ CallLimit \in Nat
    BY RouterAssumption DEF Sound, Graph
  <1>2. Cardinality(live) \in Nat
    BY FS_CardinalityType
  <1>3. Cardinality(Earlier(g, live)) <= g.count
    BY DEF Sound
  <1>4. CASE g.node \in Calling
    <2>1. Sofar(g, live) \subseteq Keys(g) /\ g.count + Len(g.calls) <= CallLimit
      BY <1>4 DEF Planning, Sound
    <2>2. Cardinality(live) <= g.count + Len(g.calls) /\ Len(g.calls) \in Nat
      BY <1>3, <2>1, KeysAreFew, RoundIsPaid
    <2> QED BY <1>1, <1>2, <2>1, <2>2
  <1>5. CASE g.node \notin Calling
    <2>1. Sofar(g, live) \subseteq {} /\ IsFiniteSet({}) /\ Cardinality({}) <= 0
      BY <1>5, FS_EmptySet DEF Planning
    <2>2. Cardinality(live) <= g.count + 0
      BY <1>3, <2>1, RoundIsPaid
    <2> QED BY <1>1, <1>2, <2>2
  <1> QED BY <1>4, <1>5

\* When a round is over, what has been counted pays for all calls, and none is of the next.
LEMMA RoundIsOver ==
  ASSUME NEW g \in Graph, NEW new \in Graph, NEW live \in SUBSET Key, IsFiniteSet(live),
         new.round = g.round + 1, new.node = "observe", Cardinality(live) <= new.count,
         new.count <= CallLimit, \A k \in live : k.round <= g.round
  PROVE  Sound(new, live) /\ Planning(new, live)
  <1>1. g.round \in Nat /\ new.count \in Nat /\ \A k \in live : k.round \in Nat
    BY RouterAssumption DEF Graph, Key
  <1>2. Earlier(new, live) = live /\ Sofar(new, live) = {}
    BY <1>1 DEF Earlier, Sofar
  <1>3. new.node \notin Calling \union {"approval", "lost"}
    BY DEF Calling
  <1> QED BY <1>2, <1>3 DEF Sound, Planning

LEMMA NothingAhead ==
  ASSUME NEW g \in Graph, NEW live \in SUBSET Key, Planning(g, live), NEW k \in live
  PROVE  /\ k.round <= g.round
         /\ k.round = g.round => g.node \in Calling /\ k \in Keys(g)
  <1>1. k.round \in Nat /\ g.round \in Nat
    BY RouterAssumption DEF Graph, Key
  <1>2. \A key \in Keys(g) : key.round = g.round
    BY DEF Keys
  <1>3. k.round >= g.round => k \in Sofar(g, live)
    BY DEF Sofar
  <1>4. CASE g.node \in Calling
    BY <1>1, <1>2, <1>3, <1>4 DEF Planning
  <1>5. CASE g.node \notin Calling
    BY <1>1, <1>3, <1>5 DEF Planning
  <1> QED BY <1>4, <1>5

LEMMA LiveTypes ==
  ASSUME RouterInv
  PROVE  /\ Live \in SUBSET Key /\ IsFiniteSet(Live)
         /\ graph \in Graph /\ savedGraph \in Graph /\ resumed \in BOOLEAN
  <1>1. /\ Live \in SUBSET issued /\ issued \subseteq Key /\ IsFiniteSet(issued)
        /\ graph \in Graph /\ savedGraph \in Graph /\ resumed \in BOOLEAN
    BY DEF RouterInv, RouterTypeOK, Live
  <1> QED BY <1>1, FS_Subset

\* A step of the graph: what it issues is of its round, and the checkpoint may keep up.
LEMMA GraphMoves ==
  ASSUME RouterInv, graph.node # "lost",
         NEW new \in Graph, graph' = new, savedGraph' \in {savedGraph, new},
         NEW live, Live' = live, Live \subseteq live,
         \A k \in live \ Live : k.round = graph.round /\ (resumed' \/ k \in Keys(graph)),
         IsFiniteSet(issued'), issued' \subseteq Key, takenBack' \subseteq issued',
         Sound(new, live), Planning(new, live), graph.round <= new.round,
         resumed' \in BOOLEAN, resumed => resumed',
         ~resumed' /\ new.round = graph.round /\ graph.node \in Calling =>
           new.node \in Calling /\ new.calls = graph.calls,
         client' \in Catalogue, UNCHANGED <<configVars, crashes>>, rejected' \subseteq Call
  PROVE  RouterInv'
  <1>1. savedGraph' \in Graph /\ live \in SUBSET Key
    BY LiveTypes DEF Live
  <1>2. RouterTypeOK'
    BY <1>1 DEF RouterInv, RouterTypeOK, configVars
  <1>3. graph'.node # "lost"
    BY DEF Sound
  <1>4. ASSUME ~resumed' PROVE Resumable(Live)'
    <2>1. /\ ~resumed /\ Resumable(Live) /\ graph \in Graph /\ savedGraph \in Graph
          /\ Live \in SUBSET Key /\ IsFiniteSet(Live)
      BY <1>4, LiveTypes DEF RouterInv
    <2>2. /\ graph.round \in Nat /\ savedGraph.round \in Nat /\ new.round \in Nat
          /\ \A k \in live : k.round \in Nat
      BY <1>1, <2>1, RouterAssumption DEF Graph, Key
    <2>3. CASE savedGraph' = new
      <3>1. ASSUME new.node = "call"
            PROVE  {k \in live : k.round = new.round} \subseteq Keys(new) /\ new.node \in Calling
        BY <1>1, <3>1, NothingAhead DEF Calling
      <3>2. new.round <= new.round
        BY <2>2
      <3> QED BY <1>3, <2>3, <3>1, <3>2 DEF Resumable, Keys
    <2>4. CASE savedGraph' = savedGraph
      <3>1. /\ Sound(savedGraph, Live) /\ savedGraph.round <= graph.round
            /\ savedGraph.node = "call" =>
                 /\ {k \in Live : k.round = savedGraph.round} \subseteq Keys(savedGraph)
                 /\ savedGraph.round = graph.round =>
                      graph.node \in Calling /\ graph.calls = savedGraph.calls
        BY <2>1 DEF Resumable
      <3>2. Earlier(savedGraph, live) \subseteq Live
        BY <2>2, <3>1 DEF Earlier
      <3>3. Sound(savedGraph, live)
        BY <1>1, <2>1, <3>1, <3>2, SoundFewer
      <3>4. savedGraph.round <= new.round
        BY <2>2, <3>1
      <3>5. ASSUME savedGraph.node = "call", NEW k \in live, k.round = savedGraph.round
            PROVE  k \in Keys(savedGraph)
        <4>1. CASE k \in Live
          BY <3>1, <3>5, <4>1
        <4>2. CASE k \notin Live
          <5>1. k.round = graph.round /\ k \in Keys(graph) /\ savedGraph.round = graph.round
            BY <1>4, <3>5, <4>2
          <5>2. graph.calls = savedGraph.calls
            BY <3>1, <3>5, <5>1
          <5> QED BY <5>1, <5>2 DEF Keys
        <4> QED BY <4>1, <4>2
      <3>6. ASSUME savedGraph.node = "call", savedGraph.round = new.round
            PROVE  new.node \in Calling /\ new.calls = savedGraph.calls
        <4>1. savedGraph.round = graph.round /\ new.round = graph.round
          BY <2>2, <3>1, <3>6
        <4>2. graph.node \in Calling /\ graph.calls = savedGraph.calls
          BY <3>1, <3>6, <4>1
        <4> QED BY <1>4, <4>1, <4>2
      <3> QED BY <1>3, <2>4, <3>3, <3>4, <3>5, <3>6 DEF Resumable, Keys
    <2> QED BY <2>3, <2>4
  <1> QED BY <1>2, <1>3, <1>4 DEF RouterInv

LEMMA Bounds ==
  /\ CallLimit \in Nat /\ RoundLimit \in Nat /\ MaxProposals \in Nat
  /\ MaxChanges \in Nat /\ MaxCrashes \in Nat
  BY RouterAssumption

LEMMA RouterInitial == RouterInit => RouterInv
  <1> SUFFICES ASSUME RouterInit PROVE RouterInv
    OBVIOUS
  <1>1. client \in Catalogue /\ NoCatalogue \in Catalogue
    BY DEF RouterInit, Configured, Catalogue, Policy, NoCatalogue
  <1>2. grants \subseteq Grant
    BY DEF RouterInit, Grant
  <1>3. graph \in Graph
    BY <1>1, RouterAssumption DEF RouterInit, Graph
  <1>4. RouterTypeOK
    <2>1. policies \in [Tool -> Policy] /\ 0 \in 0..MaxChanges /\ 0 \in 0..MaxCrashes
      BY Bounds DEF RouterInit
    <2> QED BY <1>1, <1>2, <1>3, <2>1 DEF RouterInit, RouterTypeOK
  <1>5. Live = {} /\ Cardinality(Live) = 0 /\ IsFiniteSet(issued)
    BY FS_EmptySet DEF RouterInit, Live
  <1>6. /\ graph.node = "agent" /\ graph.count = 0 /\ graph.round = 0 /\ savedGraph = graph
        /\ "agent" \notin Calling \union {"approval", "lost", "call"}
    BY DEF RouterInit, Calling
  <1>7. Earlier(graph, Live) = {} /\ Sofar(graph, Live) = {}
    BY <1>5 DEF Earlier, Sofar
  <1>8. Sound(graph, Live) /\ Planning(graph, Live)
    BY <1>5, <1>6, <1>7, Bounds DEF Sound, Planning
  <1>9. Resumable(Live)
    BY <1>6, <1>8 DEF Resumable
  <1> QED BY <1>4, <1>5, <1>6, <1>8, <1>9 DEF RouterInv

\* Steps of the graph that issue nothing and stay in the round
LEMMA StayInRound ==
  ASSUME RouterInv, NEW new \in Graph, graph' = new, savedGraph' \in {savedGraph, new},
         graph.node # "lost", UNCHANGED <<issued, takenBack, configVars, crashes>>,
         Sound(new, Live), Planning(new, Live), new.round = graph.round,
         resumed' \in BOOLEAN, resumed => resumed',
         ~resumed' /\ graph.node \in Calling => new.node \in Calling /\ new.calls = graph.calls,
         client' \in Catalogue, rejected' \subseteq Call
  PROVE  RouterInv'
  <1>1. Live' = Live /\ \A k \in Live \ Live : FALSE
    BY DEF Live
  <1>2. IsFiniteSet(issued') /\ issued' \subseteq Key /\ takenBack' \subseteq issued'
    BY DEF RouterInv, RouterTypeOK
  <1>3. graph.round <= new.round
    BY RouterAssumption DEF Graph
  <1>4. UNCHANGED <<configVars, crashes>> /\ Live \subseteq Live
    OBVIOUS
  <1>5. \A k \in Live \ Live : k.round = graph.round /\ (resumed' \/ k \in Keys(graph))
    BY <1>1
  <1> QED BY <1>1, <1>2, <1>3, <1>4, <1>5, GraphMoves

\* Of one round and count, graphs differ in what they may still issue.
LEMMA SoundElsewhere ==
  ASSUME RouterInv, graph.node # "lost", NEW new \in Graph,
         new.round = graph.round, new.count = graph.count,
         new.node \in {"agent", "plan"}, graph.node \notin Calling
  PROVE  Sound(new, Live) /\ Planning(new, Live)
  <1>1. Sound(graph, Live) /\ Planning(graph, Live)
    BY DEF RouterInv
  <1>2. Earlier(new, Live) = Earlier(graph, Live) /\ Sofar(new, Live) = Sofar(graph, Live)
    BY DEF Earlier, Sofar
  <1>3. new.node \notin Calling \union {"approval", "lost"}
    BY DEF Calling
  <1> QED BY <1>1, <1>2, <1>3 DEF Sound, Planning

LEMMA ConfiguredTypes ==
  ASSUME policies \in [Tool -> Policy], NEW answering
  PROVE  Configured \in Catalogue /\ Discovered(Configured, answering) \in Catalogue
  BY DEF Configured, Discovered, Catalogue

LEMMA ClientStays ==
  ASSUME RouterInv
  PROVE  client \in Catalogue /\ rejected \subseteq Call /\ policies \in [Tool -> Policy]
  BY DEF RouterInv, RouterTypeOK

LEMMA AskStep ==
  ASSUME RouterInv, AskForPatch
  PROVE  RouterInv'
  <1> DEFINE new == [graph EXCEPT !.node = "plan"]
  <1>1. graph \in Graph /\ resumed \in BOOLEAN /\ graph.node = "agent"
    BY LiveTypes DEF AskForPatch
  <1>2. new \in Graph /\ new.round = graph.round /\ new.count = graph.count /\ new.node = "plan"
    BY <1>1 DEF Graph
  <1>3. /\ graph' = new /\ savedGraph' \in {savedGraph, new}
        /\ UNCHANGED <<issued, takenBack, configVars, crashes, client, resumed, rejected>>
    BY DEF AskForPatch, Move
  <1>4. graph.node \notin Calling /\ graph.node # "lost"
    BY <1>1 DEF Calling
  <1> HIDE DEF new
  <1>5. Sound(new, Live) /\ Planning(new, Live)
    BY <1>2, <1>4, SoundElsewhere
  <1> QED BY <1>1, <1>2, <1>3, <1>4, <1>5, StayInRound, ClientStays

LEMMA Room ==
  ASSUME NEW a \in Nat, NEW b \in Nat, NEW c \in Nat, NEW l \in Nat, a + b <= l - c
  PROVE  c + a <= l /\ (b > 0 => c < l)
  OBVIOUS

\* What the router makes of any proposals leaves the graph within its budget.
LEMMA PlannedIsSound ==
  ASSUME RouterInv, graph.node = "plan", graph.round < RoundLimit,
         NEW catalogue \in Catalogue, NEW proposals \in Proposals,
         NEW new, new = Planned([graph EXCEPT !.catalogue = catalogue],
                                Validated(proposals, catalogue, Remaining(graph.count), graph.observed))
  PROVE  /\ new \in Graph /\ new.round = graph.round /\ Sound(new, Live) /\ Planning(new, Live)
         /\ new.observed = graph.observed /\ new.node \in {"agent", "approval", "call"}
         /\ new.node # "agent" => Range(new.calls) \intersect graph.observed = {}
  <1> DEFINE listed == [graph EXCEPT !.catalogue = catalogue]
             v == Validated(proposals, catalogue, Remaining(graph.count), graph.observed)
  <1>1. graph \in Graph /\ Sound(graph, Live) /\ Planning(graph, Live)
    BY LiveTypes DEF RouterInv
  <1>2. graph.count \in Nat /\ graph.count <= CallLimit /\ Remaining(graph.count) \in Nat
    BY <1>1, RouterAssumption DEF Graph, Sound, Remaining
  <1>3. v \in Plans(Remaining(graph.count), graph.observed)
    BY <1>2, ValidatedIsPlan
  <1>4. /\ listed \in Graph /\ listed.round = graph.round /\ listed.count = graph.count
        /\ listed.observed = graph.observed /\ listed.node = "plan"
    BY <1>1 DEF Graph
  <1> HIDE DEF v, listed
  <1>5. new = Planned(listed, v)
    BY DEF v, listed
  <1>6. /\ v.calls \in Seq(Call) /\ v.requests \in Seq(Call)
        /\ Len(v.calls) \in Nat /\ Len(v.requests) \in Nat
        /\ Len(v.calls) + Len(v.requests) <= CallLimit - graph.count
        /\ Range(v.calls) \intersect graph.observed = {}
        /\ Range(v.requests) \intersect graph.observed = {}
    BY <1>3 DEF Plans, Remaining
  <1>12. graph.count + Len(v.calls) <= CallLimit /\ (Len(v.requests) > 0 => graph.count < CallLimit)
    BY <1>2, <1>6, Bounds, Room
  <1>7. "plan" \notin Calling \union {"approval", "lost"} /\ Sofar(graph, Live) = {}
    BY <1>1 DEF Planning, Calling
  <1>8. ASSUME new \in Graph, new.round = graph.round, new.count = graph.count,
               new.node \in {"agent", "approval", "call"},
               new.node = "approval" => Len(new.calls) = 1 /\ graph.count < CallLimit,
               new.node = "call" => graph.count + Len(new.calls) <= CallLimit
        PROVE  Sound(new, Live) /\ Planning(new, Live)
    <2>1. Earlier(new, Live) = Earlier(graph, Live) /\ Sofar(new, Live) = {}
      BY <1>7, <1>8 DEF Earlier, Sofar
    <2> QED BY <1>1, <1>8, <2>1 DEF Sound, Planning, Calling
  <1>9. CASE v.requests # <<>>
    <2> DEFINE request == <<Head(v.requests)>>
    <2>1. new = [listed EXCEPT !.node = "approval", !.calls = request]
      BY <1>5, <1>9 DEF Planned
    <2>2. Len(v.requests) > 0 /\ v.requests[1] \in Call /\ Head(v.requests) = v.requests[1]
      BY <1>6, <1>9
    <2>3. request \in Seq(Call) /\ Len(request) = 1 /\ Range(request) = {v.requests[1]}
      BY <2>2 DEF Range
    <2>4. v.requests[1] \in Range(v.requests)
      BY <1>6, <2>2 DEF Range
    <2> HIDE DEF request
    <2>5. /\ new \in Graph /\ new.round = graph.round /\ new.count = graph.count
          /\ new.observed = graph.observed /\ new.node = "approval" /\ new.calls = request
      BY <1>4, <2>1, <2>3 DEF Graph
    <2>6. graph.count < CallLimit
      BY <1>12, <2>2
    <2> QED BY <1>6, <1>8, <2>3, <2>4, <2>5, <2>6
  <1>10. CASE v.requests = <<>> /\ v.calls # <<>>
    <2>1. new = [listed EXCEPT !.node = "call", !.calls = v.calls]
      BY <1>5, <1>10 DEF Planned
    <2>2. /\ new \in Graph /\ new.round = graph.round /\ new.count = graph.count
          /\ new.observed = graph.observed /\ new.node = "call" /\ new.calls = v.calls
      BY <1>4, <1>6, <2>1 DEF Graph
    <2>3. graph.count + Len(v.calls) <= CallLimit
      BY <1>12
    <2> QED BY <1>6, <1>8, <2>2, <2>3
  <1>11. CASE v.requests = <<>> /\ v.calls = <<>>
    <2>1. new = [listed EXCEPT !.node = "agent"]
      BY <1>5, <1>11 DEF Planned
    <2>2. /\ new \in Graph /\ new.round = graph.round /\ new.count = graph.count
          /\ new.observed = graph.observed /\ new.node = "agent"
      BY <1>4, <2>1 DEF Graph
    <2> QED BY <1>8, <2>2
  <1> QED BY <1>9, <1>10, <1>11

LEMMA PlanStep ==
  ASSUME RouterInv, NEW catalogue \in Catalogue, PlanMCPTools(catalogue)
  PROVE  RouterInv'
  <1>1. /\ graph \in Graph /\ resumed \in BOOLEAN /\ graph.node = "plan"
        /\ "plan" \notin Calling \union {"lost"}
        /\ UNCHANGED <<issued, takenBack, configVars, crashes, client, resumed, rejected>>
    BY LiveTypes DEF PlanMCPTools, Calling
  <1>2. ASSUME NEW new \in Graph, Move(new), new.round = graph.round,
               Sound(new, Live), Planning(new, Live)
        PROVE  RouterInv'
    <2>1. graph' = new /\ savedGraph' \in {savedGraph, new}
      BY <1>2 DEF Move
    <2> QED BY <1>1, <1>2, <2>1, StayInRound, ClientStays
  <1>3. CASE graph.round >= RoundLimit
    <2> DEFINE new == [graph EXCEPT !.node = "agent"]
    <2>1. Move(new)
      BY <1>3 DEF PlanMCPTools
    <2>2. new \in Graph /\ new.round = graph.round /\ new.count = graph.count /\ new.node = "agent"
      BY <1>1 DEF Graph
    <2> HIDE DEF new
    <2> QED BY <1>1, <1>2, <2>1, <2>2, SoundElsewhere
  <1>4. CASE ~(graph.round >= RoundLimit)
    <2>1. PICK proposals \in Proposals :
            Move(Planned([graph EXCEPT !.catalogue = catalogue],
                   Validated(proposals, catalogue, Remaining(graph.count), graph.observed)))
      BY <1>4 DEF PlanMCPTools
    <2> DEFINE new == Planned([graph EXCEPT !.catalogue = catalogue],
                   Validated(proposals, catalogue, Remaining(graph.count), graph.observed))
    <2>2. graph.round < RoundLimit
      BY <1>1, <1>4, RouterAssumption DEF Graph
    <2>3. new \in Graph /\ new.round = graph.round /\ Sound(new, Live) /\ Planning(new, Live)
      BY <1>1, <2>2, PlannedIsSound
    <2>4. Move(new)
      BY <2>1
    <2> HIDE DEF new
    <2> QED BY <1>2, <2>3, <2>4
  <1> QED BY <1>3, <1>4

LEMMA IssueKeeps ==
  ASSUME RouterInv, NEW key \in Key, Issue(key)
  PROVE  /\ Live' = Live \union {key} /\ Live \union {key} \in SUBSET Key
         /\ IsFiniteSet(Live \union {key})
         /\ IsFiniteSet(issued') /\ issued' \subseteq Key /\ takenBack' \subseteq issued'
  <1>1. /\ issued' = issued \union {key} /\ takenBack' = takenBack \ {key}
        /\ issued \subseteq Key /\ takenBack \subseteq issued /\ IsFiniteSet(issued)
    BY DEF Issue, RouterInv, RouterTypeOK
  <1>2. Live' = Live \union {key}
    BY <1>1 DEF Live
  <1>3. IsFiniteSet(issued \union {key})
    BY <1>1, FS_AddElement
  <1>4. Live \union {key} \in SUBSET Key /\ IsFiniteSet(Live \union {key})
    BY LiveTypes, FS_AddElement
  <1> QED BY <1>1, <1>2, <1>3, <1>4

\* A call of the round that the graph issues is one of those it has counted on.
LEMMA CallIsPlanned ==
  ASSUME RouterInv, graph.node = "call", graph.cursor < Len(graph.calls), NEW new \in Graph,
         new.node \in Calling, new.round = graph.round, new.count = graph.count,
         new.calls = graph.calls, NEW key, key = AgentKey(graph.calls[graph.cursor + 1])
  PROVE  /\ key \in Key /\ key \in Keys(graph) /\ key.round = graph.round
         /\ graph.calls[graph.cursor + 1] \in Call
         /\ Sound(new, Live) /\ Planning(new, Live)
         /\ Sound(new, Live \union {key}) /\ Planning(new, Live \union {key})
  <1>1. /\ graph \in Graph /\ graph.node \in Calling /\ graph.node # "lost"
        /\ Sound(graph, Live) /\ Planning(graph, Live)
    BY LiveTypes DEF RouterInv, Calling
  <1>2. /\ graph.round \in Nat /\ graph.cursor \in Nat /\ graph.calls \in Seq(Call)
        /\ Len(graph.calls) \in Nat
    BY <1>1, Bounds DEF Graph
  <1>3. graph.cursor + 1 \in 1..Len(graph.calls) /\ (graph.cursor + 1) - 1 = graph.cursor
    BY <1>2
  <1>4. graph.calls[graph.cursor + 1] \in Call
    BY <1>2, <1>3
  <1>5. key = [by |-> "agent", round |-> graph.round, index |-> graph.cursor,
               call |-> graph.calls[graph.cursor + 1]]
    BY DEF AgentKey
  <1>6. key \in Key /\ key.round = graph.round
    BY <1>2, <1>4, <1>5 DEF Key
  <1>7. key \in Keys(graph) /\ Keys(new) = Keys(graph)
    BY <1>3, <1>5 DEF Keys
  <1>8. /\ Earlier(new, Live) = Earlier(graph, Live) /\ Sofar(new, Live) = Sofar(graph, Live)
        /\ Earlier(new, Live \union {key}) = Earlier(graph, Live)
        /\ Sofar(new, Live \union {key}) \subseteq Sofar(graph, Live) \union {key}
    BY <1>2, <1>6 DEF Earlier, Sofar
  <1>9. new.node # "lost" /\ new.node # "approval"
    BY DEF Calling
  <1>10. Sound(new, Live) /\ Sound(new, Live \union {key})
    BY <1>1, <1>8, <1>9 DEF Sound
  <1>11. Planning(new, Live) /\ Planning(new, Live \union {key})
    BY <1>1, <1>7, <1>8 DEF Planning
  <1> QED BY <1>4, <1>6, <1>7, <1>10, <1>11

LEMMA CallStep ==
  ASSUME RouterInv, NEW answered \in BOOLEAN, CallMCPTool(answered)
  PROVE  RouterInv'
  <1> DEFINE call == graph.calls[graph.cursor + 1]
             results == IF answered THEN graph.results \union {call} ELSE graph.results
             new == [graph EXCEPT !.cursor = graph.cursor + 1, !.results = results]
             key == AgentKey(call)
  <1>1. /\ graph \in Graph /\ resumed \in BOOLEAN /\ graph.node = "call"
        /\ graph.cursor < Len(graph.calls) /\ graph.node \in Calling /\ graph.node # "lost"
    BY LiveTypes DEF CallMCPTool, Calling
  <1>2. graph' = new /\ savedGraph' \in {savedGraph, new}
    BY DEF CallMCPTool
  <1>3. UNCHANGED <<configVars, client, resumed, rejected, crashes>>
    BY DEF CallMCPTool
  <1>4. call \in Call
    BY <1>1, CallIsPlanned
  <1>5. results \in SUBSET Call /\ graph.cursor + 1 \in Nat
    BY <1>1, <1>4 DEF Graph
  <1> HIDE DEF results, call
  <1>6. /\ new \in Graph /\ new.node = "call" /\ new.round = graph.round
        /\ new.count = graph.count /\ new.calls = graph.calls
    BY <1>1, <1>5 DEF Graph
  <1> HIDE DEF new
  <1>7. /\ key \in Key /\ key \in Keys(graph) /\ key.round = graph.round
        /\ Sound(new, Live) /\ Planning(new, Live)
        /\ Sound(new, Live \union {key}) /\ Planning(new, Live \union {key})
    BY <1>1, <1>6, CallIsPlanned DEF call
  <1>8. graph.round <= new.round
    BY <1>6, Bounds DEF Graph
  <1> HIDE DEF key
  <1>9. CASE Issue(key)
    <2>1. /\ Live' = Live \union {key}
          /\ IsFiniteSet(issued') /\ issued' \subseteq Key /\ takenBack' \subseteq issued'
      BY <1>7, <1>9, IssueKeeps
    <2>2. \A k \in (Live \union {key}) \ Live :
            k.round = graph.round /\ (resumed' \/ k \in Keys(graph))
      BY <1>7
    <2> QED BY <1>1, <1>2, <1>3, <1>6, <1>7, <1>8, <2>1, <2>2, GraphMoves, ClientStays
  <1>10. CASE UNCHANGED <<issued, takenBack>>
    BY <1>1, <1>2, <1>3, <1>6, <1>7, <1>10, StayInRound, ClientStays
  <1> QED BY <1>9, <1>10 DEF CallMCPTool, key, call

LEMMA PauseStep ==
  ASSUME RouterInv, PauseForExecution
  PROVE  RouterInv'
  <1> DEFINE new == [graph EXCEPT !.node = "execution"]
             key == AgentKey(graph.calls[graph.cursor + 1])
  <1>1. /\ graph \in Graph /\ resumed \in BOOLEAN /\ graph.node = "call"
        /\ graph.cursor < Len(graph.calls) /\ graph.node # "lost"
    BY LiveTypes DEF PauseForExecution
  <1>2. graph' = new /\ savedGraph' \in {savedGraph, new}
    BY DEF PauseForExecution, Move
  <1>3. UNCHANGED <<configVars, client, resumed, rejected, crashes>> /\ Issue(key)
    BY DEF PauseForExecution
  <1>4. /\ new \in Graph /\ new.node = "execution" /\ new.round = graph.round
        /\ new.count = graph.count /\ new.calls = graph.calls /\ new.node \in Calling
    BY <1>1 DEF Graph, Calling
  <1> HIDE DEF new
  <1>5. /\ key \in Key /\ key \in Keys(graph) /\ key.round = graph.round
        /\ Sound(new, Live \union {key}) /\ Planning(new, Live \union {key})
    BY <1>1, <1>4, CallIsPlanned
  <1>6. graph.round <= new.round
    BY <1>4, Bounds DEF Graph
  <1> HIDE DEF key
  <1>7. /\ Live' = Live \union {key}
        /\ IsFiniteSet(issued') /\ issued' \subseteq Key /\ takenBack' \subseteq issued'
    BY <1>3, <1>5, IssueKeeps
  <1>8. \A k \in (Live \union {key}) \ Live :
          k.round = graph.round /\ (resumed' \/ k \in Keys(graph))
    BY <1>5
  <1> QED BY <1>1, <1>2, <1>3, <1>4, <1>5, <1>6, <1>7, <1>8, GraphMoves, ClientStays

LEMMA ResumeExecutionStep ==
  ASSUME RouterInv, ResumeFromExecution
  PROVE  RouterInv'
  <1> DEFINE new == [graph EXCEPT !.node = "call"]
  <1>1. /\ graph \in Graph /\ resumed \in BOOLEAN /\ graph.node = "execution"
        /\ graph.node \in Calling /\ graph.node # "lost" /\ "call" \in Calling
        /\ Sound(graph, Live) /\ Planning(graph, Live)
    BY LiveTypes DEF ResumeFromExecution, Calling, RouterInv
  <1>2. graph' = new /\ savedGraph' \in {savedGraph, new}
    BY DEF ResumeFromExecution, Move
  <1>3. /\ UNCHANGED <<configVars, issued, takenBack, rejected, crashes>>
        /\ resumed' = TRUE /\ client' = Configured
    BY DEF ResumeFromExecution
  <1>4. /\ new \in Graph /\ new.node = "call" /\ new.round = graph.round
        /\ new.count = graph.count /\ new.calls = graph.calls
    BY <1>1 DEF Graph
  <1> HIDE DEF new
  <1>5. /\ Earlier(new, Live) = Earlier(graph, Live) /\ Sofar(new, Live) = Sofar(graph, Live)
        /\ Keys(new) = Keys(graph)
    BY <1>4 DEF Earlier, Sofar, Keys
  <1>6. Sound(new, Live) /\ Planning(new, Live)
    BY <1>1, <1>4, <1>5 DEF Sound, Planning
  <1>7. client' \in Catalogue /\ rejected' \subseteq Call
    BY <1>3, ClientStays, ConfiguredTypes
  <1> QED BY <1>1, <1>2, <1>3, <1>4, <1>6, <1>7, StayInRound

LEMMA EndRoundStep ==
  ASSUME RouterInv, EndRound
  PROVE  RouterInv'
  <1> DEFINE count == graph.count + Len(graph.calls)
             new == [graph EXCEPT !.node = "observe", !.round = graph.round + 1, !.cursor = 0,
                                  !.count = count]
  <1>1. /\ graph \in Graph /\ resumed \in BOOLEAN /\ graph.node = "call"
        /\ graph.node \in Calling /\ graph.node # "lost"
        /\ Sound(graph, Live) /\ Planning(graph, Live)
        /\ Live \in SUBSET Key /\ IsFiniteSet(Live)
    BY LiveTypes DEF EndRound, Calling, RouterInv
  <1>2. graph' = new /\ savedGraph' \in {savedGraph, new}
    BY DEF EndRound, Move
  <1>3. UNCHANGED <<configVars, client, resumed, issued, takenBack, rejected, crashes>>
    BY DEF EndRound
  <1>4. /\ graph.round \in 0..RoundLimit /\ graph.round < RoundLimit /\ graph.count \in Nat
        /\ Cardinality(Earlier(graph, Live)) <= graph.count /\ count <= CallLimit
        /\ Sofar(graph, Live) \subseteq Keys(graph)
    BY <1>1 DEF Graph, Sound, Planning
  <1>5. Cardinality(Live) <= count /\ count \in Nat
    BY <1>1, <1>4, KeysAreFew, RoundIsPaid
  <1> HIDE DEF count
  <1>6. graph.round + 1 \in 0..RoundLimit
    BY <1>4, Bounds
  <1>7. /\ new \in Graph /\ new.node = "observe" /\ new.round = graph.round + 1
        /\ new.count = count
    BY <1>1, <1>5, <1>6 DEF Graph
  <1> HIDE DEF new
  <1>8. Sound(new, Live) /\ Planning(new, Live)
    BY <1>1, <1>4, <1>5, <1>7, NothingAhead, RoundIsOver
  <1>9. graph.round <= new.round /\ new.round # graph.round
    BY <1>4, <1>7
  <1>10. Live' = Live /\ Live \subseteq Live /\ Live \ Live = {}
    BY <1>3 DEF Live
  <1>11. IsFiniteSet(issued') /\ issued' \subseteq Key /\ takenBack' \subseteq issued'
    BY <1>3 DEF RouterInv, RouterTypeOK
  <1> QED BY <1>1, <1>2, <1>3, <1>7, <1>8, <1>9, <1>10, <1>11, GraphMoves, ClientStays

LEMMA ObserveStep ==
  ASSUME RouterInv, ObserveMCP
  PROVE  RouterInv'
  <1> DEFINE node == IF graph.round >= RoundLimit \/ graph.count >= CallLimit THEN "agent" ELSE "plan"
             observed == graph.observed \union graph.results
             new == [graph EXCEPT !.node = node, !.observed = observed, !.results = {}, !.calls = <<>>]
  <1>1. /\ graph \in Graph /\ resumed \in BOOLEAN /\ graph.node = "observe"
        /\ graph.node \notin Calling /\ graph.node # "lost"
    BY LiveTypes DEF ObserveMCP, Calling
  <1>2. graph' = new /\ savedGraph' \in {savedGraph, new}
    BY DEF ObserveMCP, Move
  <1>3. UNCHANGED <<configVars, client, resumed, issued, takenBack, rejected, crashes>>
    BY DEF ObserveMCP
  <1>4. node \in {"agent", "plan"} /\ observed \in SUBSET Call /\ <<>> \in Seq(Call)
    BY <1>1 DEF Graph
  <1> HIDE DEF node, observed
  <1>5. /\ new \in Graph /\ new.node = node /\ new.round = graph.round /\ new.count = graph.count
    BY <1>1, <1>4 DEF Graph
  <1> HIDE DEF new
  <1>6. Sound(new, Live) /\ Planning(new, Live)
    BY <1>1, <1>4, <1>5, SoundElsewhere
  <1> QED BY <1>1, <1>2, <1>3, <1>5, <1>6, StayInRound, ClientStays

\* A resume job goes on at ObserveMCP with what has been counted for the calls so far.
LEMMA ResumedStep ==
  ASSUME RouterInv, graph.node = "approval", NEW results \in SUBSET Call, NEW count \in {0, 1},
         Resumed(results, count), UNCHANGED <<configVars, crashes>>, rejected' \subseteq Call,
         NEW live \in SUBSET Key, IsFiniteSet(live), Live' = live, Live \subseteq live,
         \A k \in live \ Live : k.round = graph.round,
         Cardinality(live \ Live) <= count,
         IsFiniteSet(issued'), issued' \subseteq Key, takenBack' \subseteq issued'
  PROVE  RouterInv'
  <1> DEFINE new == [graph EXCEPT !.node = "observe", !.round = graph.round + 1,
                                  !.count = graph.count + count, !.results = results,
                                  !.catalogue = NoCatalogue]
  <1>1. /\ graph \in Graph /\ graph.node \notin Calling /\ graph.node # "lost"
        /\ Sound(graph, Live) /\ Planning(graph, Live)
    BY LiveTypes DEF Calling, RouterInv
  <1>2. graph' = new /\ savedGraph' \in {savedGraph, new}
    BY DEF Resumed, Move
  <1>3. resumed' = TRUE /\ client' = Configured /\ client' \in Catalogue
    BY ClientStays, ConfiguredTypes DEF Resumed
  <1>4. /\ graph.round \in 0..RoundLimit /\ graph.round < RoundLimit
        /\ graph.count \in Nat /\ graph.count < CallLimit
    BY <1>1 DEF Graph, Sound
  <1>5. /\ graph.round + 1 \in 0..RoundLimit /\ graph.count + count \in Nat
        /\ graph.count + count <= CallLimit
    BY <1>4, Bounds
  <1>6. NoCatalogue \in Catalogue
    BY DEF NoCatalogue, Catalogue
  <1>7. /\ new \in Graph /\ new.node = "observe" /\ new.round = graph.round + 1
        /\ new.count = graph.count + count
    BY <1>1, <1>5, <1>6 DEF Graph
  <1> HIDE DEF new
  <1>8. /\ Earlier(graph, live) = Earlier(graph, Live)
        /\ Sofar(graph, live) \subseteq live \ Live
    <2>1. Sofar(graph, Live) = {}
      BY <1>1 DEF Planning
    <2>2. \A k \in Live : k.round < graph.round
      <3>1. \A k \in Live : k.round \in Nat
        BY LiveTypes DEF Key
      <3> QED BY <1>4, <2>1, <3>1 DEF Sofar
    <2>3. \A k \in live \ Live : ~(k.round < graph.round)
      BY <1>4
    <2>4. \A k \in Live : ~(k.round >= graph.round)
      <3>1. \A k \in Live : k.round \in Nat
        BY LiveTypes DEF Key
      <3> QED BY <1>4, <2>2, <3>1
    <2>5. Earlier(graph, live) = Earlier(graph, Live)
      BY <2>3 DEF Earlier
    <2>6. Sofar(graph, live) \subseteq live \ Live
      BY <2>4 DEF Sofar
    <2> QED BY <2>5, <2>6
  <1>9. IsFiniteSet(live \ Live)
    <2>1. live \ Live \in SUBSET live
      OBVIOUS
    <2> QED BY <2>1, FS_Subset
  <1>10. Cardinality(Earlier(graph, live)) <= graph.count /\ count \in Nat
    BY <1>1, <1>8 DEF Sound
  <1>11. Cardinality(live) <= graph.count + count
    BY <1>1, <1>8, <1>9, <1>10, RoundIsPaid
  <1>12. \A k \in live : k.round <= graph.round
    BY <1>1, <1>4, LiveTypes, NothingAhead
  <1>13. Sound(new, live) /\ Planning(new, live)
    BY <1>1, <1>5, <1>7, <1>11, <1>12, RoundIsOver
  <1>14. graph.round <= new.round
    BY <1>4, <1>7
  <1>15. \A k \in live \ Live : k.round = graph.round /\ (resumed' \/ k \in Keys(graph))
    BY <1>3
  <1> QED BY <1>1, <1>2, <1>3, <1>7, <1>13, <1>14, <1>15, GraphMoves

LEMMA RejectStep ==
  ASSUME RouterInv, ResumeRejected
  PROVE  RouterInv'
  <1>1. /\ graph \in Graph /\ graph.node = "approval" /\ Len(graph.calls) = 1
        /\ Live \in SUBSET Key /\ IsFiniteSet(Live)
    BY LiveTypes DEF ResumeRejected, RouterInv, Sound
  <1>2. graph.calls \in Seq(Call) /\ graph.calls[1] \in Call
    BY <1>1 DEF Graph
  <1>3. /\ UNCHANGED <<configVars, issued, takenBack, crashes>>
        /\ Resumed({graph.calls[1]}, 0)
    BY DEF ResumeRejected, Rejected
  <1>4. rejected' \subseteq Call
    BY <1>2, ClientStays DEF ResumeRejected, Range
  <1>5. Live' = Live /\ Live \ Live = {} /\ Cardinality(Live \ Live) <= 0
    BY <1>3, FS_EmptySet DEF Live
  <1>6. IsFiniteSet(issued') /\ issued' \subseteq Key /\ takenBack' \subseteq issued'
    BY <1>3 DEF RouterInv, RouterTypeOK
  <1>7. {graph.calls[1]} \in SUBSET Call /\ 0 \in {0, 1} /\ Live \subseteq Live
    BY <1>2
  <1>8. UNCHANGED <<configVars, crashes>> /\ \A k \in Live \ Live : k.round = graph.round
    BY <1>3, <1>5
  <1> QED BY <1>1, <1>3, <1>4, <1>5, <1>6, <1>7, <1>8, ResumedStep

LEMMA ApproveStep ==
  ASSUME RouterInv, NEW catalogue, NEW answered \in BOOLEAN, ResumeApproved(catalogue, answered)
  PROVE  RouterInv'
  <1> DEFINE call == graph.calls[1]
             key == [by |-> "approval", round |-> graph.round, index |-> 0, call |-> call]
             results == IF answered THEN {call} ELSE {}
  <1>1. /\ graph \in Graph /\ graph.node = "approval" /\ Len(graph.calls) = 1
        /\ Live \in SUBSET Key /\ IsFiniteSet(Live)
    BY LiveTypes DEF ResumeApproved, RouterInv, Sound
  <1>2. call \in Call /\ graph.round \in Nat
    BY <1>1, Bounds DEF Graph
  <1>3. results \in SUBSET Call /\ key \in Key /\ key.round = graph.round
    BY <1>2 DEF Key
  <1>4. /\ UNCHANGED <<configVars, rejected, crashes>> /\ Resumed(results, 1)
    BY DEF ResumeApproved
  <1>5. Issue(key) \/ UNCHANGED <<issued, takenBack>>
    BY DEF ResumeApproved
  <1> HIDE DEF key, results, call
  <1>6. CASE Issue(key)
    <2> DEFINE live == Live \union {key}
    <2>1. /\ Live' = live /\ live \in SUBSET Key /\ IsFiniteSet(live)
          /\ IsFiniteSet(issued') /\ issued' \subseteq Key /\ takenBack' \subseteq issued'
      BY <1>3, <1>6, IssueKeeps
    <2>2. live \ Live \in SUBSET {key} /\ Live \subseteq live
      OBVIOUS
    <2>3. IsFiniteSet({key}) /\ Cardinality({key}) = 1
      BY FS_Singleton
    <2>4. IsFiniteSet(live \ Live) /\ Cardinality(live \ Live) <= 1
      BY <2>2, <2>3, FS_Subset
    <2>5. \A k \in live \ Live : k.round = graph.round
      BY <1>3, <2>2
    <2> HIDE DEF live
    <2> QED BY <1>1, <1>3, <1>4, <2>1, <2>2, <2>4, <2>5, ResumedStep, ClientStays
  <1>7. CASE UNCHANGED <<issued, takenBack>>
    <2>1. Live' = Live /\ Live \ Live = {} /\ Cardinality(Live \ Live) <= 1
      BY <1>7, FS_EmptySet DEF Live
    <2>2. IsFiniteSet(issued') /\ issued' \subseteq Key /\ takenBack' \subseteq issued'
      BY <1>7 DEF RouterInv, RouterTypeOK
    <2>3. \A k \in Live \ Live : k.round = graph.round
      BY <2>1
    <2> QED BY <1>1, <1>3, <1>4, <2>1, <2>2, <2>3, ResumedStep, ClientStays
  <1> QED BY <1>5, <1>6, <1>7

\* A retry goes on from a sound checkpoint, without the calls that its rounds will make anew.
LEMMA CrashStep ==
  ASSUME RouterInv, RouterCrash
  PROVE  RouterInv'
  <1>1. /\ graph \in Graph /\ savedGraph \in Graph /\ Live \in SUBSET Key /\ IsFiniteSet(Live)
        /\ graph.node # "lost" /\ RouterTypeOK /\ IsFiniteSet(issued)
        /\ UNCHANGED <<configVars, savedGraph, resumed, issued, rejected>>
    BY LiveTypes DEF RouterCrash, RouterInv
  <1>2. crashes' \in 0..MaxCrashes
    <2>1. crashes < MaxCrashes /\ crashes' = crashes + 1 /\ crashes \in 0..MaxCrashes
      BY <1>1 DEF RouterCrash, RouterTypeOK
    <2> QED BY <2>1, Bounds
  <1>3. CASE resumed
    <2> DEFINE new == [graph EXCEPT !.node = "lost"]
    <2>1. graph' = new /\ new \in Graph /\ new.node = "lost" /\ UNCHANGED <<client, takenBack>>
      BY <1>1, <1>3 DEF RouterCrash, Graph
    <2>2. Cardinality(Live) <= CallLimit
      BY <1>1, SoundIsWithin DEF RouterInv
    <2>3. Live' = Live
      BY <1>1, <2>1 DEF Live
    <2> HIDE DEF new
    <2>4. RouterTypeOK'
      BY <1>1, <1>2, <2>1 DEF RouterTypeOK, configVars
    <2> QED BY <1>1, <1>3, <2>1, <2>2, <2>3, <2>4 DEF RouterInv
  <1>4. CASE ~resumed
    <2>1. /\ graph' = savedGraph /\ client' = Configured
          /\ takenBack' = takenBack \union {key \in issued :
               \/ key.round > savedGraph.round
               \/ key.round = savedGraph.round /\ savedGraph.node # "call"}
      BY <1>4 DEF RouterCrash
    <2>2. client' \in Catalogue
      BY <2>1, ClientStays, ConfiguredTypes
    <2>3. RouterTypeOK'
      BY <1>1, <1>2, <2>1, <2>2 DEF RouterTypeOK, configVars
    <2>4. Resumable(Live)
      BY <1>4 DEF RouterInv
    <2> DEFINE live == Live \ {key \in issued :
               \/ key.round > savedGraph.round
               \/ key.round = savedGraph.round /\ savedGraph.node # "call"}
    <2>5. Live' = live /\ live \subseteq Live /\ live \in SUBSET Key
      BY <1>1, <2>1 DEF Live
    <2>6. \A k \in live : /\ ~(k.round > savedGraph.round)
                          /\ k.round = savedGraph.round => savedGraph.node = "call"
      BY DEF Live
    <2> HIDE DEF live
    <2>7. Sound(savedGraph, live)
      <3>1. Earlier(savedGraph, live) \subseteq Live
        BY <2>5 DEF Earlier
      <3> QED BY <1>1, <2>4, <2>5, <3>1, SoundFewer DEF Resumable
    <2>8. savedGraph.round \in Nat /\ \A k \in live : k.round \in Nat
      BY <1>1, <2>5, Bounds DEF Graph, Key
    <2>9. savedGraph.node = "call" => {k \in live : k.round = savedGraph.round} \subseteq Keys(savedGraph)
      BY <2>4, <2>5 DEF Resumable
    <2>10. Planning(savedGraph, live)
      <3>1. ASSUME NEW k \in Sofar(savedGraph, live)
            PROVE  savedGraph.node = "call" /\ k \in Keys(savedGraph)
        <4>1. k \in live /\ k.round >= savedGraph.round
          BY <3>1 DEF Sofar
        <4>2. k.round = savedGraph.round
          BY <2>6, <2>8, <4>1
        <4> QED BY <2>6, <2>9, <4>1, <4>2
      <3>2. "call" \in Calling
        BY DEF Calling
      <3> QED BY <3>1, <3>2 DEF Planning
    <2>11. Resumable(Live)'
      <3>1. savedGraph.node # "lost" /\ savedGraph.round <= savedGraph.round
        BY <2>4, <2>8 DEF Resumable, Sound
      <3>2. savedGraph.node = "call" => savedGraph.node \in Calling
        BY DEF Calling
      <3> QED BY <1>1, <2>1, <2>5, <2>7, <2>9, <3>1, <3>2 DEF Resumable, Keys
    <2>12. savedGraph.node # "lost"
      BY <2>7 DEF Sound
    <2> QED BY <1>1, <2>1, <2>3, <2>5, <2>7, <2>10, <2>11, <2>12 DEF RouterInv
  <1> QED BY <1>3, <1>4

LEMMA PolicyStep ==
  ASSUME RouterInv, UNCHANGED runVars, policies' \in [Tool -> Policy], grants' \subseteq Grant,
         changes' \in 0..MaxChanges
  PROVE  RouterInv'
  <1>1. UNCHANGED <<client, graph, savedGraph, resumed, issued, takenBack, rejected, crashes>>
    BY DEF runVars
  <1>2. RouterTypeOK'
    BY <1>1 DEF RouterInv, RouterTypeOK
  <1>3. Live' = Live
    BY <1>1 DEF Live
  <1>4. ~resumed => Resumable(Live)'
    BY <1>1, <1>3 DEF RouterInv, Resumable
  <1> QED BY <1>1, <1>2, <1>3, <1>4 DEF RouterInv

LEMMA RouterStep == RouterInv /\ [RouterNext]_routerVars => RouterInv'
  <1> SUFFICES ASSUME RouterInv, [RouterNext]_routerVars PROVE RouterInv'
    OBVIOUS
  <1>1. /\ policies \in [Tool -> Policy] /\ grants \subseteq Grant /\ changes \in 0..MaxChanges
        /\ graph \in Graph /\ client \in Catalogue
    BY DEF RouterInv, RouterTypeOK
  <1>2. changes < MaxChanges => changes + 1 \in 0..MaxChanges
    BY <1>1, Bounds
  <1>3. ASSUME NEW catalogue \in IF graph.catalogue # NoCatalogue THEN {graph.catalogue}
                     ELSE {Discovered(client, answering) : answering \in SUBSET Tool},
               PlanMCPTools(catalogue)
        PROVE  RouterInv'
    <2>1. catalogue \in Catalogue
      BY <1>1, <1>3 DEF Graph, Discovered, Catalogue
    <2> QED BY <1>3, <2>1, PlanStep
  <1>4. ASSUME NEW tool \in Tool, NEW new \in Policy, ChangePolicy(tool, new) PROVE RouterInv'
    BY <1>1, <1>2, <1>4, PolicyStep DEF ChangePolicy
  <1>5. ASSUME NEW grant \in Grant, CreateGrant(grant) \/ EndGrant(grant) PROVE RouterInv'
    BY <1>1, <1>2, <1>5, PolicyStep DEF CreateGrant, EndGrant
  <1>6. CASE UNCHANGED routerVars
    BY <1>1, <1>6, PolicyStep DEF routerVars, configVars
  <1>7. ASSUME NEW answered \in BOOLEAN,
               \/ CallMCPTool(answered)
               \/ \E catalogue \in {Discovered(Configured, answering) : answering \in SUBSET Tool} :
                    ResumeApproved(catalogue, answered)
        PROVE  RouterInv'
    BY <1>7, CallStep, ApproveStep
  <1>8. CASE AskForPatch \/ PauseForExecution \/ ResumeFromExecution \/ EndRound \/ ObserveMCP
             \/ ResumeRejected \/ RouterCrash
    BY <1>8, AskStep, PauseStep, ResumeExecutionStep, EndRoundStep, ObserveStep, RejectStep,
       CrashStep
  <1> QED BY <1>3, <1>4, <1>5, <1>6, <1>7, <1>8 DEF RouterNext

\* However rounds, pauses, resumes, approvals, crashes and retries follow each other, a run has
\* its state and its checkpoints in shape.
THEOREM RouterTypes == RouterSpec => []RouterTypeOK
  <1>1. RouterInv => RouterTypeOK
    BY DEF RouterInv
  <1> QED BY <1>1, RouterInitial, RouterStep, PTL DEF RouterSpec

\* mcp_tool_router_max_calls_per_run: for any proposals of the language model, any catalogue,
\* policies and grants and any number of crashes, the calls of a run that no crash took
\* back are within its budget.
THEOREM BudgetOfCalls == RouterSpec => []CallsWithinBudget
  <1>1. RouterInv => CallsWithinBudget
    <2> SUFFICES ASSUME RouterInv PROVE Cardinality(Live) <= CallLimit
      BY DEF CallsWithinBudget, Live
    <2> QED BY LiveTypes, SoundIsWithin DEF RouterInv
  <1> QED BY <1>1, RouterInitial, RouterStep, PTL DEF RouterSpec

-----------------------------------------------------------------------------
(* Rejections.                                                             *)

LEMMA RememberedInit == RouterInit => Remembered
  BY DEF RouterInit, Remembered, Calling

\* A rejected call is observed, a planned one is not, and only planned ones are issued.
LEMMA CallRemembered ==
  ASSUME RouterInv, Remembered,
         PauseForExecution \/ \E answered \in BOOLEAN : CallMCPTool(answered)
  PROVE  /\ Remembered' /\ rejected \subseteq rejected'
         /\ \A key \in issued' \ issued :
              /\ graph.node \in Calling \union {"approval"}
              /\ key.call \in Range(graph.calls)
  <1>1. /\ graph \in Graph /\ graph.node = "call" /\ graph.cursor < Len(graph.calls)
        /\ graph.node \in Calling /\ "execution" \in Calling /\ "observe" \notin Calling
        /\ UNCHANGED <<rejected, resumed>>
    BY LiveTypes DEF PauseForExecution, CallMCPTool, Calling
  <1>2. graph.cursor + 1 \in DOMAIN graph.calls
    BY <1>1 DEF Graph
  <1>3. graph.calls[graph.cursor + 1] \in Range(graph.calls)
    BY <1>2 DEF Range
  <1>4. graph'.node \in Calling /\ graph'.calls = graph.calls /\ graph'.observed = graph.observed
    BY <1>1 DEF PauseForExecution, CallMCPTool, Move, Graph
  <1>5. issued' \subseteq issued \union {AgentKey(graph.calls[graph.cursor + 1])}
    BY DEF PauseForExecution, CallMCPTool, Issue
  <1>6. AgentKey(graph.calls[graph.cursor + 1]).call = graph.calls[graph.cursor + 1]
    BY DEF AgentKey
  <1>7. \A key \in issued' \ issued : key.call \in Range(graph.calls)
    BY <1>3, <1>5, <1>6
  <1>8. rejected \subseteq graph.observed /\ Range(graph.calls) \intersect rejected = {}
    BY <1>1 DEF Remembered
  <1>9. Remembered'
    <2>1. rejected' # {} => resumed'
      BY <1>1 DEF Remembered
    <2>2. rejected' \subseteq graph'.observed
      BY <1>1, <1>4, <1>8
    <2>3. Range(graph'.calls) \intersect rejected' = {}
      BY <1>1, <1>4, <1>8
    <2> QED BY <2>1, <2>2, <2>3 DEF Remembered
  <1> QED BY <1>1, <1>7, <1>9

LEMMA PlanRemembered ==
  ASSUME RouterInv, Remembered, NEW catalogue \in Catalogue, PlanMCPTools(catalogue)
  PROVE  Remembered' /\ rejected \subseteq rejected' /\ issued' \ issued = {}
  <1>1. /\ graph \in Graph /\ graph.node = "plan" /\ UNCHANGED <<rejected, resumed, issued>>
        /\ "plan" \notin Calling \union {"approval"}
    BY LiveTypes DEF PlanMCPTools, Calling
  <1>2. rejected \subseteq graph.observed
    BY <1>1 DEF Remembered
  <1>3. ASSUME NEW new, graph' = new, new.observed = graph.observed,
               new.node \in {"agent", "approval", "call"},
               new.node # "agent" => Range(new.calls) \intersect graph.observed = {}
        PROVE  Remembered'
    <2>1. rejected' \subseteq graph'.observed
      BY <1>1, <1>2, <1>3
    <2>2. graph'.node \in Calling \union {"approval"} => Range(graph'.calls) \intersect rejected' = {}
      BY <1>1, <1>2, <1>3 DEF Calling
    <2>3. rejected' # {} => resumed'
      BY <1>1 DEF Remembered
    <2> QED BY <2>1, <2>2, <2>3 DEF Remembered
  <1>4. CASE graph.round >= RoundLimit
    <2>1. graph' = [graph EXCEPT !.node = "agent"]
      BY <1>4 DEF PlanMCPTools, Move
    <2>2. graph'.node = "agent" /\ graph'.observed = graph.observed
      BY <1>1, <2>1 DEF Graph
    <2> QED BY <1>1, <1>3, <2>2
  <1>5. CASE ~(graph.round >= RoundLimit)
    <2>1. PICK proposals \in Proposals :
            graph' = Planned([graph EXCEPT !.catalogue = catalogue],
                       Validated(proposals, catalogue, Remaining(graph.count), graph.observed))
      BY <1>5 DEF PlanMCPTools, Move
    <2> DEFINE new == Planned([graph EXCEPT !.catalogue = catalogue],
                   Validated(proposals, catalogue, Remaining(graph.count), graph.observed))
    <2>2. graph.round < RoundLimit
      BY <1>1, <1>5, Bounds DEF Graph
    <2>3. /\ new.observed = graph.observed /\ new.node \in {"agent", "approval", "call"}
          /\ new.node # "agent" => Range(new.calls) \intersect graph.observed = {}
      BY <1>1, <2>2, PlannedIsSound
    <2>4. graph' = new
      BY <2>1
    <2> HIDE DEF new
    <2> QED BY <1>1, <1>3, <2>3, <2>4
  <1> QED BY <1>1, <1>4, <1>5

LEMMA ApprovalRemembered ==
  ASSUME RouterInv, Remembered,
         ResumeRejected \/ \E catalogue \in Catalogue, answered \in BOOLEAN :
                             ResumeApproved(catalogue, answered)
  PROVE  /\ Remembered' /\ rejected \subseteq rejected'
         /\ \A key \in issued' \ issued :
              /\ graph.node \in Calling \union {"approval"}
              /\ key.call \in Range(graph.calls)
  <1>1. /\ graph \in Graph /\ graph.node = "approval" /\ Len(graph.calls) = 1
        /\ rejected \subseteq graph.observed /\ resumed' = TRUE
        /\ "observe" \notin Calling \union {"approval"}
    BY LiveTypes DEF ResumeRejected, ResumeApproved, Resumed, RouterInv, Sound, Remembered, Calling
  <1>2. graph.calls \in Seq(Call) /\ DOMAIN graph.calls = {1}
    BY <1>1 DEF Graph
  <1>3. Range(graph.calls) = {graph.calls[1]}
    BY <1>2 DEF Range
  <1>4. ASSUME NEW results, NEW count, Resumed(results, count),
               rejected' \subseteq graph.observed \union results
        PROVE  Remembered'
    <2>1. /\ graph' = [graph EXCEPT !.node = "observe", !.round = @ + 1, !.count = @ + count,
                                    !.results = results, !.catalogue = NoCatalogue]
      BY <1>4 DEF Resumed, Move
    <2>2. graph'.node = "observe" /\ graph'.results = results /\ graph'.observed = graph.observed
      BY <1>1, <2>1 DEF Graph
    <2> QED BY <1>1, <1>4, <2>2 DEF Remembered
  <1>5. CASE ResumeRejected
    <2>1. Resumed({graph.calls[1]}, 0) /\ rejected' = rejected \union {graph.calls[1]} /\ issued' = issued
      BY <1>3, <1>5 DEF ResumeRejected, Rejected
    <2>2. rejected' \subseteq graph.observed \union {graph.calls[1]}
      BY <1>1, <2>1
    <2> QED BY <1>4, <2>1, <2>2
  <1>6. ASSUME NEW catalogue \in Catalogue, NEW answered \in BOOLEAN,
               ResumeApproved(catalogue, answered)
        PROVE  /\ Remembered' /\ rejected' = rejected
               /\ \A key \in issued' \ issued : key.call \in Range(graph.calls)
    <2> DEFINE key == [by |-> "approval", round |-> graph.round, index |-> 0,
                       call |-> graph.calls[1]]
    <2>1. /\ Resumed(IF answered THEN {graph.calls[1]} ELSE {}, 1) /\ rejected' = rejected
          /\ issued' \subseteq issued \union {key}
      BY <1>6 DEF ResumeApproved, Issue
    <2>2. key.call \in Range(graph.calls)
      BY <1>3
    <2> HIDE DEF key
    <2>3. rejected' \subseteq graph.observed \union (IF answered THEN {graph.calls[1]} ELSE {})
      BY <1>1, <2>1
    <2>4. Remembered'
      BY <1>4, <2>1, <2>3
    <2> QED BY <2>1, <2>2, <2>4
  <1> QED BY <1>1, <1>5, <1>6

LEMMA RememberedStep ==
  ASSUME RouterInv, Remembered, [RouterNext]_routerVars
  PROVE  /\ Remembered' /\ rejected \subseteq rejected'
         /\ \A key \in issued' \ issued :
              /\ graph.node \in Calling \union {"approval"}
              /\ key.call \in Range(graph.calls)
  <1>1. graph \in Graph /\ client \in Catalogue /\ policies \in [Tool -> Policy] /\ resumed \in BOOLEAN
    BY DEF RouterInv, RouterTypeOK
  <1>2. ASSUME NEW catalogue \in IF graph.catalogue # NoCatalogue THEN {graph.catalogue}
                     ELSE {Discovered(client, answering) : answering \in SUBSET Tool},
               PlanMCPTools(catalogue)
        PROVE  Remembered' /\ rejected \subseteq rejected' /\ issued' \ issued = {}
    <2>1. catalogue \in Catalogue
      BY <1>1, <1>2 DEF Graph, Discovered, Catalogue
    <2> QED BY <1>2, <2>1, PlanRemembered
  <1>3. CASE AskForPatch
    <2>1. /\ graph.node = "agent" /\ graph' = [graph EXCEPT !.node = "plan"]
          /\ UNCHANGED <<issued, rejected, resumed>>
      BY <1>3 DEF AskForPatch, Move
    <2>2. graph'.node = "plan" /\ graph'.observed = graph.observed
      BY <1>1, <2>1 DEF Graph
    <2> QED BY <2>1, <2>2 DEF Remembered, Calling
  <1>4. CASE ResumeFromExecution
    <2>1. /\ graph.node = "execution" /\ graph' = [graph EXCEPT !.node = "call"]
          /\ resumed' = TRUE /\ UNCHANGED <<issued, rejected>>
      BY <1>4 DEF ResumeFromExecution, Move
    <2>2. graph'.node = "call" /\ graph'.observed = graph.observed /\ graph'.calls = graph.calls
      BY <1>1, <2>1 DEF Graph
    <2> QED BY <2>1, <2>2 DEF Remembered, Calling
  <1>5. CASE EndRound
    <2>1. /\ graph.node = "call" /\ UNCHANGED <<issued, rejected, resumed>>
          /\ graph' = [graph EXCEPT !.node = "observe", !.round = @ + 1, !.cursor = 0,
                                    !.count = @ + Len(graph.calls)]
      BY <1>5 DEF EndRound, Move
    <2>2. graph'.node = "observe" /\ graph'.observed = graph.observed
      BY <1>1, <2>1 DEF Graph
    <2> QED BY <2>1, <2>2 DEF Remembered, Calling
  <1>6. CASE ObserveMCP
    <2>1. /\ graph.node = "observe" /\ UNCHANGED <<issued, rejected, resumed>>
          /\ graph'.node \in {"agent", "plan"} /\ graph'.observed = graph.observed \union graph.results
      BY <1>1, <1>6 DEF ObserveMCP, Move, Graph
    <2> QED BY <2>1 DEF Remembered, Calling
  <1>7. CASE RouterCrash
    <2>1. UNCHANGED <<issued, rejected, resumed>>
      BY <1>7 DEF RouterCrash
    <2>2. CASE resumed
      <3>1. graph' = [graph EXCEPT !.node = "lost"]
        BY <1>7, <2>2 DEF RouterCrash
      <3>2. graph'.node = "lost"
        BY <1>1, <3>1 DEF Graph
      <3> QED BY <2>1, <2>2, <3>2 DEF Remembered, Calling
    <2>3. CASE ~resumed
      <3>1. rejected = {} /\ rejected' = {}
        BY <2>1, <2>3 DEF Remembered
      <3> QED BY <2>1, <3>1 DEF Remembered
    <2> QED BY <2>2, <2>3
  <1>8. ASSUME UNCHANGED runVars
        PROVE  Remembered' /\ rejected \subseteq rejected' /\ issued' \ issued = {}
    BY <1>8 DEF runVars, Remembered
  <1>9. ASSUME NEW answered \in BOOLEAN,
               \E catalogue \in {Discovered(Configured, answering) : answering \in SUBSET Tool} :
                 ResumeApproved(catalogue, answered)
        PROVE  \E catalogue \in Catalogue : ResumeApproved(catalogue, answered)
    BY <1>1, <1>9, ConfiguredTypes
  <1>10. CASE UNCHANGED routerVars
    BY <1>8, <1>10 DEF routerVars
  <1>11. ASSUME NEW tool \in Tool, NEW new \in Policy, ChangePolicy(tool, new)
         PROVE  UNCHANGED runVars
    BY <1>11 DEF ChangePolicy
  <1>12. ASSUME NEW grant \in Grant, CreateGrant(grant) \/ EndGrant(grant) PROVE UNCHANGED runVars
    BY <1>12 DEF CreateGrant, EndGrant
  <1>13. CASE \E answered \in BOOLEAN :
                \/ CallMCPTool(answered)
                \/ \E catalogue \in {Discovered(Configured, answering) : answering \in SUBSET Tool} :
                     ResumeApproved(catalogue, answered)
    BY <1>9, <1>13, CallRemembered, ApprovalRemembered
  <1>14. CASE PauseForExecution \/ ResumeRejected
    BY <1>14, CallRemembered, ApprovalRemembered
  <1> QED BY <1>2, <1>3, <1>4, <1>5, <1>6, <1>7, <1>8, <1>10, <1>11, <1>12, <1>13, <1>14
          DEF RouterNext

\* A call that a person has rejected is not asked for again by the run, nor issued, whatever the
\* language model proposes and however policies, grants and catalogues change; the run
\* cannot forget the rejection, because no retry goes back behind a resume job.
THEOREM RejectionsLast == RouterSpec => RejectionHolds
  <1>1. RouterInv /\ Remembered /\ [RouterNext]_routerVars => Remembered'
    BY RememberedStep
  <1>2. RouterInv /\ Remembered /\ [RouterNext]_routerVars =>
          [\A call \in rejected :
             /\ graph.node = "plan" /\ graph'.node \in {"call", "approval"}
                  => call \notin Range(graph'.calls)
             /\ \A key \in issued' \ issued : key.call # call]_routerVars
    <2> SUFFICES ASSUME RouterInv, Remembered, [RouterNext]_routerVars, NEW call \in rejected
                 PROVE  /\ graph'.node \in {"call", "approval"} => call \notin Range(graph'.calls)
                        /\ \A key \in issued' \ issued : key.call # call
      BY Zenon
    <2>1. /\ Remembered' /\ rejected \subseteq rejected'
          /\ \A key \in issued' \ issued :
               /\ graph.node \in Calling \union {"approval"}
               /\ key.call \in Range(graph.calls)
      BY RememberedStep
    <2>2. graph'.node \in {"call", "approval"} => call \notin Range(graph'.calls)
      BY <2>1 DEF Remembered, Calling
    <2>3. \A key \in issued' \ issued : key.call # call
      BY <2>1 DEF Remembered
    <2> QED BY <2>2, <2>3
  <1> QED BY <1>1, <1>2, RouterInitial, RouterStep, RememberedInit, PTL DEF RouterSpec, RejectionHolds
=============================================================================
