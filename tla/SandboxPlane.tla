---------------------------- MODULE SandboxPlane ----------------------------
(***************************************************************************)
(* The managed execution plane: instances that serve POST /v1/executions   *)
(* (sandbox/execution_plane.py) over one shared store of executions        *)
(* (execution_store.py), and the client that repeats its request           *)
(* (execution_client.py). One execution id. A request carries an assertion *)
(* that binds the request's hash; the assertion is spent when it claims.   *)
(* The store keeps a row for a day, longer than anything here takes.       *)
(***************************************************************************)
EXTENDS Naturals, FiniteSets

CONSTANTS
  Server,        \* instances of the plane, each serving one request at a time
  Assertion,     \* workload assertions for the execution id
  Other,         \* those that bind another request than the client's
  Own,           \* the client's assertion
  NoServer,      \* nobody
  MaxPosts,      \* sandbox_execution_client_max_attempts
  MaxLapses      \* bound: leases that run out

ASSUME PlaneAssumption ==
  /\ Other \subseteq Assertion /\ Own \in Assertion \ Other
  /\ MaxPosts \in Nat \ {0} /\ MaxLapses \in Nat /\ NoServer \notin Server

VARIABLES
  execution,     \* row of the store
  spent,         \* assertions with a replay mark in the store
  serve,         \* what each server is doing
  kubeJob,       \* attempt that created the execution's Kubernetes Job, 0 without one
  poster,        \* the client
  answers,       \* attempts whose response was sent to somebody
  lapses         \* leases that ran out

planeVars == <<execution, spent, serve, kubeJob, poster, answers, lapses>>

HashOf(a) == IF a \in Other THEN "other" ELSE "own"
AttemptNo == 0..(MaxLapses + 1)
Reply == {"none", "response", "busy", "refused"}
Serving == {"free", "arrived", "working", "watching", "replying"}

PlaneTypeOK ==
  /\ execution \in [state : {"none", "running", "completed"}, hash : {"none", "own", "other"},
                    owner : Server \union {NoServer}, attempt : AttemptNo,
                    leased : BOOLEAN, response : AttemptNo]
  /\ spent \subseteq Assertion /\ answers \subseteq AttemptNo /\ kubeJob \in AttemptNo
  /\ serve \in [Server -> [stage : Serving, assertion : Assertion, attempt : AttemptNo, reply : Reply]]
  /\ poster \in [state : {"ready", "waiting", "result", "failed"},
                 at : Server \union {NoServer}, posts : 0..MaxPosts]
  /\ lapses \in 0..MaxLapses

NoExecution == [state |-> "none", hash |-> "none", owner |-> NoServer, attempt |-> 0,
                leased |-> FALSE, response |-> 0]

FreeServer == [stage |-> "free", assertion |-> Own, attempt |-> 0, reply |-> "none"]

PlaneInit ==
  /\ execution = NoExecution /\ spent = {} /\ answers = {} /\ lapses = 0 /\ kubeJob = 0
  /\ serve = [s \in Server |-> FreeServer]
  /\ poster = [state |-> "ready", at |-> NoServer, posts |-> 0]

-----------------------------------------------------------------------------
(* The store, once in Redis and once in memory.                            *)

Claim(found, row, marks) == [found |-> found, row |-> row, marks |-> marks]

Acquired(row, a, s) ==
  [row EXCEPT !.state = "running", !.hash = HashOf(a), !.owner = s, !.leased = TRUE,
              !.attempt = @ + 1]

\* CLAIM_SCRIPT: the row is a hash whose fields may be missing.
RedisClaim(row, marks, a, s) ==
  IF row.hash \notin {"none", HashOf(a)} THEN Claim("conflict", row, marks)
  ELSE IF row.state = "completed" THEN Claim("cached", row, marks)
  ELSE IF a \in marks
    THEN Claim(IF row.state = "running" THEN "in_progress" ELSE "replayed", row, marks)
  ELSE IF row.state = "running" /\ row.leased
    THEN Claim("in_progress", row, marks \union {a})
  ELSE Claim("acquired", Acquired(row, a, s), marks \union {a})

\* Faulty variant: the replay mark is tested before the response is looked up.
MemoryClaimReplayFirst(row, marks, a, s) ==
  IF row # NoExecution /\ row.hash # HashOf(a) THEN Claim("conflict", row, marks)
  ELSE IF a \in marks
    THEN Claim(IF row.state = "running" THEN "in_progress" ELSE "replayed", row, marks)
  ELSE IF row.state = "completed" THEN Claim("cached", row, marks)
  ELSE IF row.leased THEN Claim("in_progress", row, marks \union {a})
  ELSE Claim("acquired", Acquired(row, a, s), marks \union {a})

\* MemoryExecutionStateStore.claim: a row exists or it does not; the lease alone tells
\* whether somebody runs it.
MemoryClaim(row, marks, a, s) ==
  IF row # NoExecution /\ row.hash # HashOf(a) THEN Claim("conflict", row, marks)
  ELSE IF row.state = "completed" THEN Claim("cached", row, marks)
  ELSE IF a \in marks
    THEN Claim(IF row.state = "running" THEN "in_progress" ELSE "replayed", row, marks)
  ELSE IF row.leased THEN Claim("in_progress", row, marks \union {a})
  ELSE Claim("acquired", Acquired(row, a, s), marks \union {a})

\* complete, in both stores: hash, owner, attempt, state and lease must be the claim's.
FenceHolds(row, a, s, attempt) ==
  /\ row.hash = HashOf(a) /\ row.owner = s /\ row.attempt = attempt
  /\ row.state = "running" /\ row.leased

-----------------------------------------------------------------------------
(* Serving a request.                                                      *)

\* A request reaches a server: the client's, or one of a probe that sends the same
\* execution to several instances, with the same or with a fresh assertion.
Arrive(s, a) ==
  /\ serve[s] = FreeServer
  /\ serve' = [serve EXCEPT ![s] = [FreeServer EXCEPT !.stage = "arrived", !.assertion = a]]

ProbePosts(s, a) ==
  /\ Arrive(s, a)
  /\ UNCHANGED <<execution, spent, kubeJob, poster, answers, lapses>>

AnswerWith(s, reply) == serve' = [serve EXCEPT ![s].stage = "replying", ![s].reply = reply]

\* The assertion does not verify any more, the image or command is not allowed, or the
\* store cannot be reached.
RefuseRequest(s) ==
  /\ serve[s].stage = "arrived" /\ AnswerWith(s, "refused")
  /\ UNCHANGED <<execution, spent, kubeJob, poster, answers, lapses>>

\* Faulty variant: the lease is not asked about.
ClaimStepUnleased(s) ==
  RedisClaim([execution EXCEPT !.leased = FALSE], spent, serve[s].assertion, s)

ClaimStep(s) == RedisClaim(execution, spent, serve[s].assertion, s)

\* The claim, and the answers to what it found.
ClaimExecution(s) ==
  /\ serve[s].stage = "arrived"
  /\ LET claim == ClaimStep(s) IN
       /\ execution' = claim.row /\ spent' = claim.marks
       /\ serve' = [serve EXCEPT
            ![s].stage = IF claim.found = "acquired" THEN "working" ELSE "replying",
            ![s].attempt = claim.row.attempt,
            ![s].reply = CASE claim.found = "acquired" -> "none"
                           [] claim.found = "cached" -> "response"
                           [] claim.found = "in_progress" -> "busy"
                           [] OTHER -> "refused"]
  /\ UNCHANGED <<kubeJob, poster, answers, lapses>>

\* The Job is named after the execution: one that exists already, whoever created it, is
\* watched instead.
CreateJob(s) ==
  /\ serve[s].stage = "working"
  /\ serve' = [serve EXCEPT ![s].stage = "watching"]
  /\ kubeJob' = IF kubeJob = 0 THEN serve[s].attempt ELSE kubeJob
  /\ UNCHANGED <<execution, spent, poster, answers, lapses>>

\* The Job is deleted by that name.
DeleteJob(s) == kubeJob' = IF serve[s].stage = "watching" THEN 0 ELSE kubeJob

\* The archive, the shell command, the evidence or the backend is refused or fails. The row
\* stays as it is.
FailExecution(s) ==
  /\ serve[s].stage \in {"working", "watching"}
  /\ AnswerWith(s, "refused") /\ DeleteJob(s)
  /\ UNCHANGED <<execution, spent, poster, answers, lapses>>

\* Faulty variant: the answer is sent whether or not it was stored.
ReplyAnyway(stored) == "response"

ReplyTo(stored) == IF stored THEN "response" ELSE "refused"

Completed(row, attempt) ==
  [row EXCEPT !.state = "completed", !.leased = FALSE, !.response = attempt]

\* The Job has ended, or was not seen to. complete stores its result; what could not be
\* stored is not returned.
CommitResult(s) ==
  /\ serve[s].stage = "watching"
  /\ LET stored == FenceHolds(execution, serve[s].assertion, s, serve[s].attempt) IN
       /\ execution' = IF stored THEN Completed(execution, serve[s].attempt) ELSE execution
       /\ AnswerWith(s, ReplyTo(stored))
  /\ DeleteJob(s)
  /\ UNCHANGED <<spent, poster, answers, lapses>>

PostsLeft == poster.posts < MaxPosts

\* The client accepts a response, repeats the request when it is told that the execution is
\* in progress, and gives up on any other status.
Heard(reply) ==
  CASE reply = "response" -> "result"
    [] reply = "busy" /\ PostsLeft -> "ready"
    [] OTHER -> "failed"

\* The answer leaves the server and may be lost.
SendReply(s) ==
  /\ serve[s].stage = "replying"
  /\ serve' = [serve EXCEPT ![s] = FreeServer]
  /\ answers' = IF serve[s].reply = "response" THEN answers \union {serve[s].attempt} ELSE answers
  /\ \/ UNCHANGED poster
     \/ /\ poster.at = s
        /\ poster' = [poster EXCEPT !.state = Heard(serve[s].reply), !.at = NoServer]
  /\ UNCHANGED <<execution, spent, kubeJob, lapses>>

\* The pod is deleted.
ServerDies(s) ==
  /\ serve[s] # FreeServer
  /\ serve' = [serve EXCEPT ![s] = FreeServer]
  /\ UNCHANGED <<execution, spent, kubeJob, poster, answers, lapses>>

-----------------------------------------------------------------------------
(* The client and time.                                                    *)

\* The loop counts its posts and stops at the last.
PostRequest(s) ==
  /\ poster.state = "ready" /\ PostsLeft /\ Arrive(s, Own)
  /\ poster' = [state |-> "waiting", at |-> s, posts |-> poster.posts + 1]
  /\ UNCHANGED <<execution, spent, kubeJob, answers, lapses>>

AfterTransportError(posts) == IF posts < MaxPosts THEN "ready" ELSE "failed"

\* No connection, or no answer within the client's timeout.
PostFails ==
  /\ poster.state \in {"ready", "waiting"}
  /\ LET posts == IF poster.state = "ready" /\ PostsLeft THEN poster.posts + 1 ELSE poster.posts
     IN poster' = [state |-> AfterTransportError(posts), at |-> NoServer, posts |-> posts]
  /\ UNCHANGED <<execution, spent, serve, kubeJob, answers, lapses>>

LapseLease ==
  /\ execution.leased /\ lapses < MaxLapses
  /\ execution' = [execution EXCEPT !.leased = FALSE] /\ lapses' = lapses + 1
  /\ UNCHANGED <<spent, serve, kubeJob, poster, answers>>

\* The mark lives as long as the assertion, which verify_assertion accepts a little longer.
DropMark(a) ==
  /\ a \in spent
  /\ spent' = spent \ {a}
  /\ UNCHANGED <<execution, serve, kubeJob, poster, answers, lapses>>

ServeNext(s) ==
  \/ RefuseRequest(s) \/ ClaimExecution(s) \/ CreateJob(s) \/ FailExecution(s)
  \/ CommitResult(s) \/ SendReply(s) \/ ServerDies(s)

\* The client goes on, if only because its post times out.
ClientNext == PostFails \/ \E s \in Server : PostRequest(s)

PlaneNext ==
  \/ \E s \in Server : ServeNext(s) \/ \E a \in Assertion : ProbePosts(s, a)
  \/ ClientNext \/ LapseLease \/ \E a \in Assertion : DropMark(a)

PlaneSpec == PlaneInit /\ [][PlaneNext]_planeVars

-----------------------------------------------------------------------------
(* Properties.                                                             *)

\* docs/managed-sandbox-execution-plane.md:24-25: whoever is answered is answered with the
\* stored response, which is that of the newest attempt, although servers die, leases run
\* out under a server that still works, and requests are repeated.
AnswersAreStored ==
  /\ \A attempt \in answers : execution.state = "completed" /\ execution.response = attempt
  /\ execution.state = "completed" => execution.response = execution.attempt

\* docs/sandbox-ha-qualification.md:10: an execution that reaches several instances at once
\* runs once; only a lease that ran out lets it run again. Until then nobody watches, or
\* deletes, another attempt's Job.
RunsNeedLeases ==
  /\ execution.attempt <= lapses + 1
  /\ \A s \in Server :
       lapses = 0 /\ serve[s].stage = "watching" => kubeJob = serve[s].attempt

\* The two stores answer every request alike and leave the same rows and marks behind.
StoresAgree ==
  \A a \in Assertion, s \in Server :
    MemoryClaim(execution, spent, a, s) = RedisClaim(execution, spent, a, s)
=============================================================================
