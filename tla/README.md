# CodeMate in TLA+

CodeMate indexes Git repositories and lets an agent repair a failing test in them:
it reproduces the failure in a sandbox, investigates with local tools and with tools
of MCP servers, proposes a patch, tests it and stores a verdict. The backend is a
FastAPI application with RQ workers; PostgreSQL holds the rows, Redis the queue and the
counters, Qdrant the vectors, and the file system the checkouts and the workspaces.
Paths below are relative to `backend/app/` unless they begin with `scripts/` or `docs/`,
which are directories of the repository.

## 1. The system

| Component | State | Operations | Hard behaviour | What makes it correct |
|---|---|---|---|---|
| Execution ledger (`services/mcp_execution_service.py`) | one row per logical MCP call: status, lease token and expiry, attempts, version, result, checkpoint | `prepare`, `claim`, `execute_once`, `complete`, `mark_unknown`, `recover_stale`, `reconcile`; a delayed watchdog job per lease | overlapping jobs with stale objects, crashes between call and record, timeouts, lost watchdogs | an unsafe call is not issued by jobs that come after its first claim, no invented success, bounded attempts, leases end |
| Approvals (`services/mcp_approval_service.py`, `api/routes/mcp_approvals.py`) | one row per requested call: status, decision, version, deadline | `create_pending`, `decide`, `expire`, `claim_for_resume`, `finish`; decision, retry, resume and expiration jobs | two decisions at once, decision against expiration, double resumption, recovery by the ledger | no call without a timely approval, outcomes are true, nothing stays pending |
| Circuit breaker (`services/mcp_operations_service.py`) | one row per server: state, failures in a row, manual flag, cooldown, trial and its lease | `before_execution`, `record_transport_success/failure`, `record_probe`, `control_circuit` | late outcomes of older calls, concurrent trials | one leased trial, manual opening holds, the threshold trips |
| Quotas (`services/mcp_quota_service.py`) | policies, events and charges in PostgreSQL; counters, marks and slots in Redis | `reserve`, `release`, `update_policy`, `reset_policy`, `reconcile_redis` | two stores without a common transaction, reservations beside a rebuild | the daily limit holds, a logical call is counted once |
| Repair run (`services/agent_service.py`, `agent/`, `workers/jobs.py`, `sandbox/runner.py`) | run status, LangGraph checkpoints, workspace directory, budgets | 16 graph nodes, `run_fix`, `resume_from_approval`, `resume_from_execution`, rehydration, final verdict | crash and retry from a checkpoint, resumptions, a shared directory, loops | the verdict is about the diff that ships, clean trees, new patches, termination |
| Tool router (`mcp/router.py` and the MCP nodes of the graph) | the catalogue of a run, its rounds, calls, observations and rejections | plan, call, observe, pause and resume; edits of policies and grants | a catalogue older than the policies, rounds that a crash takes back | calls within the budget, a rejection holds |
| Registry (`services/mcp_registry_service.py`) | a server's row and revisions; its credential with a cached token | create, update, restore, delete, validate; rotate, exchange, rewrap | validations and exchanges that read, wait and write without a lock | a complete history, a deleted secret stays deleted |
| Delegated identities (`services/mcp_tenancy_service.py`) | OAuth states, identities | start, callback, refresh, revocation | overlapping and repeated callbacks, a refresh under a revocation | one identity per consent, revocation lasts |
| Audit delivery (`core/audit.py`, `services/security_audit_delivery_service.py`) | outbox rows with leases | intent and completion of a request, `deliver_batch`, requeue, purge, the recurring job | slow delivery past its lease, dead letters | an event stays until its sink has it; every row settles |
| GitHub App repairs (`services/github_app_repair_service.py`) | repair status beside the run; branch and draft on GitHub | start, synchronise, decide | requests twice, answers of GitHub lost, stale row objects | one draft, only of a verified run that a human approved |
| Indexing (`services/index_service.py`) | repository status, rows, vectors, three directories | full and incremental jobs, reindex requests | three stores without a common transaction, failure and crash at any step | indexed rows describe the checkout and have vectors, failures are undone |
| Sandbox execution plane (`sandbox/execution_*.py`) | executions and replay marks in memory or Redis; the Kubernetes Job | claim, complete, probe, retrying client | dying servers, lapsed leases, repeated requests | one stored answer, no second run without a lapsed lease, both stores decide alike |
| Evaluation (`services/evaluation_*.py`, `scripts/run_dataset_eval_gate.py`) | dataset, snapshots, runs, results | update, create runs, run, backfill, gate, the script of CI | unlocked updates, jobs failed by a lost answer | the gate compares like with like |
| Qualification (`scripts/run_sandbox_ha_qualification.py`, `scripts/run_staging_qualification.py`, `scripts/mcp_fault_injection.py`) | the run, its output folder, what it did to the site | gates in order, drills that disturb and undo, report, manifest, signature | kills, exceptions in `finally`, a folder used before | approvable evidence was earned |
| Schema and startup (`core/database.py`, `core/migrations.py`, `alembic/versions/`) | the revision of the database and what it holds | upgrade, `init_db`, adoption, downgrade | backends that start together, a killed adoption | the newest revision means the newest schema; backends come up |
| Workload identity and supply chain, authentication and keys, retrieval, review, chat and language models, timeline, HTTP application, frontend, other scripts | rows and files of their own | reads, calculations, single-row updates | little | section 6 |

How they interact: an HTTP request commits a row and puts a job in the RQ queue; a worker
runs the job in a database session of its own. The repair graph lets the router choose
calls of MCP tools and makes them through the ledger, which asks the circuit breaker and
the quotas before a call leaves and schedules a watchdog; the client of a call presents a
server's credential (registry) or a delegated identity. A tool that needs consent ends the
invocation of the graph with a pending approval; the decision, or its expiration, enqueues
the resumption. An unknown outcome ends it too, and an operator's reconciliation enqueues
the resumption. Tests run in a container, or in the execution plane. A run started for a
GitHub workflow carries its verdict to the repair's row. Every audited request writes to
the outbox. Backends create or upgrade the schema before they serve.

One behaviour of the database layer shapes several modules. Sessions are created
with `expire_on_commit=False` (`core/database.py:14`). A row object that some frame still
holds stays in the session's identity map, and a later `SELECT ... FOR UPDATE` of the same
session takes the lock but returns the object with its old attributes; the next flush
writes exactly the columns that differ from what was loaded. `MCPExecution` and
`MCPApproval` model this object (`cache`; `held`, `ask` and, for the ledger's row, `entry`)
and the column-wise `Flush`;
`GitHubRepair` the row object of each session (`seen`); `Registry`, `Benchmark` and
`Delegation` the write of differing attributes only (`Differing`, `Written`,
`Refreshed`). The circuit breaker's operations keep no object between commits (identity
maps hold weak references), so there each operation reads the row anew.

## 2. The modules

| Module | Models | Main correspondences |
|---|---|---|
| `MCPExecution` | the ledger row, the sessions that work on it, leases, watchdogs, operators | `Claim` = `claim` to its commit, `Refresh` = the refresh after it (a transaction of its own), `Complete`/`MarkUnknown` with the fence on the session's object, `Watchdog` = `recover_mcp_execution_job`, `Inspect` + `Reconcile` = the operator's page and `reconcile` |
| `ExecutionContract` | the abstract status machine of one logical call | no code of its own: it states what the ledger promises; `MCPExecution` gives the refinement mapping (`Contract`, `ImplementsContract`) |
| `ConsentContract` | the abstract order of consent, call, answer and report | no code of its own: it states what an approval promises; `MCPApproval` gives the mapping (`Consent`, `ImplementsConsent`) |
| `MCPApproval` | one approval, decision requests, workers, the run's status, and status and result of the ledger's row with the object each worker has of it | `Submit`/`Decide` = the route's first read and the service's decision, `Expire`, `TakeJob`/`ClaimHeld` = `claim_for_resume` in a fresh session and in one that holds the row, `PrepareCall` ... `Finish` = `_resolve_approval` and `resume_from_approval`, `Lease` = `claim` on the object that `prepare` loaded, `RecoverLease` = the watchdog's job, `Reconcile`/`ResumeExecution` = the two routes of an operator |
| `CircuitBreaker` | the health row of one server and the calls in flight | one action per operation and outcome; time is `CooldownEnds` and `LeaseEnds` |
| `MCPQuota` | one policy in both stores, calls, edits, resets, the reconciliation | `Reserve` takes the row lock, `RedisGrants/Refuses/Fails` = the Lua script and its failure, `CommitReservation`; `ReadLease` ... `FreeSlot` = `release`; `LockTenant`, `ReadLedger`, `Rebuild` = `reconcile_redis` |
| `RunContract` | what a run's row tells: its status, and what the tests said of the stored diff | no code of its own: `RepairRun` implements it (`StoredDiff`, `Shown`), `GitHubRepair` takes its verdicts from it (`Run!Give`) |
| `RepairRun` | graph, verdicts, budgets, checkpoints, workspace, jobs of one run | one action per node and per outcome that the code distinguishes; `Step` ends a super-step, `RunJob` = `run_fix` with `_invoke_fix_graph`, `Return` = cleaning up and `_persist_final_state` |
| `ToolRouter` | what one run asks for and is let through | `Judged` and `Validated` = the router's checks of a plan, call by call, `PlanMCPTools`, `CallMCPTool`, `ObserveMCP` = the nodes, `Resume*` = the two resumptions, `IsAllowed` = the decision of grants |
| `Registry` | one server's row, revisions and credential | `Change` = create, update, restore under lock and version; `StartValidation`/`EndValidation` and `ReadCredential`/`EndExchange`/`EndRewrap` around the call to another server |
| `Delegation` | OAuth states, callbacks, identities, refreshes | `LockState`/`CompleteAuthorization` = the callback's transaction, `StartRefresh`/`EndRefresh`, `Revoke` |
| `AuditDelivery` | the middleware's records, the outbox, deliverers, the recurring job | `WriteIntent`/`Handle`/`WriteCompletion` = the middleware, `Begin` ... `Settle` = `deliver_batch`, `Finish` with `Reschedule` = the job, `Startup` = the first schedule |
| `GitHubRepair` | the repair's row beside the run's status, its jobs, branch and draft | `LookUp` ... `QueueRun` = the start, `StartRun` ... `SyncJob` = the run's job with `sync_agent_result`, `LoadRepair` ... `StoreOutcome` = `decide` |
| `IndexRepository` | repository row, chunks, vectors, directories, jobs | `Write` ... `Retire` follow `_index_full`/`_index_incremental`, `Undo` is their `except` block |
| `SandboxPlane` | one execution in the store, its Job, the servers and the client | `RedisClaim` = the Lua script, `MemoryClaim` = the store in memory, `ClaimExecution` ... `CommitResult` = `POST /v1/executions`, `PostRequest`/`PostFails` = the client |
| `Benchmark` | one dataset, its snapshots, runs and the gate | `UpdateDataset`, `Post...`/`RunDataset` = the routes that create runs, `StartEval` ... `EvalJobFails` = the job, `GateOpens` = `evaluate_gate`, `CiAsks` = the script |
| `Qualification` | the gates of both scripts and the output folder | `RunGate`, `Disturb`/`Undo` = a drill and its `finally`, `WriteReport` ... `WriteHold` = the end of the scripts |
| `SchemaStartup` | revisions, starting backends, the operator's commands | `Revisions` = `alembic/versions`, `BeginUpgrade` ... `FillRows` = `init_db`, `Adopt` ... `Stamp` = the adoption, `Downgrade` |
| `MCBackend`, `MCPlatform`, `MCServices` | instances for TLC of several components side by side | below |
| `MCMCPExecution`, `MCMCPApproval`, `MCRepairRun` | instances for TLC of one component: symmetry sets | |
| `*Proofs` | theorems checked by TLAPS | section 5 |

Two modules compose components that interact. `MCPApproval` has the approval with the
ledger's row reduced to status, result and number of leases; a worker that has prepared the
call works on the object it has loaded (`entry`), so two that have both prepared may both
claim. A claim and the refresh after it are one step there; what comes between them, and the
other columns, are examined in `MCPExecution`. `RepairRun` has the graph with both, each
reduced to what a resumption can see (the status of each row and the checkpoint it stores),
and the ledger's status changes in one step per operation. `GitHubRepair` has the run
reduced to its row, of which it knows what `RunContract` says and `RepairRun` implements;
`ToolRouter` has the ledger reduced to the set of keys under which a call was issued.

`MCBackend`, `MCPlatform` and `MCServices` are no compositions in this sense: their
components share no state. A variable `part` chooses the one that moves, the others stay
in one initial state, so a behaviour is one of a single component and the states are the
sum of the components' states, not their product. A property speaks of one component.

Definitions such as `RetryableNoBudget` or `LeftAsIs`, marked as faulty variants, stand
before the definition they would replace. They are not part of any specification. Each is
a plausible error in that code, and the property paired with it in `PROJECT.json` is
violated when it takes the place of the right definition.

Every module states its types (`TypeOK`, or `QuotaTypeOK` and the like). TLC found all of
them to hold in the instances below while the modules were written; the configurations
keep the properties that say more, and the type invariants that proofs rest on are part of
the inductive invariants of section 5.

## 3. What the runs check

| Run | Bounds | Shows |
|---|---|---|
| `ledger_serial` | 1 session slot, 2 operators, 3 attempts, 4 claims | jobs that follow one another: `AttemptBudget`, `RowIsCoherent`, the contract (`ImplementsContract`), `ReconcilesWhatWasSeen`, `WatchedLeaseEnds` |
| `ledger_overlap` | 2 sessions, 1 operator, 2 attempts, 3 claims | overlapping jobs: `UnsafeNeverReissued`, `SuccessIsWitnessed` |
| `ledger_settled` | as `ledger_overlap` | **violated** `SettledCallsStayLocal` |
| `ledger_lost_watchdog` | as `ledger_serial`, 1 operator | **violated** `EveryLeaseEnds` |
| `approval_resume` | 1 request at a time, 2 workers, 2 leases, version 4 | `CallsAreApproved`, `CompletedRunMovesOn`, `PendingEnds`, the contract (`ImplementsConsent`) |
| `approval_old_version` | 2 requests, 1 worker | **violated** `OldVersionRefused` |
| `repair_startup` | repair: 1 worker, 1 diff, 2 iterations, 2 planner calls, 1 tool call, 1 MCP round, 1 resumption, no retry of the job; schema: 2 backends, an operator, 1 mishap | `CleanTree`, `EachIterationIsNew`, `InvocationEnds`; `HeadIsComplete`, `BackendsComeUp` |
| `platform`: repair | 1 worker, 2 diffs, 2 iterations, 1 planner call, 1 MCP round, 1 resumption | `VerifiedAsShipped` |
| `platform`: router | 2 tools, 1 argument and one that does not fit, 2 calls, 2 rounds, 2 proposals, 1 change, 1 crash | `CallsWithinBudget`, `RejectionHolds` |
| `platform`: plane | 2 servers, 3 assertions (one of another request), 2 posts, 1 lapse | `AnswersAreStored`, `RunsNeedLeases`, `StoresAgree` |
| `platform`: benchmark | 2 runs, 2 lists of cases, 1 case, 3 outcomes, 2 versions | `GateComparesLikeWithLike` |
| `platform`: qualification | both scripts, 2 runs into one folder, with and without the fault drills | `EvidenceIsEarned` |
| `services`: circuit | 2 attempts, 3 executions, threshold 2 | `OneLeasedTrial`, `ManualIsOpen`, `ClosedIsHealthy` |
| `services`: index | 2 files, 2 contents, 3 jobs, 1 push, 1 worker | `NoDanglingRow`, `IndexedIsConsistent`, `FailureIsUndone` |
| `services`: quota | 2 callers, 2 keys, 1 reconciler, 1 editor, limits 1 and 2, width 1, open and closed on failure, 1 edit, 1 reset or end of a day | `BudgetHolds`, `CountedOnce` |
| `services`: GitHub | 2 start requests, 2 decisions, 2 jobs, 1 resumption after a verdict | `OnlyVerifiedAndApproved`, `OneTrueDraft` |
| `services`: registry | 2 configurations, 2 secrets, 1 validation, 2 requests on the credential, 3 revisions, 3 rotations | `HistoryIsComplete`, `DeletedSecretIsGone` |
| `services`: delegation | 2 states, 2 callbacks, 2 token jobs, 2 identities | `OneIdentityPerState`, `RevocationLasts` |
| `delivery` | 1 request with its 2 events, 1 sink, 2 deliverers, 2 tries, 1 fault | `NothingIsLost`, `EveryRowSettles` |
| `repair_overlap` | 2 workers, 1 iteration | **violated** `VerifiedAsShipped` |
| `repair_reset` | a reset may fail | **violated** `CleanTree` |

`platform` and `services` are one run each; the table splits them by component.

The five violated runs state what a document or a comment of the repository says of the
program; `findings` in `PROJECT.json` quotes the line and describes the behaviour TLC
finds. In short:

1. *A settled call may leave again.* Two jobs prepare one key; the first claims and
   settles it; the object of the second still says "prepared". Only the server's own
   deduplication hides the second call, and the same happens to a call that may not be
   repeated. A job that comes to the row after the first claim does not repeat such a call
   (`UnsafeNeverReissued` holds, and is proved).
2. *A row may say "executing" for ever*, if the worker dies after it has committed the claim
   and before it has enqueued the watchdog: the lease expires and nothing that is sure to
   come looks at it. (An enqueue that fails is swallowed and leaves the row alike; TLC's
   behaviour is the death.)
3. *The second of two opposite decisions wins* if both requests read the row before
   either locked it.
4. *A run may be verified with a diff nobody tested*, if the resumption of one of its
   settled executions overlaps the run's own job: both use one directory.
5. *A failed reset is ignored*, and the next patch is stacked on the failed one.

Why the bounds are enough. The ledger needs two sessions for every race between a holder and
a taker of a lease, and a third claim for a row that is retried after a retry; with one
session there is one claim more than the budget allows, so exceeding it is within reach. The
approval has one deadline and one decision that matters; two workers give every double
resumption. Two attempts and three executions let a trial overlap an older call; more
attempts are covered by the proofs. Two iterations give the first repair, the repetition and
the stacked patch, and one diff is enough to be repeated: the pause for an MCP call and its
resumption may come between the two proposals. Retries of the job and two diffs, where they
matter for the verdict, are in `platform`. Three jobs give an index that is built, updated
and rebuilt over a failure. Two calls of two keys, a limit of one and a reconciliation give
every race for the last unit of a day, and a repeated key. Two runs are a baseline and a
candidate, and two versions a dataset that changed between them. Two runs of a script give a
folder with the files of a former one. Two requests and three writes of a credential give a
write-back over a credential that was deleted and created again. One lapsed lease gives an
attempt that outlives its lease beside its successor. Two deliverers and two tries give a
delivery that outlasts its lease, a retry and a dead letter. Two backends give every
collision; a third would only lose as the second does. Symmetry is used where identities are
compared for equality only and never in a run with a liveness property.

Bounds that are not constants of the code: `MaxClaims`, `MaxVersion`, `MaxLeases`,
`MaxFailures`, `MaxResumes`, `MaxJobs`, `MaxPushes`, `MaxRepairJobs`, `MaxEdits`,
`MaxClears`, `MaxFaults`, `MaxLapses`, `MaxChanges`, `MaxCrashes`, `MaxProposals`,
`MaxRevisions`, `MaxRotations`, `MaxIdentity`, `MaxEval`, `MaxCase`, `MaxEdition`,
`MaxDrills`, `MaxMishaps`. Those that are have smaller values than in the deployment
(`MaxTries` is 4 there for a run, `MaxPlannerCalls` and the tools more). Counters of
`RepairRun` stop one above their budget, where no guard tells them apart. Versions only
grow; where a bound on them disables an action, the other actions are still explored.
`CHECK_DEADLOCK FALSE` stands in the runs whose systems stop: a decided approval, a
finished run, an index with no job left, a draft that is made, an outbox that is empty.

### Fairness

- A job that has started runs on to its end, or its worker dies or is killed at the job
  timeout (`WF` of `Progress`, `Resume`, `Node \/ Raise`, `Deliver`; a crash is one of the
  steps in the first two, and stays possible in the others). RQ enforces `job_timeout` on
  every job.
- A lease or a deadline runs out by itself (`WF` of `ExpireLease`, `BecomeDue`,
  `DeadlinePasses`).
- A watchdog or expiration job that was scheduled is run when it is due: the scheduler
  enqueues it and the queue is first-in first-out (`SF`, because workers come and go). A
  due job that starts is taken to reach its first commit. The recurring delivery job is
  taken from the queue by whichever deliverer is free (`SF` of `DeliverJob`).
- A backend that ended with an error is started again (`WF` of `StartUp`). This is the
  restart policy of the staging deployment (`deploy/staging/docker-compose.yml:113`,
  `unless-stopped`); the root `docker-compose.yml` gives the backend none, and there
  `BackendsComeUp` needs somebody who starts it again.
- Nothing is assumed of operators, administrators, language models or servers, nor that
  another job will come to a row. `EveryLeaseEnds` fails for exactly that reason, and
  `EveryRowSettles` has the exception `NoSchedule`: the recurring job schedules its
  successor itself, and once it has died before doing so only a restart or a manual
  delivery settles what is open.

## 4. Modelling decisions

- **Ledger.** Lease tokens are numbered by a counter; expiry is membership in `live`.
  The early return on the key's uniqueness conflict reads the winner's row. The quota
  refusal rolls back, which does expire the session's objects; the module reads the row
  again there.
- **Approval.** The job of a watchdog comes when it likes: `RecoverLease` is enabled while
  the row says "executing", and a session that finds the lease lapsed may do so in any state.
  `due` and `aged` stand for the two clocks. The route's second enqueue of
  the same version is one job, as the job id carries the version.
- **Circuit.** The breaker is enabled; a version conflict changes nothing and is not an
  action. The cooldown is at least as long as the half-open lease (60 s and 30 s by
  default): `CooldownEnds` waits for the leases, and `OneLeasedTrial` rests on it.
- **Quotas.** Of the limits, the daily number of calls and the number of concurrent calls
  are kept: the minute, the cost and the run are counted like the day. A day may end at
  any time. What the code does at the edges is in the model and no property promises
  otherwise: a late `release` frees the slot of a newer holder of the same event; a rebuild
  may undo a reset that came between its reads; the reconciliation may report a drift that
  is only the time between them; a reset hides running leases, so more calls than the width
  may run beside it; an edit is accepted with a version older than the one its route has
  just loaded.
- **Repair run.** LangGraph is external: a super-step's checkpoint is written in the
  background, so after a crash the latest one may be any earlier one (`saved'` in
  `{saved, new}`); a finished invocation has written all. Nodes that only load data and
  the pause nodes are part of a neighbour; an MCP round has one call; time and token
  budgets are covered by a planner that may finish at any step. Tools raise when the
  directory is gone. `ResetResults` is `{TRUE}` in the passing runs and open in
  `repair_reset`: `CleanTree` says that no path of the graph forgets a reset, not that a
  reset that fails is noticed.
- **Router.** The model proposes any sequence of calls. `CallsWithinBudget` leaves out keys
  of rounds that a crash took back (`takenBack`): a key holds the round and its index, and
  the planner may ask for another call after a retry; the set grows with every crash. That
  two graphs of one run do not overlap is the matter of `MCPApproval`.
- **Registry and delegation.** A validation, an exchange and a refresh read, wait and then
  write what differs. `DeletedSecretIsGone` speaks of the row's id: rows are numbered as
  they are created, and a write to a number that is gone fails. A failed callback rolls its
  state back, so it may be repeated.
- **Audit.** Export is on and fail-closed, as staging and production require. The
  retention of at least 30 days outlasts every batch: a row in a deliverer's hand is not
  purged.
- **GitHub.** A request to GitHub may fail after it has taken effect. The branch is named
  after the repair, not after the decision, which is what makes the draft one. A
  settled execution may be resumed after the run has its verdict: neither
  `resume_from_execution` nor its route tests for a terminal run. What the graph then ends
  with replaces the diff, and a repair that is already offered does not learn of it.
- **Plane.** One execution id; a row lives longer than anything here takes. `StoresAgree`
  compares both claims in every reachable state, for every assertion and server, instead of
  running the two stores one beside the other.
- **Index.** A file has one chunk and a fetch is one step. The outcome of a commit is
  known to the job; renames and removals that are not best-effort succeed or fail as a
  whole. The passing run has one worker, as docker-compose deploys it.
- **Benchmark.** The default policy. Cases have the same ids in every list; lists differ
  by what is asked, so a comparison of results of two lists is possible and would be wrong.
  The run starts with the first list, as lists differ by name only.
- **Qualification.** Gates that are passed or failed together are one. "Left" is what a
  drill disturbed and did not restore; a manifest is what it lists, the signature what it
  signs.
- **Schema.** A revision is what it adds and what rows it rewrites; no revision drops what
  another adds, so `Apply` states the effect of several by their union. PostgreSQL runs an
  upgrade in one transaction; the operator gives one command at a time. An adoption bridges
  the columns of an old database but creates neither the index of the full text search nor
  those of bridged columns, so the downgrade of an adopted database fails as a whole; a
  database that lacks the payload columns of `agent_steps` is refused by the validation.

Known behaviour that no property states:

- A retried `run_fix` that finds a paused checkpoint leaves the run "running" while it
  waits.
- A run that is resumed after its verdict may get another diff between the offer of its
  draft and the push, which pushes what the run has by then. The model has such a behaviour
  with the one resumption of `services`; `OnlyVerifiedAndApproved` claims the verified diff
  only for runs that were not resumed (`reopens = 0`).
- A crash in a resume job leaves the approval "resuming" until an administrator retries it.
- A late success closes an open circuit without a trial.
- A token exchange or a rewrap that read the credential before a rotation writes the old
  secret back over the new one, and the version it writes is one that was there before.
- A validation that ends late writes the version it had read plus one, so the versions of a
  server and of its revisions may repeat.
- A resumption goes on from the state that its approval or execution has stored: it does not
  know of the diffs that the run has tried since, and may test one of them again.
- A crash after "creating_draft" was committed strands the repair, as no job and no
  decision moves it on.

## 5. What is proved

The theorems hold for every value of the constants that fits the named assumption of the
module: bounds are naturals, and those that the settings refuse to be zero are positive;
null values are not values. `MaxIterations # 0` is what `validate_security_config`
(`core/config.py`) demands before the application starts. Each property is checked by
TLC in the run of section 3 and proved by an inductive invariant: it holds at first, every
action keeps it, it implies the property.

Every safety property and every action property of a passing run is proved. Three of the
components keep their promise only under a condition, and then the condition is the
hypothesis inside the theorem:

| Condition | Says | Without it |
|---|---|---|
| `OneSession` (ledger) | one session at a time has the row; crashes, expired leases, watchdogs, operators and later jobs come between | a stale object's column-wise flush mixes two rows (`ledger_settled`) |
| `Alone` (repair run) | one worker at a time, and `git reset` succeeds | `repair_overlap`, `repair_reset` |
| `OneWorker` (indexing) | one RQ worker, as docker-compose deploys it | two jobs exchange one checkout |

**`MCPExecutionProofs`** (ledger; any number of sessions, operators, attempts, claims):

- `LedgerTypes`. `TypeInv` adds to the types that no session holds a row and no lease
  exists before the first `Prepare`; without it, `Flush` and the operators on rows could be
  applied to no row. `FlushType` shows that mixing the columns of two rows gives a row.
- `UnsafeCallsNeverReissued`, with overlapping sessions. A session may hold an object that
  says "prepared" long after the row stopped saying so. `UnsafeInv` adds what saves it:
  without `retry_safe`, no path leads back to "prepared" once a claim was made, so a
  session that holds such an object loaded it before the first claim.
- `SuccessNeverInvented`, with overlapping sessions. `WitnessInv` says that without a
  witness no column, in the table or in any session, speaks of success, so no mixture of
  columns does.
- `SerialBudget`, `SerialCoherence`, `SerialReconciliation` and `LedgerImplementsContract`,
  under `OneSession`, by one invariant, `SerialInv`: the row is coherent and within its
  budget (`SoundRow`), a session past its claim holds the row as it is, under its own lease,
  and before it at most a row that an operator has moved on and the session can only refuse
  (`HoldsTheRow`), and what an operator saw is an older version or the row itself
  (`SeenIsPast`; versions grow with every change, so the version test of `reconcile`
  suffices). The lemma
  that every step moves the row in one of the ways of `RowMove` gives the refinement: each
  maps to an action of `ExecutionContract` or to a stutter.

**`MCPApprovalProofs`** (any number of requests and workers, stale objects included):
`ApprovalTypes`, `LeasesAreApproved`, `ResultsAreWitnessed`, `RunsMoveOn`. `HonestInv` says
that every column has its cause (`Backed`: a decision "approved" had a human's timely word,
a good result an answer, a completed approval a run that moved on), in the table and in every
object a request or a worker still holds (`ObjectsWitnessed`); that a worker that may call
has an approval behind it and one that has started has its run (`WorkersHonest`); and the
like of the ledger's row (`LedgerHonest`). No cause ever becomes false (`HistoryKept`), so a
stale object that is flushed late still tells of something that happened.

- `ApprovalImplementsConsent`. The mapping takes consent, deadline and answer from the
  history, the calls from the leases, the report from the row's result, and those who may
  yet call (`ReadyToCall`) from the workers' objects of the ledger's row: for a call that
  may not be repeated, the workers whose object says "prepared". `HistoryMoves` says that a
  step adds at most one thing to the history and what it then leaves alone. A report rests
  on `HonestInv`; that nobody gets such an object after the first lease, on
  `CallsCounted`; that a lease uses the object up, on `EntryMove`, which lists what a step
  does to one worker's object. So the theorem does not say that such a call leaves once: of
  workers that have prepared it side by side each may issue it, as in the code.
- `ReducedLedgerKeepsContract`, under `OneWorker`. The status and the lease count of
  `MCPApproval` obey `ExecutionContract`, the contract that `MCPExecution` implements: the
  reduction of the ledger shows no transition that the whole ledger would not. `LedgerMoves`
  lists what a step does to them; `ObjectIsCurrent` says that with one worker the object its
  session has of the row is the row, until the call returns. With two, an answer may be
  written from an object that is older than a recovery or a reconciliation, and the contract
  does not hold; there the ledger's own module has the detail.

**`RepairRunProofs`** (any number of workers, patches, budgets, tries):

- `RepairTypes` and `IterationsAreNew`. `RunInv` says that every graph state kept anywhere (in
  a worker, the checkpoint, the approval, an execution's row) fits the node that will get it:
  it is inside the budgets and has tried as many patches as it counts iterations, and one
  more while a patch awaits its test (`Fits`, `Pending`). The theorem is about the diffs
  behind one state.
- `VerifiedIsTested` and `InvestigationOfTheIndexed`, under `Alone`. `TreeInv` relates the
  directory to the state: while a node investigates the tree
  is clean, while one tests it holds exactly the patch of the state (`Tree`), and the evidence
  in a state is about that patch (`Vouched`), in the checkpoint and the rows too, from which
  a retry or a resumption rebuilds the directory.
- `RunKeepsContract`, under `Alone`: the refinement of `RunContract`. `StoredDiff` says of
  the stored diff whether the tests passed on it, from the history and not from the status
  (`Shipped`). `EndsHonest` adds to `TreeInv` that a graph that has ended waits or has the
  verdict its evidence asks for: verified only with all the evidence, and whenever the
  tests passed on the diff. `RowMoves` says that only the end of a graph gives the row
  another diff.

**`MCPControlProofs`** (what surrounds a call: circuit, identities, credential, history,
quotas):

- `OneTrialAtATime`, `ManualOpeningHolds`, `ClosedCircuitIsHealthy`. The first is not
  inductive, because the circuit may close and open again while a lease runs. `TrialInv`
  adds that at most one execution has a running lease, that it is the recorded trial's while
  the circuit is half open, and that none is left when an open circuit has cooled down.
- `ConsentMakesOneIdentity`, `RevokedStaysRevoked`. `DelegationInv`: the locked state is one
  callback's alone (`LockIsExclusive`), what became an identity is consumed
  (`StatesAreConsumed`), what was revoked is made and revoked (`RevokedAreMade`).
- `DeletedCredentialStaysDeleted`. `CredentialInv`: what was read and may be written back
  later has a token that fits (`FitRow`), no row read or stored is newer than the last one
  created (`RowsAreOld`), so the next one gets a number that nobody has read, and a secret
  read from the row there is was set in it (`SecretsAreGiven`).
- `HistoryHolds`. `HistoryIsComplete` is inductive with the types, once "the revisions made
  by requests, in order" is said by their rank rather than by filtering the sequence.
- `QuotaTypes`, `QuotaBudget`, `QuotaCountsOnce`. `BudgetInv` says that the check a call
  passed stays true until its commit, as it holds the policy's row, and that no limit it was
  compared with is above the day's greatest; `CountInv` that Redis, and what a
  reconciliation is about to write there, counts no more than it has marks, and has marks of
  counted keys only.

**`RepositoryProofs`** (indexing, GitHub repairs):

- `RowsKeepTheirVectors`, for any number of overlapping workers. `IndexInv`: job ids are
  unique among queued and working jobs (`Unique`), committed rows and rows to be retired
  belong to jobs past their commit while a job's new rows carry its own id (`Ownership`), a
  job's new rows have vectors from `Write` to the commit and what it retires is not
  committed (`VectorsFirst`). So no job deletes a vector that another one's rows need.
- `IndexIsTrue`, `FailedJobsLeaveNothing`, under `OneWorker`. `SerialInv` says for each phase
  of a job that the rows it will leave describe the tree it will leave (`Prepared`), and, as
  long as nothing was killed, that beside the committed rows only its own vectors exist and
  the old checkout is in its place or in the backup (`Undoable`).
- `PushedIsVerifiedAndApproved`, `DraftIsOneAndTrue`. Row objects are stale and no lock is
  taken, so what a decision tested need not hold any more when it acts. `RepairInv` has what
  does not change any more: a run without a row has no job (`Unstarted`), no job works on a
  run with a verdict (`VerdictIsFinal`), an offered repair, and every decision past its
  test, rests on a good verdict, which stays unless the run is resumed (`Offered`); a row or a
  decision that tells of a draft was preceded by one, and all have the repair's one name
  (`Told`).
- `RepairedRunKeepsContract`. Jobs, pauses, resumptions and crashes change the run's row
  only as `RunContract` allows, and a verdict is the contract's `Give`. With
  `RunKeepsContract`, and under its condition `Alone`, this is the argument across the two
  modules, in place of their product:
  what `OnlyVerifiedAndApproved` calls "verified" is the tree on which the tests passed, so
  what reaches GitHub from a run that was not resumed after its verdict is that tree.

**`DatabaseProofs`** (audit outbox, schema):

- `EventsAreKept`. `OutboxInv`: the row is there before the step it is about
  (`WrittenFirst`), and is marked delivered, or deleted, only after its sink has the event,
  which includes the outcome a deliverer still has in memory (`SentFirst`).
- `HeadIsTrue`. `SchemaInv`: whatever the revisions up to the current one do is done
  (`RevisionsHold`), and an unversioned database with the old tables is the operator's until
  it is stamped, with rows of old only while it lacks the payload columns (`Adoptable`).

**`RunServiceProofs`** (execution plane, tool router):

- `AnswersComeFromTheStore`, `LeasesBoundTheRuns`, `StoresDecideAlike`. `PlaneInv` gives the
  shapes a row can have (`RowShape`), on which the equality of the two stores' claims rests;
  each further attempt was paid for by a lapse (`AttemptsPaid`); an answer under way is the
  stored one (`Answered`); until a lease has run out one server is at work, on its own Job
  (`OneAtWork`).
- `RouterTypes`, `BudgetOfCalls`, `RejectionsLast`. The router filters a plan of any length by
  recursion. `ValidatedIsPlan` says of its result, whatever was proposed, that it fits what
  remains of the budget and avoids what was observed; it rests on the lemmas `Least`,
  `Induction` and `Recursion`, which derive the existence of such a recursive function on
  0..N from the well-foundedness of the naturals. `RouterInv`: what a graph has
  counted pays for the calls of the rounds that are over and leaves room for those of its
  round (`Sound`), a round issues only keys it planned (`Planning`), and both hold of the
  checkpoint a retry goes back to (`Resumable`). `Remembered`: what a person rejected is among
  what the run has observed, or is about to, and no planned call is.

**`EvidenceProofs`** (benchmarks, qualification):

- `GateIsFair`. `GateInv`: a run with a snapshot has its cases (`Bound`; snapshots are added
  and never changed), a completed run has all its results and no job (`Complete`), what CI
  passed was fair and is over (`PassedIsFair`, `Over`).
- `QualifiedIsEarned`. `QualificationInv`: a passed gate was executed by this run and its
  artifact is this run's, a change that was not undone is in a gate that did not pass
  (`DrillIsTrue`), so a qualified report that is being listed and signed was earned
  (`Earned`); until a run writes its report the manifest in the folder is an earlier one's
  (`ManifestIsPast`), so a later run spoils the evidence and never completes it.

Only model-checked: the five liveness properties (`WatchedLeaseEnds`, `PendingEnds`,
`InvocationEnds`, `BackendsComeUp`, `EveryRowSettles`), as fairness and `ENABLED` are out of
the prover's reach, and the five disagreements of section 3. The type predicates of the
components without a type theorem of their own are conjuncts of the invariants above.

## 6. Not modelled

- **Workload identity, attestation, supply chain.** Signature checks, probes and archives
  are functions of their input. What the plane keeps of an assertion is in `SandboxPlane`.
- **Authentication, replay nonces, keys, settings.** Stateless checks; the nonce store is
  one atomic set-if-absent, like the replay marks of `SandboxPlane`.
- **Retrieval, review, chat, memory, language models.** Reads over the index and calls of a
  model, without a state machine. A model's answers are free choices in `RepairRun` and
  `ToolRouter`.
- **Run timeline and agent tools.** The steps are an append-only log for the user
  interface; the tools read the workspace.
- **HTTP application, repository service, telemetry, frontend, other scripts, deployment.**
  Routing, listings, metrics, displays and container definitions.

Of modelled components: the statistics and alerts of MCP servers; the registration of
servers from the configuration; the transports, the rules of egress and the MCP server for
other clients; tenants, members and providers, of one row each; the compliance probe; the
start of a test container and its limits; the archive and the broker of local containers;
the deletion of a dataset, runs that name none, other policies than the default and the
metrics of retrieval cases; partial downgrades given by hand, disabled migrations, and
releases of different versions beside each other. `RepairRun` and
`GitHubRepair` are not composed in one module, as their product is out of TLC's reach; they
meet in `RunContract` (section 5).
