---------------------------- MODULE GitHubRepair ----------------------------
(***************************************************************************)
(* The repair of a failed workflow run of one repository                   *)
(* (services/github_app_repair_service.py, api/routes/github_app.py): the  *)
(* row in github_app_repairs beside the agent run it starts, the run's     *)
(* job (workers/jobs.py) and the draft pull request. The run is reduced to *)
(* its status and its diff; what makes a verdict is modelled in RepairRun. *)
(* One RQ worker takes the run's jobs and resumptions, as in the deployment. *)
(***************************************************************************)
EXTENDS Naturals, FiniteSets

CONSTANTS
  Starter,        \* requests POST /repairs for the workflow run
  Decider,        \* requests POST /repairs/{id}/decision
  JobSession,     \* the session of the run's job
  MaxRepairJobs,  \* bound: jobs of the run in the queue
  MaxReopens      \* bound: resumptions of the run after its verdict

ASSUME GitHubAssumption ==
  MaxRepairJobs \in Nat /\ MaxReopens \in Nat /\ JobSession \notin Decider

VARIABLES
  repair,         \* status of the row in github_app_repairs
  run,            \* status of the agent run the row refers to
  paused,         \* whether a call of the run waits for a decision
  patch,          \* what its final_diff is
  reopens,        \* how often it was resumed after its verdict
  verified,       \* history: one of its verdicts was verified_success
  orphans,        \* whether a run was created that no repair refers to
  runJobs,        \* jobs of the run in the queue
  worker,         \* what the worker that runs such a job is doing
  start,          \* how far each start request is
  decide,         \* how far each decision request is
  seen,           \* status in the row object of each session that synchronises
  branches,       \* branches pushed to GitHub
  pulls,          \* branches with a draft pull request
  approved        \* whether a human approved the draft

diffVars == <<patch, reopens, verified>>
runVars == <<run, paused, diffVars>>
rowVars == <<repair, orphans, runVars>>
jobVars == <<runJobs, worker>>
pullVars == <<branches, pulls>>
githubVars == <<rowVars, jobVars, start, decide, seen, pullVars, approved>>

RepairStatus == {"none", "fixing", "waiting_approval", "fix_failed", "rejected",
                 "creating_draft", "draft_pr_created", "failed"}
Verdict == {"verified_success", "unverified_patch", "not_reproduced", "failed", "infra_error"}
Paused == {"waiting_approval", "waiting_reconciliation"}
BranchName == {"ci-fix"} \union Decider
AgentRunStatus == {"none", "pending", "running"} \union Paused \union Verdict

GitHubTypeOK ==
  /\ repair \in RepairStatus /\ run \in AgentRunStatus
  /\ patch \in {"none", "unverified", "verified"}
  /\ verified \in BOOLEAN /\ reopens \in 0..MaxReopens
  /\ paused \in BOOLEAN /\ orphans \in BOOLEAN /\ runJobs \in 0..MaxRepairJobs
  /\ worker \in {"free", "fixing", "syncing", "synced"}
  /\ start \in [Starter -> {"new", "reading", "created", "queueing", "done", "error"}]
  /\ decide \in [Decider -> {"new", "loaded", "ready", "pushing", "opening", "made", "broken",
                           "done", "error"}]
  /\ seen \in [Decider \union {JobSession} -> RepairStatus]
  /\ branches \subseteq BranchName /\ pulls \subseteq branches /\ approved \in BOOLEAN

GitHubInit ==
  /\ repair = "none" /\ run = "none" /\ paused = FALSE /\ orphans = FALSE
  /\ patch = "none" /\ reopens = 0 /\ verified = FALSE
  /\ runJobs = 0 /\ worker = "free"
  /\ start = [s \in Starter |-> "new"] /\ decide = [d \in Decider |-> "new"]
  /\ seen = [x \in Decider \union {JobSession} |-> "none"]
  /\ branches = {} /\ pulls = {} /\ approved = FALSE

-----------------------------------------------------------------------------
(* Starting a repair.                                                      *)

\* An existing repair is returned as it is; otherwise GitHub is asked for the failed run.
LookUp(s) ==
  /\ start[s] = "new"
  /\ start' = [start EXCEPT ![s] = IF repair = "none" THEN "reading"
                                   ELSE IF repair = "fixing" THEN "queueing" ELSE "done"]
  /\ UNCHANGED <<rowVars, jobVars, decide, seen, pullVars, approved>>

\* GitHub reports no failed workflow run of this repository, or does not answer.
NotRepairable(s) ==
  /\ start[s] = "reading"
  /\ start' = [start EXCEPT ![s] = "error"]
  /\ UNCHANGED <<rowVars, jobVars, decide, seen, pullVars, approved>>

\* create_fix_run commits the agent run.
CreateRun(s) ==
  /\ start[s] = "reading"
  /\ start' = [start EXCEPT ![s] = "created"]
  /\ UNCHANGED <<rowVars, jobVars, decide, seen, pullVars, approved>>

\* The repair is committed, unless the unique constraint finds another one.
CreateRepair(s) ==
  /\ start[s] = "created"
  /\ \/ /\ repair = "none"
        /\ repair' = "fixing" /\ run' = "pending" /\ UNCHANGED <<paused, orphans, diffVars>>
        /\ start' = [start EXCEPT ![s] = "queueing"]
     \/ /\ repair # "none"
        /\ orphans' = TRUE /\ UNCHANGED <<repair, runVars>>
        /\ start' = [start EXCEPT ![s] = "error"]
  /\ UNCHANGED <<jobVars, decide, seen, pullVars, approved>>

\* The route enqueues the run of a repair that its object says is "fixing", a repeated
\* request included; when Redis is down it marks the repair failed whatever it is by now.
QueueRun(s) ==
  /\ start[s] = "queueing"
  /\ start' = [start EXCEPT ![s] = "done"]
  /\ \/ runJobs < MaxRepairJobs /\ runJobs' = runJobs + 1 /\ UNCHANGED repair
     \/ repair' = "failed" /\ UNCHANGED runJobs
  /\ UNCHANGED <<runVars, orphans, worker, decide, seen, pullVars, approved>>

-----------------------------------------------------------------------------
(* The run and its job.                                                    *)

\* run_fix leaves a terminal run alone.
StartRun ==
  /\ worker = "free" /\ runJobs > 0
  /\ runJobs' = runJobs - 1
  /\ IF run \in Verdict THEN worker' = "syncing" /\ UNCHANGED run
     ELSE worker' = "fixing" /\ run' = "running"
  /\ UNCHANGED <<repair, paused, diffVars, orphans, start, decide, seen, pullVars, approved>>

\* What the run's row tells, RepairRun keeps to.
Run == INSTANCE RunContract WITH status <- run

\* The verdict and the diff of the graph are stored.
GiveVerdict(outcome) ==
  /\ Run!Give(outcome)
  /\ verified' = (verified \/ outcome = "verified_success")

\* The graph ends with a verdict.
EndRun(outcome) ==
  /\ worker = "fixing" /\ ~paused
  /\ GiveVerdict(outcome) /\ worker' = "syncing"
  /\ UNCHANGED <<repair, paused, reopens, orphans, runJobs, start, decide, seen, pullVars,
                 approved>>

\* It pauses; a retry finds that it has paused already and leaves the run "running".
PauseRun(outcome) ==
  /\ worker = "fixing"
  /\ paused' = TRUE /\ worker' = "syncing"
  /\ run' = IF paused THEN run ELSE outcome
  /\ UNCHANGED <<repair, diffVars, orphans, runJobs, start, decide, seen, pullVars, approved>>

\* A resume job continues from the checkpoint of a call. resume_from_execution does not ask
\* whether the run has its verdict, and the route takes any settled execution.
Resumable ==
  \/ paused /\ UNCHANGED reopens
  \/ run \in Verdict /\ reopens < MaxReopens /\ reopens' = reopens + 1

\* It finishes the run. It does not look at repairs.
ResumeRun(outcome) ==
  /\ worker = "free" /\ Resumable
  /\ GiveVerdict(outcome) /\ paused' = FALSE
  /\ UNCHANGED <<repair, orphans, jobVars, start, decide, seen, pullVars, approved>>

\* Or the run pauses at another call.
PauseAgain(outcome) ==
  /\ worker = "free" /\ Resumable
  /\ run' = outcome /\ paused' = TRUE
  /\ UNCHANGED <<repair, patch, verified, orphans, jobVars, start, decide, seen, pullVars,
                 approved>>

\* The worker dies; RQ may have a retry of the job left.
WorkerDies ==
  /\ worker # "free"
  /\ worker' = "free"
  /\ runJobs' \in {runJobs} \union (IF runJobs < MaxRepairJobs THEN {runJobs + 1} ELSE {})
  /\ UNCHANGED <<rowVars, start, decide, seen, pullVars, approved>>

\* Faulty variant: any run that produced a diff may be offered for a draft.
VerdictOnRepairByDiff(verdict) ==
  IF verdict \in {"verified_success", "unverified_patch"} THEN "waiting_approval" ELSE "fix_failed"

\* A verified run has a diff.
VerdictOnRepair(verdict) ==
  IF verdict = "verified_success" THEN "waiting_approval" ELSE "fix_failed"

\* sync_agent_result works on the object its session holds. The commit writes the status
\* over whatever the row has become since.
Synchronise(object) ==
  repair' = IF object = "fixing" /\ run \in Verdict THEN VerdictOnRepair(run) ELSE repair

\* What a session has synchronised it does not need any more.
Drop(session) == seen' = [seen EXCEPT ![session] = "none"]

ReadForSync ==
  /\ worker = "syncing"
  /\ worker' = "synced" /\ seen' = [seen EXCEPT ![JobSession] = repair]
  /\ UNCHANGED <<rowVars, runJobs, start, decide, pullVars, approved>>

SyncJob ==
  /\ worker = "synced"
  /\ worker' = "free"
  /\ Synchronise(seen[JobSession]) /\ Drop(JobSession)
  /\ UNCHANGED <<runVars, orphans, runJobs, start, decide, pullVars, approved>>

-----------------------------------------------------------------------------
(* Deciding about the draft.                                               *)

\* The route reads the repair; the session keeps the object.
LoadRepair(d) ==
  /\ decide[d] = "new" /\ repair # "none"
  /\ decide' = [decide EXCEPT ![d] = "loaded"] /\ seen' = [seen EXCEPT ![d] = repair]
  /\ UNCHANGED <<rowVars, jobVars, start, pullVars, approved>>

\* decide_draft_pr synchronises, refreshes the object and tests it. No lock is taken.
Consider(d) ==
  /\ decide[d] = "loaded"
  /\ Synchronise(seen[d])
  /\ decide' = [decide EXCEPT ![d] = CASE repair' = "waiting_approval" -> "ready"
                                       [] repair' = "draft_pr_created" -> "done"
                                       [] OTHER -> "error"]
  /\ Drop(d)
  /\ UNCHANGED <<runVars, orphans, jobVars, start, pullVars, approved>>

Reject(d) ==
  /\ decide[d] = "ready"
  /\ repair' = "rejected"
  /\ decide' = [decide EXCEPT ![d] = "done"]
  /\ UNCHANGED <<runVars, orphans, jobVars, start, seen, pullVars, approved>>

Approve(d) ==
  /\ decide[d] = "ready"
  /\ repair' = "creating_draft" /\ approved' = TRUE
  /\ decide' = [decide EXCEPT ![d] = "pushing"]
  /\ UNCHANGED <<runVars, orphans, jobVars, start, seen, pullVars>>

\* Faulty variant: a branch for every decision.
BranchByDecision(d) == d

\* The branch is named after the repair.
Branch(d) == "ci-fix"

\* The final_diff of the run, whatever its status is by now, is applied, committed and pushed.
\* The repository may have moved on and the patch may not apply. GitHub refuses another
\* commit of a branch it has; the same commit changes nothing.
PushPatch(d) ==
  /\ decide[d] = "pushing"
  /\ \/ /\ patch # "none"
        /\ branches' = branches \union {Branch(d)}
        /\ decide' = [decide EXCEPT ![d] = "opening"]
     \/ decide' = [decide EXCEPT ![d] = "broken"] /\ UNCHANGED branches
  /\ UNCHANGED <<rowVars, jobVars, start, seen, pulls, approved>>

\* GitHub refuses a second pull request of a branch; its answer may be lost.
OpenPull(d) ==
  /\ decide[d] = "opening"
  /\ \E opened, heard \in BOOLEAN :
       /\ heard => opened
       /\ opened => Branch(d) \notin pulls
       /\ pulls' = IF opened THEN pulls \union {Branch(d)} ELSE pulls
       /\ decide' = [decide EXCEPT ![d] = IF heard THEN "made" ELSE "broken"]
  /\ UNCHANGED <<rowVars, jobVars, start, seen, branches, approved>>

StoreOutcome(d) ==
  /\ decide[d] \in {"made", "broken"}
  /\ repair' = IF decide[d] = "made" THEN "draft_pr_created" ELSE "failed"
  /\ decide' = [decide EXCEPT ![d] = "done"]
  /\ UNCHANGED <<runVars, orphans, jobVars, start, seen, pullVars, approved>>

\* The process ends between two commits or calls of a request.
StarterDies(s) ==
  /\ start[s] \in {"reading", "created", "queueing"}
  /\ start' = [start EXCEPT ![s] = "error"]
  /\ orphans' = (orphans \/ start[s] = "created")
  /\ UNCHANGED <<repair, runVars, jobVars, decide, seen, pullVars, approved>>

DeciderDies(d) ==
  /\ decide[d] \in {"loaded", "ready", "pushing", "opening", "made", "broken"}
  /\ decide' = [decide EXCEPT ![d] = "error"]
  /\ UNCHANGED <<rowVars, jobVars, start, seen, pullVars, approved>>

GitHubNext ==
  \/ \E s \in Starter : LookUp(s) \/ NotRepairable(s) \/ CreateRun(s) \/ CreateRepair(s)
                        \/ QueueRun(s) \/ StarterDies(s)
  \/ StartRun \/ WorkerDies \/ ReadForSync \/ SyncJob
  \/ \E outcome \in Verdict : EndRun(outcome) \/ ResumeRun(outcome)
  \/ \E outcome \in Paused : PauseRun(outcome) \/ PauseAgain(outcome)
  \/ \E d \in Decider : LoadRepair(d) \/ Consider(d) \/ Reject(d) \/ Approve(d) \/ PushPatch(d)
                        \/ OpenPull(d) \/ StoreOutcome(d) \/ DeciderDies(d)

GitHubSpec == GitHubInit /\ [][GitHubNext]_githubVars

-----------------------------------------------------------------------------
(* Properties.                                                             *)

\* Whatever requests, jobs, resumptions and decisions overlap, nothing reaches GitHub unless a
\* human approved it and a verdict of the run was that its patch is verified; unless the run
\* was resumed after that, it is this patch (sync_agent_result and decide_draft_pr; two
\* decisions at once are not kept apart by a lock).
OnlyVerifiedAndApproved ==
  branches # {} => approved /\ verified /\ (reopens = 0 => patch = "verified")

\* One repair has at most one draft pull request, and a row that tells of one is right,
\* although decisions may overlap, be repeated and lose GitHub's answer.
OneTrueDraft ==
  /\ \A b, c \in pulls : b = c
  /\ repair = "draft_pr_created" => pulls # {}
=============================================================================
