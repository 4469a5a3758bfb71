----------------------------- MODULE Benchmark -----------------------------
(***************************************************************************)
(* The regression gate over one benchmark dataset: the dataset and its     *)
(* snapshots (services/evaluation_dataset_service.py), evaluation runs and *)
(* the gate (services/evaluation_service.py), the job of a run             *)
(* (workers/jobs.py), the backfill of snapshots                            *)
(* (services/evaluation_snapshot_backfill_service.py) and the script of CI *)
(* (scripts/run_dataset_eval_gate.py). The gate's policy is the default.   *)
(* Runs that name no dataset are left out: no gate passes with one. So is  *)
(* the deletion of the dataset, after which there is no gate.              *)
(***************************************************************************)
EXTENDS Naturals, FiniteSets

CONSTANTS
  MaxEval,      \* bound: evaluation runs, created in order
  Suite,        \* contents of the list of cases; all have the same case ids
  NoSuite,      \* no snapshot
  Outcome,      \* verdicts of a case
  MaxCase,      \* number of cases
  MaxEdition    \* bound: versions of the dataset

ASSUME BenchmarkAssumption ==
  /\ NoSuite \notin Suite /\ Outcome \subseteq {"fixed", "matched", "missed", "failed"}
  /\ MaxEval \in Nat
  /\ MaxCase \in Nat \ {0} /\ MaxEdition \in Nat \ {0}

VARIABLES
  dataset,      \* row of the dataset
  snapshots,    \* cases of each version's snapshot
  evals,        \* rows of the runs with their results
  failing,      \* runs whose request is about to fail them
  evalJob,      \* the job of each run
  former,       \* version and cases of the dataset before its last update
  passed        \* <<baseline, candidate>> of each run of the script that exited with 0

benchmarkVars == <<dataset, snapshots, evals, failing, evalJob, former, passed>>

EvalRun == 1..MaxEval
Edition == 1..MaxEdition
CaseId == 1..MaxCase

\* A fix case has two verdicts: whether the run ended as expected (passed), and whether it
\* ended verified. A retrieval case has one.
Passed == {"fixed", "matched"}
Verified == {"fixed", "missed"}

NoResults == [id \in CaseId |-> "none"]
Unborn == [status |-> "none", cases |-> NoSuite, version |-> 0, snapshot |-> 0,
           results |-> NoResults]

\* Run, version and snapshot 0 are None.
BenchmarkTypeOK ==
  /\ dataset \in [version : Edition, cases : Suite, baseline : 0..MaxEval]
  /\ former \in [version : Edition, cases : Suite]
  /\ snapshots \in [Edition -> Suite \union {NoSuite}]
  /\ evals \in [EvalRun ->
       [status : {"none", "running", "completed", "failed"},
        cases : Suite \union {NoSuite}, version : 0..MaxEdition, snapshot : 0..MaxEdition,
        results : [CaseId -> Outcome \union {"none"}]]]
  /\ failing \subseteq EvalRun
  /\ evalJob \in [EvalRun -> {"none", "queued", "working"}]
  /\ passed \subseteq EvalRun \X EvalRun

Versioned(row) == [version |-> row.version, cases |-> row.cases]

\* create_dataset commits the dataset with its first snapshot.
BenchmarkInit ==
  /\ dataset \in [version : {1}, cases : Suite, baseline : {0}]
  /\ snapshots = [v \in Edition |-> IF v = 1 THEN dataset.cases ELSE NoSuite]
  /\ former = Versioned(dataset) /\ evals = [r \in EvalRun |-> Unborn]
  /\ failing = {} /\ evalJob = [r \in EvalRun |-> "none"]
  /\ passed = {}

-----------------------------------------------------------------------------
(* The dataset.                                                            *)

\* A baseline must be completed, whether it is new or was there before.
BaselineValid(e) == e # 0 => evals[e].status = "completed"

\* The version of a snapshot is taken once, and its cases do not change.
Snapshotted(version, cases) ==
  /\ snapshots[version] \in {NoSuite, cases}
  /\ snapshots' = [snapshots EXCEPT ![version] = cases]

\* The row is written where the object differs from what it was, without a lock or a test
\* of the version.
Written(old, new, current) == IF new = old THEN current ELSE new

\* update_dataset: a new list of cases needs a higher version, given or the next one; the
\* version alone may be set at will. An invalid request changes nothing. The object may be
\* older than the row by another update.
UpdateDataset(object, cases, version, baseline) ==
  /\ BaselineValid(baseline)
  /\ cases # object.cases => version > object.version
  /\ Snapshotted(version, cases)
  /\ dataset' = [dataset EXCEPT
       !.version = Written(object.version, version, @),
       !.cases = Written(object.cases, cases, @),
       !.baseline = baseline]
  /\ former' = Versioned(dataset)
  /\ UNCHANGED <<evals, failing, evalJob, passed>>

-----------------------------------------------------------------------------
(* Creating a run.                                                         *)

\* The run is committed. Its job is enqueued, or the request dies first, or Redis fails,
\* perhaps after it took the job; nothing tells these apart before the next step.
CreateEval(r, cases, version, snapshot) ==
  /\ evals[r].status = "none" /\ (r > 1 => evals[r - 1].status # "none")
  /\ evals' = [evals EXCEPT ![r] =
       [status |-> "running", cases |-> cases,
        version |-> IF version = 0 THEN snapshot ELSE version, snapshot |-> snapshot,
        results |-> NoResults]]
  /\ evalJob' \in {evalJob, [evalJob EXCEPT ![r] = "queued"]}
  /\ failing' \in {failing, failing \union {r}}
  /\ UNCHANGED <<dataset, former>>

\* The cases and the version come with the request, and a snapshot is named: it must be
\* that version's, with these cases.
PostWithSnapshot(r, cases, version, snapshot) ==
  /\ version \in {0, snapshot} /\ snapshots[snapshot] = cases
  /\ CreateEval(r, cases, version, snapshot)
  /\ UNCHANGED <<snapshots, passed>>

\* _matching_dataset_snapshot finds or makes a snapshot with these cases, or goes without.
Matching(cases, version) ==
  \/ snapshots[version] = cases
  \/ /\ snapshots[version] = NoSuite
     /\ version = dataset.version /\ cases = dataset.cases

AskedVersion(version) == IF version = 0 THEN dataset.version ELSE version

PostWithoutSnapshot(r, cases, version) ==
  LET asked == AskedVersion(version) IN
  /\ IF Matching(cases, asked)
       THEN /\ CreateEval(r, cases, version, asked)
            /\ snapshots' = IF snapshots[asked] = NoSuite THEN [snapshots EXCEPT ![asked] = cases]
                            ELSE snapshots
       ELSE CreateEval(r, cases, version, 0) /\ UNCHANGED snapshots
  /\ UNCHANGED passed

\* POST /datasets/{id}/run, by hand or by the script.
RunDataset(r) ==
  /\ Snapshotted(dataset.version, dataset.cases)
  /\ CreateEval(r, dataset.cases, dataset.version, dataset.version)
  /\ UNCHANGED passed

FailRun(r) == evals' = [evals EXCEPT ![r].status = "failed"]

\* The route fails the run, whatever it is by now.
EnqueueFailed(r) ==
  /\ r \in failing /\ failing' = failing \ {r}
  /\ FailRun(r)
  /\ UNCHANGED <<dataset, snapshots, evalJob, former, passed>>

-----------------------------------------------------------------------------
(* The job.                                                                *)

StartEval(r) ==
  /\ evalJob[r] = "queued"
  /\ evalJob' = [evalJob EXCEPT ![r] = "working"]
  /\ evals' = [evals EXCEPT ![r].results = NoResults]
  /\ UNCHANGED <<dataset, snapshots, failing, former, passed>>

\* Cases are run in order, each committed; whatever fails in a case is its outcome.
RunCase(r, outcome) ==
  /\ evalJob[r] = "working"
  /\ \E id \in CaseId :
       /\ evals[r].results[id] = "none"
       /\ \A earlier \in 1..(id - 1) : evals[r].results[earlier] # "none"
       /\ evals' = [evals EXCEPT ![r].results[id] = outcome]
  /\ UNCHANGED <<dataset, snapshots, failing, evalJob, former, passed>>

EndEvalJob(r) ==
  /\ evalJob[r] = "working"
  /\ evalJob' = [evalJob EXCEPT ![r] = "none"]
  /\ UNCHANGED <<dataset, snapshots, failing, former, passed>>

FinishEval(r) ==
  /\ \A id \in CaseId : evals[r].results[id] # "none"
  /\ evals' = [evals EXCEPT ![r].status = "completed"]
  /\ EndEvalJob(r)

\* An exception outside the cases fails the run; a killed worker leaves it "running".
EvalJobFails(r) == FailRun(r) /\ EndEvalJob(r)
EvalJobDies(r) == EndEvalJob(r) /\ UNCHANGED evals

\* _backfill_run binds a run without a snapshot to the one of its version.
BackfillRun(r) ==
  LET version == AskedVersion(evals[r].version) IN
  /\ evals[r].status # "none"
  /\ evals[r].snapshot = 0
  /\ Snapshotted(version, evals[r].cases)
  /\ evals' = [evals EXCEPT ![r].snapshot = version, ![r].version = version]
  /\ UNCHANGED <<dataset, failing, evalJob, former, passed>>

-----------------------------------------------------------------------------
(* The gate.                                                               *)

\* The primary metric: a run has metrics once it is completed.
Score(r) == Cardinality({id \in CaseId : evals[r].results[id] \in Verified})

\* _comparison_warnings
Compatible(b, r) ==
  /\ evals[b].status = "completed" /\ evals[r].status = "completed"
  /\ evals[b].version = evals[r].version
  /\ \E id \in CaseId : evals[b].results[id] # "none" /\ evals[r].results[id] # "none"

\* _comparison_case_status: a case without a result on one side is no regression.
RegressedCase(before, now) == before \in Passed /\ now \notin Passed \union {"none"}

\* _comparison_cases
Regressed(b, r) ==
  {id \in CaseId : RegressedCase(evals[b].results[id], evals[r].results[id])}

\* Faulty variant: a missing snapshot is no objection.
SameSnapshotIfAny(b, r) ==
  \/ evals[b].snapshot = 0 \/ evals[r].snapshot = 0
  \/ evals[b].snapshot = evals[r].snapshot

\* _dataset_snapshot_check_passed
SameSnapshot(b, r) == evals[b].snapshot # 0 /\ evals[b].snapshot = evals[r].snapshot

\* _gate_checks and _gate_status: every check is true; one without a value is
\* inconclusive.
GatePasses(b, r) ==
  /\ SameSnapshot(b, r) /\ Compatible(b, r)
  /\ Score(r) >= Score(b) /\ Regressed(b, r) = {}

\* evaluate_gate
GateOpens(r) ==
  /\ dataset.baseline # 0
  /\ GatePasses(dataset.baseline, r)

\* The script has created the run and polled until it ended; it asks the gate once and ends.
CiAsks(r) ==
  /\ evals[r].status \in {"completed", "failed"} /\ GateOpens(r)
  /\ passed' = passed \union {<<dataset.baseline, r>>}
  /\ UNCHANGED <<dataset, snapshots, evals, failing, evalJob, former>>

DatasetNext ==
  \/ \E object \in {Versioned(dataset), former}, cases \in Suite, version \in Edition,
        baseline \in 0..MaxEval : UpdateDataset(object, cases, version, baseline)

EvalNext(r) ==
  \/ \E cases \in Suite, version \in 0..MaxEdition :
       \/ \E snapshot \in Edition : PostWithSnapshot(r, cases, version, snapshot)
       \/ PostWithoutSnapshot(r, cases, version)
  \/ RunDataset(r) \/ EnqueueFailed(r) \/ BackfillRun(r)

EvalJobNext(r) ==
  \/ StartEval(r) \/ FinishEval(r) \/ EvalJobFails(r) \/ EvalJobDies(r)
  \/ \E outcome \in Outcome : RunCase(r, outcome)

BenchmarkNext ==
  \/ DatasetNext
  \/ \E r \in EvalRun : EvalNext(r) \/ EvalJobNext(r) \/ CiAsks(r)

BenchmarkSpec == BenchmarkInit /\ [][BenchmarkNext]_benchmarkVars

-----------------------------------------------------------------------------
(* Properties.                                                             *)

\* Both runs have results for the same cases, and none that passed fails now.
Fair(b, r) ==
  /\ evals[b].cases = evals[r].cases
  /\ \A id \in CaseId : /\ "none" \notin {evals[b].results[id], evals[r].results[id]}
                        /\ evals[b].results[id] \in Passed => evals[r].results[id] \in Passed
  /\ Score(r) >= Score(b)

\* A gate that opens has compared complete results of the same cases, whatever updates of
\* the dataset, requests with cases of their own, backfills, lost jobs and late failures
\* happened before; and what CI passed stays justified (evaluate_gate, snapshots).
GateComparesLikeWithLike ==
  /\ \A r \in EvalRun : GateOpens(r) => Fair(dataset.baseline, r)
  /\ \A pair \in passed : Fair(pair[1], pair[2])
=============================================================================
