--------------------------- MODULE EvidenceProofs ---------------------------
(***************************************************************************)
(* Proofs about the evidence for a release: the regression gate, for any   *)
(* number of runs, lists of cases, cases and versions of the dataset; and  *)
(* the qualification scripts, for any number of runs and any options.      *)
(***************************************************************************)
EXTENDS Benchmark, Qualification, TLAPS

-----------------------------------------------------------------------------
(* The regression gate.                                                    *)

Row == [status : {"none", "running", "completed", "failed"}, cases : Suite \union {NoSuite},
        version : 0..MaxEdition, snapshot : 0..MaxEdition,
        results : [CaseId -> Outcome \union {"none"}]]

RunTypes ==
  /\ dataset \in [version : Edition, cases : Suite, baseline : 0..MaxEval]
  /\ former \in [version : Edition, cases : Suite]
  /\ snapshots \in [Edition -> Suite \union {NoSuite}]
  /\ evals \in [EvalRun -> Row]
  /\ evalJob \in [EvalRun -> {"none", "queued", "working"}]
  /\ passed \subseteq EvalRun \X EvalRun

\* A run that names a snapshot has its cases; one that does not exist has neither.
Bound(r) ==
  /\ evals[r].status = "none" =>
       evals[r].snapshot = 0 /\ evalJob[r] = "none" /\ r \notin failing
  /\ evals[r].status # "none" => evals[r].cases \in Suite
  /\ evals[r].snapshot # 0 => snapshots[evals[r].snapshot] = evals[r].cases

\* A completed run is over: no job works on it, and every case has its result.
Complete(r) ==
  evals[r].status = "completed" =>
    /\ evalJob[r] = "none" /\ \A id \in CaseId : evals[r].results[id] # "none"

\* A run nothing works on any more.
Over(r) == evals[r].status # "none" /\ evalJob[r] = "none"

PassedIsFair ==
  \A pair \in passed : Over(pair[1]) /\ Over(pair[2]) /\ Fair(pair[1], pair[2])

GateInv ==
  RunTypes /\ (\A r \in EvalRun : Bound(r) /\ Complete(r)) /\ PassedIsFair

LEMMA SomeEdition == 1 \in Edition /\ 0 \in 0..MaxEdition /\ 0 \in 0..MaxEval /\ 0 \notin Edition
  BY BenchmarkAssumption DEF Edition

LEMMA BenchmarkInitInv == BenchmarkInit => GateInv
  <1> SUFFICES ASSUME BenchmarkInit PROVE GateInv
    OBVIOUS
  <1>1. Unborn \in Row /\ Unborn.status = "none" /\ Unborn.snapshot = 0
    BY SomeEdition DEF Unborn, Row, NoResults
  <1>2. dataset \in [version : Edition, cases : Suite, baseline : 0..MaxEval]
    BY SomeEdition DEF BenchmarkInit
  <1>3. former \in [version : Edition, cases : Suite]
    BY <1>2 DEF BenchmarkInit, Versioned
  <1>4. RunTypes
    BY <1>1, <1>2, <1>3 DEF BenchmarkInit, RunTypes
  <1>5. \A r \in EvalRun : Bound(r) /\ Complete(r)
    BY <1>1 DEF BenchmarkInit, Bound, Complete
  <1>6. QED
    BY <1>4, <1>5 DEF BenchmarkInit, GateInv, PassedIsFair

\* The gate opens for a fair comparison only: one snapshot means one list of cases, and
\* completed runs have all their results.
LEMMA OpenGateIsFair ==
  ASSUME GateInv, NEW r \in EvalRun, GateOpens(r)
  PROVE  /\ dataset.baseline \in EvalRun
         /\ Fair(dataset.baseline, r) /\ Over(dataset.baseline) /\ Over(r)
  <1> DEFINE b == dataset.baseline
  <1>1. b \in EvalRun
    <2>1. b \in 0..MaxEval /\ b # 0
      BY DEF GateInv, RunTypes, GateOpens
    <2>2. QED
      BY <2>1, BenchmarkAssumption DEF EvalRun
  <1>2. SameSnapshot(b, r) /\ Compatible(b, r) /\ Score(r) >= Score(b) /\ Regressed(b, r) = {}
    BY DEF GateOpens, GatePasses
  <1>3. evals[b].cases = evals[r].cases
    BY <1>1, <1>2 DEF SameSnapshot, GateInv, Bound
  <1>4. \A id \in CaseId : evals[b].results[id] # "none" /\ evals[r].results[id] # "none"
    BY <1>1, <1>2 DEF Compatible, GateInv, Complete
  <1>5. \A id \in CaseId : evals[b].results[id] \in Passed => evals[r].results[id] \in Passed
    BY <1>2, <1>4 DEF Regressed, RegressedCase
  <1>6. Over(b) /\ Over(r)
    BY <1>1, <1>2 DEF Compatible, GateInv, Complete, Over
  <1>7. QED
    BY <1>1, <1>2, <1>3, <1>4, <1>5, <1>6 DEF Fair

\* A run that is over keeps its cases and results, and stays over.
Stays(r) ==
  Over(r) => /\ Over(r)' /\ evals'[r].cases = evals[r].cases
             /\ evals'[r].results = evals[r].results

LEMMA ScoreStays ==
  ASSUME NEW r \in EvalRun, evals'[r].results = evals[r].results
  PROVE  Score(r)' = Score(r)
  <1>1. {id \in CaseId : evals'[r].results[id] \in Verified}
          = {id \in CaseId : evals[r].results[id] \in Verified}
    OBVIOUS
  <1>2. QED
    BY <1>1 DEF Score

LEMMA FairStays ==
  ASSUME NEW b \in EvalRun, NEW r \in EvalRun, Fair(b, r), Over(b), Over(r), Stays(b), Stays(r)
  PROVE  Over(b)' /\ Over(r)' /\ Fair(b, r)'
  <1>1. Score(b)' = Score(b) /\ Score(r)' = Score(r)
    BY ScoreStays DEF Stays
  <1>2. QED
    BY <1>1 DEF Stays, Fair

LEMMA PassedStays ==
  ASSUME GateInv, passed' = passed, \A r \in EvalRun : Stays(r)
  PROVE  PassedIsFair'
  <1>1. ASSUME NEW pair \in passed
        PROVE  Over(pair[1])' /\ Over(pair[2])' /\ Fair(pair[1], pair[2])'
    <2>1. pair[1] \in EvalRun /\ pair[2] \in EvalRun
      BY DEF GateInv, RunTypes
    <2>2. QED
      BY <2>1, FairStays DEF GateInv, PassedIsFair
  <1>2. QED
    BY <1>1 DEF PassedIsFair

\* Snapshots are added and never changed.
SnapshotsStay ==
  /\ snapshots' \in [Edition -> Suite \union {NoSuite}]
  /\ \A v \in Edition : snapshots[v] # NoSuite => snapshots'[v] = snapshots[v]

LEMMA SnapshottedStays ==
  ASSUME RunTypes, NEW v \in Edition, NEW cases \in Suite, Snapshotted(v, cases)
  PROVE  SnapshotsStay /\ snapshots'[v] = cases
  BY DEF RunTypes, Snapshotted, SnapshotsStay

\* The runs that a step does not touch.
LEMMA UntouchedRun ==
  ASSUME GateInv, SnapshotsStay, NEW r \in EvalRun,
         evals'[r] = evals[r], evalJob'[r] = evalJob[r], r \in failing' => r \in failing
  PROVE  Bound(r)' /\ Complete(r)' /\ Stays(r)
  <1>1. evals[r].snapshot # 0 => evals[r].snapshot \in Edition
    BY BenchmarkAssumption DEF GateInv, RunTypes, Row, Edition
  <1>2. evals[r].snapshot # 0 => evals[r].cases \in Suite
    BY DEF GateInv, Bound
  <1>3. Bound(r)'
    BY <1>1, <1>2, BenchmarkAssumption DEF GateInv, Bound, SnapshotsStay
  <1>4. QED
    BY <1>3 DEF GateInv, Complete, Stays, Over

\* A step on one run that leaves its cases alone, and its results once it is over.
LEMMA OneRun ==
  ASSUME GateInv, RunTypes', SnapshotsStay, passed' = passed, NEW r \in EvalRun,
         \A k \in EvalRun : k # r => /\ evals'[k] = evals[k] /\ evalJob'[k] = evalJob[k]
                                     /\ k \in failing' => k \in failing,
         Bound(r)', Complete(r)', Stays(r)
  PROVE  GateInv'
  <1>1. \A k \in EvalRun : Bound(k)' /\ Complete(k)' /\ Stays(k)
    BY UntouchedRun
  <1>2. PassedIsFair'
    BY <1>1, PassedStays
  <1>3. QED
    BY <1>1, <1>2 DEF GateInv

LEMMA DatasetKeepsInv ==
  ASSUME GateInv, NEW object \in {Versioned(dataset), former}, NEW cases \in Suite,
         NEW version \in Edition, NEW baseline \in 0..MaxEval,
         UpdateDataset(object, cases, version, baseline)
  PROVE  GateInv'
  <1>1. /\ Snapshotted(version, cases) /\ evals' = evals /\ evalJob' = evalJob
        /\ passed' = passed /\ failing' = failing /\ former' = Versioned(dataset)
        /\ dataset' = [dataset EXCEPT
             !.version = Written(object.version, version, @),
             !.cases = Written(object.cases, cases, @), !.baseline = baseline]
    BY DEF UpdateDataset
  <1>2. SnapshotsStay
    BY <1>1, SnapshottedStays DEF GateInv
  <1>3. /\ Written(object.version, version, dataset.version) \in Edition
        /\ Written(object.cases, cases, dataset.cases) \in Suite
    BY DEF Written, GateInv, RunTypes
  <1>4. dataset' \in [version : Edition, cases : Suite, baseline : 0..MaxEval]
    BY <1>1, <1>3 DEF GateInv, RunTypes
  <1>5. former' \in [version : Edition, cases : Suite]
    BY <1>1 DEF GateInv, RunTypes, Versioned
  <1>6. RunTypes'
    BY <1>1, <1>2, <1>4, <1>5 DEF GateInv, RunTypes, SnapshotsStay
  <1>7. \A k \in EvalRun : Bound(k)' /\ Complete(k)' /\ Stays(k)
    BY <1>1, <1>2, UntouchedRun
  <1>8. QED
    BY <1>1, <1>6, <1>7, PassedStays DEF GateInv

\* A new run is bound to a snapshot with its cases, or to none.
LEMMA CreationKeepsInv ==
  ASSUME GateInv, SnapshotsStay, passed' = passed, NEW r \in EvalRun, NEW cases \in Suite,
         NEW version \in 0..MaxEdition, NEW snapshot \in 0..MaxEdition,
         CreateEval(r, cases, version, snapshot),
         snapshot # 0 => snapshots'[snapshot] = cases
  PROVE  GateInv'
  <1> DEFINE row == [status |-> "running", cases |-> cases,
                     version |-> IF version = 0 THEN snapshot ELSE version,
                     snapshot |-> snapshot, results |-> NoResults]
  <1>1. /\ evals[r].status = "none" /\ evals' = [evals EXCEPT ![r] = row]
        /\ evalJob' \in {evalJob, [evalJob EXCEPT ![r] = "queued"]}
        /\ dataset' = dataset /\ former' = former /\ failing' \in {failing, failing \union {r}}
    BY DEF CreateEval
  <1>2. row \in Row
    BY DEF Row, NoResults
  <1>3. row.status = "running" /\ row.cases = cases /\ row.snapshot = snapshot
    OBVIOUS
  <1> HIDE DEF row
  <1>4. evalJob' \in [EvalRun -> {"none", "queued", "working"}]
    BY <1>1 DEF GateInv, RunTypes
  <1>5. RunTypes'
    BY <1>1, <1>2, <1>4 DEF GateInv, RunTypes, SnapshotsStay
  <1>6. evals'[r] = row /\ \A k \in EvalRun : k # r => evals'[k] = evals[k]
    BY <1>1, <1>2 DEF GateInv, RunTypes
  <1>7. \A k \in EvalRun : k # r => /\ evalJob'[k] = evalJob[k]
                                    /\ k \in failing' => k \in failing
    BY <1>1 DEF GateInv, RunTypes
  <1>8. Bound(r)' /\ Complete(r)' /\ Stays(r)
    BY <1>1, <1>3, <1>6 DEF Bound, Complete, Stays, Over
  <1>9. QED
    BY <1>5, <1>6, <1>7, <1>8, OneRun

LEMMA RequestsKeepInv ==
  ASSUME GateInv, NEW r \in EvalRun, NEW cases \in Suite, NEW version \in 0..MaxEdition,
         \/ \E snapshot \in Edition : PostWithSnapshot(r, cases, version, snapshot)
         \/ PostWithoutSnapshot(r, cases, version)
         \/ RunDataset(r)
  PROVE  GateInv'
  <1>1. Edition \subseteq 0..MaxEdition /\ RunTypes /\ dataset.version \in Edition
    BY BenchmarkAssumption DEF Edition, GateInv, RunTypes
  <1>2. ASSUME NEW snapshot \in Edition, PostWithSnapshot(r, cases, version, snapshot)
        PROVE  GateInv'
    <2>1. /\ CreateEval(r, cases, version, snapshot) /\ snapshots' = snapshots
          /\ snapshots[snapshot] = cases /\ passed' = passed
      BY <1>2 DEF PostWithSnapshot
    <2>2. SnapshotsStay
      BY <1>1, <2>1 DEF RunTypes, SnapshotsStay
    <2>3. QED
      BY <1>1, <2>1, <2>2, CreationKeepsInv
  <1>3. CASE PostWithoutSnapshot(r, cases, version)
    <2> DEFINE asked == AskedVersion(version)
    <2>1. asked \in Edition
      BY <1>1, BenchmarkAssumption DEF AskedVersion, Edition
    <2>2. passed' = passed
      BY <1>3 DEF PostWithoutSnapshot
    <2>3. CASE Matching(cases, asked)
      <3>1. CreateEval(r, cases, version, asked)
        BY <1>3, <2>3 DEF PostWithoutSnapshot
      <3>2. snapshots' = IF snapshots[asked] = NoSuite THEN [snapshots EXCEPT ![asked] = cases]
                         ELSE snapshots
        BY <1>3, <2>3 DEF PostWithoutSnapshot
      <3>3. SnapshotsStay /\ snapshots'[asked] = cases
        BY <1>1, <2>1, <2>3, <3>2 DEF RunTypes, SnapshotsStay, Matching
      <3>4. QED
        BY <1>1, <2>1, <2>2, <3>1, <3>3, CreationKeepsInv
    <2>4. CASE ~Matching(cases, asked)
      <3>1. CreateEval(r, cases, version, 0) /\ snapshots' = snapshots
        BY <1>3, <2>4 DEF PostWithoutSnapshot
      <3>2. SnapshotsStay
        BY <1>1, <3>1 DEF RunTypes, SnapshotsStay
      <3>3. QED
        BY SomeEdition, <2>2, <3>1, <3>2, CreationKeepsInv
    <2>5. QED
      BY <2>3, <2>4
  <1>4. CASE RunDataset(r)
    <2>1. /\ Snapshotted(dataset.version, dataset.cases) /\ passed' = passed
          /\ CreateEval(r, dataset.cases, dataset.version, dataset.version)
          /\ dataset.cases \in Suite
      BY <1>1, <1>4 DEF RunDataset, RunTypes
    <2>2. SnapshotsStay /\ snapshots'[dataset.version] = dataset.cases
      BY <1>1, <2>1, SnapshottedStays
    <2>3. QED
      BY <1>1, <2>1, <2>2, CreationKeepsInv
  <1>5. QED
    BY <1>2, <1>3, <1>4

\* Failing a run leaves its cases and results alone.
LEMMA FailureKeepsInv ==
  ASSUME GateInv, NEW r \in EvalRun, FailRun(r), evals[r].status # "none",
         snapshots' = snapshots, passed' = passed, dataset' = dataset, former' = former,
         failing' \subseteq failing,
         evalJob' \in {evalJob, [evalJob EXCEPT ![r] = "none"]}
  PROVE  GateInv'
  <1>1. evals' = [evals EXCEPT ![r].status = "failed"]
    BY DEF FailRun
  <1>2. /\ evals' \in [EvalRun -> Row]
        /\ \A k \in EvalRun : k # r => evals'[k] = evals[k]
        /\ evals'[r].status = "failed" /\ evals'[r].cases = evals[r].cases
        /\ evals'[r].snapshot = evals[r].snapshot /\ evals'[r].results = evals[r].results
    <2> DEFINE new == [evals[r] EXCEPT !.status = "failed"]
    <2>1. evals \in [EvalRun -> Row] /\ evals' = [evals EXCEPT ![r] = new]
      BY <1>1 DEF GateInv, RunTypes
    <2>2. /\ new \in Row /\ new.status = "failed" /\ new.cases = evals[r].cases
          /\ new.snapshot = evals[r].snapshot /\ new.results = evals[r].results
      BY <2>1 DEF Row
    <2> HIDE DEF new
    <2>3. QED
      BY <2>1, <2>2
  <1>3. /\ evalJob' \in [EvalRun -> {"none", "queued", "working"}]
        /\ \A k \in EvalRun : k # r => evalJob'[k] = evalJob[k]
        /\ evalJob[r] = "none" => evalJob'[r] = "none"
    BY DEF GateInv, RunTypes
  <1>4. RunTypes' /\ SnapshotsStay
    BY <1>2, <1>3 DEF GateInv, RunTypes, SnapshotsStay
  <1>5. Bound(r)' /\ Complete(r)' /\ Stays(r)
    BY <1>2, <1>3 DEF GateInv, Bound, Complete, Stays, Over
  <1>6. QED
    BY <1>2, <1>3, <1>4, <1>5, OneRun

LEMMA BackfillKeepsInv ==
  ASSUME GateInv, NEW r \in EvalRun, BackfillRun(r)
  PROVE  GateInv'
  <1> DEFINE version == AskedVersion(evals[r].version)
  <1>1. /\ evals[r].status # "none" /\ Snapshotted(version, evals[r].cases)
        /\ evals' = [evals EXCEPT ![r].snapshot = version, ![r].version = version]
        /\ dataset' = dataset /\ former' = former /\ evalJob' = evalJob /\ passed' = passed
        /\ failing' = failing
    BY DEF BackfillRun
  <1>2. version \in Edition /\ evals[r].cases \in Suite
    BY <1>1, BenchmarkAssumption DEF GateInv, RunTypes, Row, Bound, AskedVersion, Edition
  <1> HIDE DEF version
  <1>3. SnapshotsStay /\ snapshots'[version] = evals[r].cases
    BY <1>1, <1>2, SnapshottedStays DEF GateInv
  <1>4. version \in 0..MaxEdition
    BY <1>2, BenchmarkAssumption DEF Edition
  <1>5. /\ evals' \in [EvalRun -> Row]
        /\ \A k \in EvalRun : k # r => evals'[k] = evals[k]
        /\ evals'[r].status = evals[r].status /\ evals'[r].cases = evals[r].cases
        /\ evals'[r].snapshot = version /\ evals'[r].results = evals[r].results
    <2>1. /\ evals[r] \in Row
          /\ [evals[r] EXCEPT !.snapshot = version, !.version = version] \in Row
      <3>1. evals[r] \in Row
        BY DEF GateInv, RunTypes
      <3>2. ASSUME NEW v \in 0..MaxEdition
            PROVE  [evals[r] EXCEPT !.snapshot = v, !.version = v] \in Row
        BY <3>1 DEF Row
      <3>3. QED
        BY <1>4, <3>1, <3>2
    <2>2. evals' = [evals EXCEPT ![r] =
                      [evals[r] EXCEPT !.snapshot = version, !.version = version]]
      BY <1>1 DEF GateInv, RunTypes
    <2>3. /\ evals' \in [EvalRun -> Row]
          /\ \A k \in EvalRun : k # r => evals'[k] = evals[k]
          /\ evals'[r] = [evals[r] EXCEPT !.snapshot = version, !.version = version]
      BY <2>1, <2>2 DEF GateInv, RunTypes
    <2>4. QED
      BY <2>1, <2>3 DEF Row
  <1>6. RunTypes'
    BY <1>1, <1>3, <1>5 DEF GateInv, RunTypes, SnapshotsStay
  <1>7. Bound(r)' /\ Complete(r)' /\ Stays(r)
    BY <1>1, <1>3, <1>5 DEF GateInv, Bound, Complete, Stays, Over
  <1>8. QED
    BY <1>1, <1>3, <1>5, <1>6, <1>7, OneRun

\* The job works on a run that is not over; when it goes, it leaves the run as it found it,
\* failed, or completed with all its results.
LEMMA ResultsKeepInv ==
  ASSUME GateInv, NEW r \in EvalRun, StartEval(r) \/ \E outcome \in Outcome : RunCase(r, outcome)
  PROVE  GateInv'
  <1> DEFINE row == evals[r]
  <1>1. /\ row \in Row /\ row.status \notin {"none", "completed"} /\ evalJob[r] # "none"
        /\ snapshots' = snapshots /\ dataset' = dataset /\ former' = former
        /\ failing' = failing /\ passed' = passed
    BY DEF StartEval, RunCase, GateInv, RunTypes, Bound, Complete
  <1>2. PICK results \in [CaseId -> Outcome \union {"none"}] :
          evals' = [evals EXCEPT ![r].results = results]
    <2>1. CASE StartEval(r)
      <3>1. NoResults \in [CaseId -> Outcome \union {"none"}]
        BY DEF NoResults
      <3>2. QED
        BY <2>1, <3>1 DEF StartEval
    <2>2. ASSUME NEW outcome \in Outcome, RunCase(r, outcome)
          PROVE  \E results \in [CaseId -> Outcome \union {"none"}] :
                   evals' = [evals EXCEPT ![r].results = results]
      <3>1. PICK id \in CaseId : evals' = [evals EXCEPT ![r].results[id] = outcome]
        BY <2>2 DEF RunCase
      <3>2. [row.results EXCEPT ![id] = outcome] \in [CaseId -> Outcome \union {"none"}]
        BY <1>1 DEF Row
      <3>3. evals' = [evals EXCEPT ![r].results = [row.results EXCEPT ![id] = outcome]]
        BY <3>1 DEF GateInv, RunTypes
      <3>4. QED
        BY <3>2, <3>3
    <2>3. QED
      BY <2>1, <2>2
  <1>3. evals' = [evals EXCEPT ![r] = [row EXCEPT !.results = results]]
    BY <1>2 DEF GateInv, RunTypes
  <1>4. [row EXCEPT !.results = results] \in Row
    BY <1>1 DEF Row
  <1>5. /\ evals' \in [EvalRun -> Row]
        /\ \A k \in EvalRun : k # r => evals'[k] = evals[k]
        /\ evals'[r] = [row EXCEPT !.results = results]
    BY <1>3, <1>4 DEF GateInv, RunTypes
  <1>6. /\ evals'[r].status = row.status /\ evals'[r].cases = row.cases
        /\ evals'[r].snapshot = row.snapshot
    BY <1>1, <1>5 DEF Row
  <1>7. /\ evalJob' \in [EvalRun -> {"none", "queued", "working"}]
        /\ \A k \in EvalRun : k # r => evalJob'[k] = evalJob[k]
        /\ evalJob'[r] # "none"
    BY <1>1 DEF StartEval, RunCase, GateInv, RunTypes
  <1>8. RunTypes' /\ SnapshotsStay
    BY <1>1, <1>5, <1>7 DEF GateInv, RunTypes, SnapshotsStay
  <1>9. Bound(r)' /\ Complete(r)' /\ Stays(r)
    BY <1>1, <1>6, <1>7 DEF GateInv, Bound, Complete, Stays, Over
  <1>10. QED
    BY <1>1, <1>5, <1>7, <1>8, <1>9, OneRun

LEMMA JobKeepsInv ==
  ASSUME GateInv, NEW r \in EvalRun, FinishEval(r) \/ EvalJobFails(r) \/ EvalJobDies(r)
  PROVE  GateInv'
  <1>1. /\ evalJob[r] = "working" /\ evals[r].status # "none"
        /\ evalJob' = [evalJob EXCEPT ![r] = "none"]
        /\ snapshots' = snapshots /\ dataset' = dataset /\ former' = former
        /\ failing' = failing /\ passed' = passed
    BY DEF FinishEval, EvalJobFails, EvalJobDies, EndEvalJob, GateInv, Bound
  <1>2. CASE EvalJobFails(r)
    BY <1>1, <1>2, FailureKeepsInv DEF EvalJobFails
  <1>3. ASSUME NEW status \in {evals[r].status, "completed"},
               evals' = [evals EXCEPT ![r].status = status],
               status = "completed" => \A id \in CaseId : evals[r].results[id] # "none"
        PROVE  GateInv'
    <2>1. evals[r] \in Row /\ status \in {"none", "running", "completed", "failed"}
      BY DEF GateInv, RunTypes, Row
    <2>2. [evals[r] EXCEPT !.status = status] \in Row
      BY <2>1 DEF Row
    <2>3. /\ evals' \in [EvalRun -> Row]
          /\ \A k \in EvalRun : k # r => evals'[k] = evals[k]
          /\ evals'[r] = [evals[r] EXCEPT !.status = status]
      BY <1>3, <2>2 DEF GateInv, RunTypes
    <2>4. /\ evals'[r].status = status /\ evals'[r].cases = evals[r].cases
          /\ evals'[r].snapshot = evals[r].snapshot /\ evals'[r].results = evals[r].results
      BY <2>1, <2>3 DEF Row
    <2>5. /\ evalJob' \in [EvalRun -> {"none", "queued", "working"}] /\ evalJob'[r] = "none"
          /\ \A k \in EvalRun : k # r => evalJob'[k] = evalJob[k]
      BY <1>1 DEF GateInv, RunTypes
    <2>6. RunTypes' /\ SnapshotsStay
      BY <1>1, <2>3, <2>5 DEF GateInv, RunTypes, SnapshotsStay
    <2>7. Bound(r)' /\ Complete(r)' /\ Stays(r)
      BY <1>1, <1>3, <2>4, <2>5 DEF GateInv, Bound, Complete, Stays, Over
    <2>8. QED
      BY <1>1, <2>3, <2>5, <2>6, <2>7, OneRun
  <1>4. CASE FinishEval(r)
    BY <1>3, <1>4 DEF FinishEval
  <1>5. CASE EvalJobDies(r)
    <2>1. evals' = [evals EXCEPT ![r].status = evals[r].status]
      BY <1>5 DEF EvalJobDies, GateInv, RunTypes, Row
    <2>2. evals[r].status = "completed" => \A id \in CaseId : evals[r].results[id] # "none"
      BY DEF GateInv, Complete
    <2>3. QED
      BY <1>3, <2>1, <2>2
  <1>6. QED
    BY <1>2, <1>4, <1>5

\* What CI passes is what the gate has compared.
LEMMA CiKeepsInv ==
  ASSUME GateInv, NEW r \in EvalRun, CiAsks(r)
  PROVE  GateInv'
  <1>1. /\ dataset' = dataset /\ snapshots' = snapshots /\ evals' = evals
        /\ failing' = failing /\ evalJob' = evalJob /\ former' = former
        /\ GateOpens(r) /\ passed' = passed \union {<<dataset.baseline, r>>}
    BY DEF CiAsks
  <1>2. /\ dataset.baseline \in EvalRun
        /\ Fair(dataset.baseline, r) /\ Over(dataset.baseline) /\ Over(r)
    BY <1>1, OpenGateIsFair
  <1>3. RunTypes'
    BY <1>1, <1>2 DEF GateInv, RunTypes
  <1>4. \A k \in EvalRun : Bound(k)' /\ Complete(k)' /\ Stays(k)
    BY <1>1 DEF GateInv, Bound, Complete, Stays, Over
  <1>5. ASSUME NEW pair \in passed'
        PROVE  Over(pair[1])' /\ Over(pair[2])' /\ Fair(pair[1], pair[2])'
    <2>1. /\ pair[1] \in EvalRun /\ pair[2] \in EvalRun
          /\ Over(pair[1]) /\ Over(pair[2]) /\ Fair(pair[1], pair[2])
      BY <1>1, <1>2 DEF GateInv, RunTypes, PassedIsFair
    <2>2. QED
      BY <1>4, <2>1, FairStays
  <1>6. PassedIsFair'
    BY <1>5 DEF PassedIsFair
  <1>7. QED
    BY <1>3, <1>4, <1>6 DEF GateInv

LEMMA BenchmarkStep == GateInv /\ [BenchmarkNext]_benchmarkVars => GateInv'
  <1> SUFFICES ASSUME GateInv, [BenchmarkNext]_benchmarkVars PROVE GateInv'
    OBVIOUS
  <1>1. CASE DatasetNext
    BY <1>1, DatasetKeepsInv DEF DatasetNext
  <1>2. ASSUME NEW r \in EvalRun, EvalNext(r) PROVE GateInv'
    <2>1. CASE EnqueueFailed(r)
      <3>1. /\ r \in failing /\ failing' = failing \ {r} /\ FailRun(r)
            /\ dataset' = dataset /\ snapshots' = snapshots /\ evalJob' = evalJob
            /\ former' = former /\ passed' = passed
        BY <2>1 DEF EnqueueFailed
      <3>2. evals[r].status # "none"
        BY <3>1 DEF GateInv, Bound
      <3>3. QED
        BY <3>1, <3>2, FailureKeepsInv
    <2>2. CASE RunDataset(r)
      <3>1. dataset.cases \in Suite
        BY DEF GateInv, RunTypes
      <3>2. QED
        BY <2>2, <3>1, SomeEdition, RequestsKeepInv
    <2>3. QED
      BY <1>2, <2>1, <2>2, RequestsKeepInv, BackfillKeepsInv DEF EvalNext
  <1>3. ASSUME NEW r \in EvalRun, EvalJobNext(r) PROVE GateInv'
    BY <1>3, ResultsKeepInv, JobKeepsInv DEF EvalJobNext
  <1>4. CASE UNCHANGED benchmarkVars
    <2>1. SnapshotsStay /\ RunTypes'
      BY <1>4 DEF benchmarkVars, GateInv, RunTypes, SnapshotsStay
    <2>2. \A k \in EvalRun : Bound(k)' /\ Complete(k)' /\ Stays(k)
      BY <1>4, <2>1, UntouchedRun DEF benchmarkVars
    <2>3. QED
      BY <1>4, <2>1, <2>2, PassedStays DEF benchmarkVars, GateInv
  <1>5. QED
    BY <1>1, <1>2, <1>3, <1>4, CiKeepsInv DEF BenchmarkNext

LEMMA GateInvHolds == BenchmarkSpec => []GateInv
  BY BenchmarkInitInv, BenchmarkStep, PTL DEF BenchmarkSpec

\* A gate that opens has compared complete results of the same cases, and what CI passed
\* stays justified (snapshots, evaluate_gate and the job of a run).
THEOREM GateIsFair == BenchmarkSpec => []GateComparesLikeWithLike
  <1>1. ASSUME GateInv PROVE GateComparesLikeWithLike
    <2>1. \A r \in EvalRun : GateOpens(r) => Fair(dataset.baseline, r)
      BY <1>1, OpenGateIsFair
    <2>2. QED
      BY <1>1, <2>1 DEF GateInv, PassedIsFair, GateComparesLikeWithLike
  <1>2. QED
    BY <1>1, GateInvHolds, PTL

-----------------------------------------------------------------------------
(* Qualification.                                                          *)

DrillStep == {"off", "gates", "amid", "manifest", "sign", "hold"}
Drill == [step : DrillStep, skip : Skip \union {{}}, rehearsal : BOOLEAN, sign : BOOLEAN,
          gates : [Gate -> Status], next : 1..11, did : SUBSET Gate, left : SUBSET Gate]
Reported == [run : Nat, decision : {"none", "qualified", "hold"}, did : SUBSET Gate,
             left : SUBSET Gate]
Listed == [report : Reported, artifacts : [Gate -> Nat], listed : BOOLEAN]
Folder == [report : Reported, artifacts : [Gate -> Nat], manifest : Listed, bundle : Listed]

QualificationTypes ==
  /\ script \in {"ha", "staging"} /\ drills \in Nat /\ drill \in Drill /\ folder \in Folder

\* What the run in progress has recorded is what it did: a passed gate was run and left its
\* files, a change that was not undone is in a gate that did not pass, and the gates ahead
\* have no status yet.
DrillIsTrue ==
  /\ \A name \in Required : drill.gates[name] = "passed" => name \in drill.did
  /\ \A name \in drill.did : name \in Required /\ folder.artifacts[name] = drills
  /\ \A name \in drill.left :
       /\ name \in Required
       /\ \/ drill.gates[name] = "failed"
          \/ drill.step = "amid" /\ name = Current
  /\ \A i \in DOMAIN Gates : drill.next <= i => drill.gates[Gates[i]] = "none"
  /\ drill.step = "amid" => drill.next \in DOMAIN Gates

\* Until a run writes its report, the manifest in the folder is an earlier run's.
ManifestIsPast ==
  /\ \A name \in Gate : folder.manifest.artifacts[name] <= drills
  /\ folder.manifest.report.run <= drills
  /\ drill.step \in {"gates", "amid"} =>
       /\ \A name \in Gate : folder.manifest.artifacts[name] < drills
       /\ folder.manifest.report.run < drills

Earned ==
  /\ folder.report.did = Required /\ folder.report.left = {}
  /\ \A name \in Required : folder.artifacts[name] = folder.report.run

QualificationInv ==
  /\ QualificationTypes /\ DrillIsTrue /\ ManifestIsPast
  /\ \A name \in Gate : folder.artifacts[name] <= drills
  /\ folder.report.run <= drills
  /\ drill.step \in {"manifest", "sign"} /\ folder.report.decision = "qualified" => Earned
  /\ EvidenceIsEarned

\* No gate comes twice, and there are ten of one script and seven of the other.
LEMMA GatesDiffer ==
  ASSUME script \in {"ha", "staging"}
  PROVE  /\ DOMAIN Gates \subseteq 1..10 /\ DOMAIN Gates = 1..Len(Gates)
         /\ Required \subseteq Gate
         /\ \A i \in DOMAIN Gates : Gates[i] \in Required
         /\ \A i, j \in DOMAIN Gates : Gates[i] = Gates[j] => i = j
  <1>1. CASE script = "ha"
    <2>1. Gates = <<"preflight", "idempotency", "load", "pod", "redis", "again", "scale",
                    "rotation", "controls", "after">>
      BY <1>1 DEF Gates
    <2>2. DOMAIN Gates = 1..10 /\ Len(Gates) = 10
      BY <2>1
    <2>3. \A i \in DOMAIN Gates : Gates[i] \in Gate
      BY <2>1, <2>2 DEF Gate
    <2>4. \A i, j \in DOMAIN Gates : Gates[i] = Gates[j] => i = j
      BY <2>1, <2>2
    <2> QED BY <2>2, <2>3, <2>4 DEF Required
  <1>2. CASE script = "staging"
    <2>1. Gates = <<"preflight", "load", "redis", "postgres", "worker", "after", "ps">>
      BY <1>2 DEF Gates
    <2>2. DOMAIN Gates = 1..7 /\ Len(Gates) = 7
      BY <2>1
    <2>3. \A i \in DOMAIN Gates : Gates[i] \in Gate
      BY <2>1, <2>2 DEF Gate
    <2>4. \A i, j \in DOMAIN Gates : Gates[i] = Gates[j] => i = j
      BY <2>1, <2>2
    <2> QED BY <2>2, <2>3, <2>4 DEF Required
  <1> QED BY <1>1, <1>2

LEMMA QualificationInitInv == QualificationInit => QualificationInv
  <1> SUFFICES ASSUME QualificationInit PROVE QualificationInv
    OBVIOUS
  <1> USE DEF QualificationInit
  <1>1. NoReport \in Reported /\ NoArtifacts \in [Gate -> Nat]
    BY DEF NoReport, Reported, NoArtifacts
  <1>2. NoManifest \in Listed
    BY <1>1 DEF NoManifest, Listed
  <1>3. folder \in Folder
    BY <1>1, <1>2 DEF Folder
  <1>4. drill \in Drill
    BY DEF NoDrill, Drill, DrillStep, Status
  <1>5. DrillIsTrue
    BY GatesDiffer DEF DrillIsTrue, NoDrill
  <1>6. folder.report = NoReport /\ folder.artifacts = NoArtifacts /\ folder.manifest = NoManifest
    OBVIOUS
  <1>7. ManifestIsPast
    BY <1>6 DEF ManifestIsPast, NoManifest, NoReport, NoArtifacts, NoDrill
  <1> QED
    BY <1>3, <1>4, <1>5, <1>6, <1>7
    DEF QualificationInv, QualificationTypes, EvidenceIsEarned, Approvable, NoReport, NoArtifacts,
        NoDrill

\* A step that leaves the folder alone, and the records a drill may go to then.
LEMMA FolderStays ==
  ASSUME QualificationInv, UNCHANGED <<script, folder, drills>>, drill' \in Drill,
         DrillIsTrue',
         drill'.step \in {"gates", "amid"} => drill.step \in {"gates", "amid"},
         drill'.step \in {"manifest", "sign"} => drill.step \in {"manifest", "sign"}
  PROVE  QualificationInv'
  BY DEF QualificationInv, QualificationTypes, ManifestIsPast, Earned, EvidenceIsEarned,
         Approvable, Listing, Required, Gates

\* The current gate takes its status and leaves its files, or nothing.
LEMMA GateRecorded ==
  ASSUME QualificationInv, drill.step \in {"gates", "amid"}, drill.next \in DOMAIN Gates,
         NEW status \in {"passed", "failed"}, NEW left \in SUBSET Gate,
         UNCHANGED <<script, drills>>,
         drill' = [drill EXCEPT !.step = "gates", !.gates[Current] = status, !.next = @ + 1,
                                !.did = IF status = "passed" THEN @ \union {Current} ELSE @,
                                !.left = left],
         left \subseteq drill.left \union {Current}, Current \in left => status = "failed",
         folder' = Artifact(folder, Current)
  PROVE  QualificationInv'
  <1>1. /\ script \in {"ha", "staging"} /\ drills \in Nat /\ drill \in Drill /\ folder \in Folder
        /\ Current \in Gate /\ Current \in Required
        /\ DOMAIN Gates \subseteq 1..10 /\ Required \subseteq Gate
    BY GatesDiffer DEF QualificationInv, QualificationTypes, Current
  <1>2. Gates' = Gates /\ Required' = Required
    BY DEF Gates, Required
  <1>3. /\ drill'.step = "gates" /\ drill'.gates = [drill.gates EXCEPT ![Current] = status]
        /\ drill'.next = drill.next + 1 /\ drill'.left = left
        /\ drill'.did = IF status = "passed" THEN drill.did \union {Current} ELSE drill.did
        /\ drill' \in Drill
    <2>1. drill.next + 1 \in 1..11
      BY <1>1
    <2>2. [drill.gates EXCEPT ![Current] = status] \in [Gate -> Status]
      BY <1>1 DEF Drill, Status
    <2>3. (IF status = "passed" THEN drill.did \union {Current} ELSE drill.did) \in SUBSET Gate
      BY <1>1 DEF Drill
    <2> QED BY <1>1, <2>1, <2>2, <2>3 DEF Drill, DrillStep
  <1>4. /\ folder' \in Folder /\ folder'.report = folder.report
        /\ folder'.manifest = folder.manifest
        /\ folder'.artifacts = [folder.artifacts EXCEPT ![Current] = drills]
    BY <1>1 DEF Artifact, Folder
  <1>5. /\ drill.gates \in [Gate -> Status] /\ folder.artifacts \in [Gate -> Nat]
        /\ drill.next \in 1..11
    BY <1>1 DEF Drill, Folder
  <1>6. DrillIsTrue'
    <2>1. \A name \in Required : drill'.gates[name] = "passed" => name \in drill'.did
      BY <1>1, <1>3, <1>5 DEF QualificationInv, DrillIsTrue
    <2>2. \A name \in drill'.did : name \in Required /\ folder'.artifacts[name] = drills
      BY <1>1, <1>3, <1>4, <1>5 DEF QualificationInv, DrillIsTrue
    <2>3. \A name \in drill'.left : name \in Required /\ drill'.gates[name] = "failed"
      BY <1>1, <1>3, <1>5 DEF QualificationInv, DrillIsTrue
    <2>4. ASSUME NEW i \in DOMAIN Gates, drill'.next <= i
          PROVE  drill'.gates[Gates[i]] = "none"
      <3>1. drill.next <= i /\ i # drill.next
        BY <1>1, <1>3, <1>5, <2>4
      <3>2. Gates[i] # Current /\ Gates[i] \in Gate
        BY <1>1, <3>1, GatesDiffer DEF Current
      <3> QED BY <1>3, <1>5, <3>1, <3>2 DEF QualificationInv, DrillIsTrue
    <2> QED BY <1>2, <1>3, <2>1, <2>2, <2>3, <2>4 DEF DrillIsTrue
  <1>7. ManifestIsPast'
    BY <1>3, <1>4 DEF QualificationInv, ManifestIsPast
  <1>8. \A name \in Gate : folder'.artifacts[name] <= drills
    BY <1>1, <1>4, <1>5 DEF QualificationInv
  \* The manifest does not list the new files, so nobody approves this folder.
  <1>9. ~Approvable'
    <2>1. folder.manifest.artifacts[Current] < drills
      BY <1>1 DEF QualificationInv, ManifestIsPast
    <2>2. folder'.artifacts[Current] = drills /\ folder.manifest.artifacts[Current] \in Nat
      BY <1>1, <1>4, <1>5 DEF Folder, Listed
    <2>3. folder.manifest.artifacts[Current] # folder'.artifacts[Current]
      BY <1>1, <2>1, <2>2
    <2>4. folder'.manifest.artifacts # folder'.artifacts
      BY <1>4, <2>3
    <2> QED BY <2>4 DEF Approvable, Listing
  <1> QED
    BY <1>1, <1>2, <1>3, <1>4, <1>6, <1>7, <1>8, <1>9
    DEF QualificationInv, QualificationTypes, EvidenceIsEarned

LEMMA QualificationStep == QualificationInv /\ [QualificationNext]_qualificationVars => QualificationInv'
  <1> SUFFICES ASSUME QualificationInv, [QualificationNext]_qualificationVars
               PROVE  QualificationInv'
    OBVIOUS
  <1>1. /\ script \in {"ha", "staging"} /\ drills \in Nat /\ drill \in Drill /\ folder \in Folder
        /\ DOMAIN Gates \subseteq 1..10 /\ DOMAIN Gates = 1..Len(Gates) /\ Required \subseteq Gate
        /\ \A i \in DOMAIN Gates : Gates[i] \in Required
    BY GatesDiffer DEF QualificationInv, QualificationTypes
  <1>2. /\ drill.step \in DrillStep /\ drill.gates \in [Gate -> Status] /\ drill.next \in 1..11
        /\ drill.did \subseteq Gate /\ drill.left \subseteq Gate
        /\ folder.report \in Reported /\ folder.artifacts \in [Gate -> Nat]
        /\ folder.manifest \in Listed
    BY <1>1 DEF Drill, Folder
  <1>3. NoDrill \in Drill /\ NoDrill.step = "off"
    BY DEF NoDrill, Drill, DrillStep, Status
  \* Nothing is recorded of a run that is not there.
  <1>4. ASSUME NEW d \in Drill, d.gates = [name \in Gate |-> "none"], d.did = {}, d.left = {},
               d.step # "amid", drill' = d, script' = script
        PROVE  DrillIsTrue'
    <2>1. Gates' = Gates /\ Required' = Required
      BY <1>4 DEF Gates, Required
    <2>2. \A i \in DOMAIN Gates : Gates[i] \in Gate
      BY <1>1
    <2> QED BY <1>1, <1>4, <2>1, <2>2 DEF DrillIsTrue
  <1>5. NoDrill.gates = [name \in Gate |-> "none"] /\ NoDrill.did = {} /\ NoDrill.left = {}
    BY DEF NoDrill
  <1>6. ASSUME NEW skip \in Skip, NEW rehearsal \in BOOLEAN, NEW sign \in BOOLEAN,
               StartDrill(skip, rehearsal, sign)
        PROVE  QualificationInv'
    <2> DEFINE d == [NoDrill EXCEPT !.step = "gates", !.skip = skip,
                                    !.rehearsal = rehearsal, !.sign = sign]
    <2>1. /\ d \in Drill /\ d.step = "gates" /\ d.gates = [name \in Gate |-> "none"]
          /\ d.did = {} /\ d.left = {}
      BY <1>3, <1>5 DEF NoDrill, Drill, DrillStep
    <2>2. drill' = d /\ drills' = drills + 1 /\ UNCHANGED <<script, folder>>
      BY <1>6 DEF StartDrill
    <2> HIDE DEF d
    <2>3. DrillIsTrue'
      BY <1>4, <2>1, <2>2
    <2>4. /\ \A name \in Gate : folder.artifacts[name] <= drills /\ folder.artifacts[name] \in Nat
          /\ \A name \in Gate : /\ folder.manifest.artifacts[name] <= drills
                                /\ folder.manifest.artifacts[name] \in Nat
          /\ folder.report.run <= drills /\ folder.report.run \in Nat
          /\ folder.manifest.report.run <= drills /\ folder.manifest.report.run \in Nat
      BY <1>2 DEF QualificationInv, ManifestIsPast, Listed, Reported
    <2>5. /\ \A name \in Gate : folder'.artifacts[name] <= drills'
          /\ \A name \in Gate : folder'.manifest.artifacts[name] < drills'
          /\ folder'.report.run <= drills' /\ folder'.manifest.report.run < drills'
          /\ \A name \in Gate : folder'.manifest.artifacts[name] <= drills'
          /\ folder'.manifest.report.run <= drills'
      BY <1>1, <2>2, <2>4
    <2>6. EvidenceIsEarned'
      BY <2>2 DEF QualificationInv, EvidenceIsEarned, Approvable, Listing, Required, Gates
    <2> QED
      BY <1>1, <2>1, <2>2, <2>3, <2>5, <2>6
      DEF QualificationInv, QualificationTypes, ManifestIsPast
  <1>7. CASE SkipGate
    <2>1. /\ drill.next \in DOMAIN Gates /\ drill.step = "gates" /\ Current \in Gate
          /\ UNCHANGED <<script, folder, drills>>
      BY <1>1, <1>2, <1>7 DEF SkipGate, GatesLeft, Current
    <2>2. /\ drill'.step = "gates" /\ drill'.next = drill.next + 1
          /\ drill'.gates = [drill.gates EXCEPT ![Current] = "incomplete"]
          /\ drill'.did = drill.did /\ drill'.left = drill.left
          /\ drill' \in Drill
      <3>1. drill.next + 1 \in 1..11 /\ [drill.gates EXCEPT ![Current] = "incomplete"] \in [Gate -> Status]
        <4>1. drill.next \in 1..10
          BY <1>1, <2>1
        <4>2. "incomplete" \in Status
          BY DEF Status
        <4>3. drill.next + 1 \in 1..11
          BY <4>1
        <4>4. [drill.gates EXCEPT ![Current] = "incomplete"] \in [Gate -> Status]
          BY <1>2, <4>2
        <4> QED BY <4>3, <4>4
      <3> DEFINE gates == [drill.gates EXCEPT ![Current] = "incomplete"]
                 next == drill.next + 1
      <3>2. drill' = [drill EXCEPT !.gates = gates, !.next = next]
        BY <1>1, <1>7 DEF SkipGate, Drill
      <3>3. gates \in [Gate -> Status] /\ next \in 1..11
        BY <3>1
      <3> HIDE DEF gates, next
      <3>4. /\ drill'.step = drill.step /\ drill'.next = next /\ drill'.gates = gates
            /\ drill'.did = drill.did /\ drill'.left = drill.left /\ drill' \in Drill
        BY <1>1, <3>2, <3>3 DEF Drill
      <3> QED BY <2>1, <3>4 DEF gates, next
    <2>3. DrillIsTrue'
      <3>1. Gates' = Gates /\ Required' = Required
        BY <2>1 DEF Gates, Required
      <3>2. ASSUME NEW i \in DOMAIN Gates, drill'.next <= i
            PROVE  drill'.gates[Gates[i]] = "none"
        <4>1. drill.next <= i /\ i # drill.next
          BY <1>1, <1>2, <2>2, <3>2
        <4>2. Gates[i] # Current /\ Gates[i] \in Gate
          BY <1>1, <2>1, <4>1, GatesDiffer DEF Current
        <4> QED BY <1>2, <2>2, <4>1, <4>2 DEF QualificationInv, DrillIsTrue
      <3>3. \A name \in Required : drill'.gates[name] = "passed" => name \in drill'.did
        BY <1>1, <1>2, <2>1, <2>2 DEF QualificationInv, DrillIsTrue
      <3>4. \A name \in drill'.did : name \in Required /\ folder'.artifacts[name] = drills'
        BY <2>1, <2>2 DEF QualificationInv, DrillIsTrue
      <3>5. drill.gates[Current] = "none"
        BY <1>1, <1>2, <2>1 DEF QualificationInv, DrillIsTrue, Current
      <3>6. \A name \in drill'.left : name \in Required /\ drill'.gates[name] = "failed"
        BY <1>1, <1>2, <2>1, <2>2, <3>5 DEF QualificationInv, DrillIsTrue
      <3> QED BY <2>2, <3>1, <3>2, <3>3, <3>4, <3>6 DEF DrillIsTrue
    <2> QED BY <2>1, <2>2, <2>3, FolderStays
  <1>8. ASSUME NEW status \in {"passed", "failed"}, RunGate(status) PROVE QualificationInv'
    <2>1. drill.next \in DOMAIN Gates /\ drill.step = "gates" /\ UNCHANGED <<script, drills>>
      BY <1>1, <1>2, <1>8 DEF RunGate, GatesLeft
    <2>2. Current \notin drill.left
      <3>1. drill.gates[Current] = "none"
        BY <1>1, <1>2, <2>1 DEF QualificationInv, DrillIsTrue, Current
      <3> QED BY <2>1, <3>1 DEF QualificationInv, DrillIsTrue
    <2>3. /\ drill' = [drill EXCEPT !.gates[Current] = status, !.next = @ + 1,
                            !.did = IF status = "passed" THEN @ \union {Current} ELSE @]
          /\ folder' = Artifact(folder, Current)
      BY <1>8 DEF RunGate
    <2>4. drill' = [drill EXCEPT !.step = "gates", !.gates[Current] = status, !.next = @ + 1,
                                 !.did = IF status = "passed" THEN @ \union {Current} ELSE @,
                                 !.left = drill.left]
      BY <1>1, <2>1, <2>3 DEF Drill
    <2> QED BY <1>2, <2>1, <2>2, <2>3, <2>4, GateRecorded
  <1>9. CASE Disturb
    <2>1. /\ drill.next \in DOMAIN Gates /\ drill.step = "gates" /\ Current \in Required
          /\ UNCHANGED <<script, folder, drills>>
      BY <1>1, <1>2, <1>9 DEF Disturb, GatesLeft, Current
    <2>2. /\ drill'.step = "amid" /\ drill'.next = drill.next /\ drill'.gates = drill.gates
          /\ drill'.did = drill.did /\ drill'.left = drill.left \union {Current}
          /\ drill' \in Drill
      BY <1>1, <1>9, <2>1 DEF Disturb, Drill, DrillStep
    <2>3. Gates' = Gates /\ Required' = Required
      BY <2>1 DEF Gates, Required
    <2>4. Current' = Current
      BY <2>2, <2>3 DEF Current
    <2>5. DrillIsTrue'
      BY <2>1, <2>2, <2>3, <2>4 DEF QualificationInv, DrillIsTrue
    <2> QED BY <2>1, <2>2, <2>5, FolderStays
  <1>10. ASSUME NEW observed \in BOOLEAN, NEW undone \in BOOLEAN, Undo(observed, undone)
         PROVE  QualificationInv'
    <2> DEFINE status == DrillStatus(observed, undone)
    <2> DEFINE left == IF undone THEN drill.left \ {Current} ELSE drill.left
    <2>1. /\ drill.step = "amid" /\ drill.next \in DOMAIN Gates /\ UNCHANGED <<script, drills>>
          /\ folder' = Artifact(folder, Current)
      BY <1>10 DEF Undo, QualificationInv, DrillIsTrue
    <2>2. status \in {"passed", "failed"} /\ (status = "passed" => undone)
      BY DEF DrillStatus
    <2>3. left \in SUBSET Gate /\ left \subseteq drill.left \union {Current}
          /\ (Current \in left => status = "failed")
      BY <1>2, <2>2
    <2>4. drill' = [drill EXCEPT !.step = "gates", !.gates[Current] = status, !.next = @ + 1,
                                 !.did = IF status = "passed" THEN @ \union {Current} ELSE @,
                                 !.left = left]
      BY <1>10 DEF Undo
    <2> HIDE DEF status, left
    <2> QED BY <2>1, <2>2, <2>3, <2>4, GateRecorded
  <1>11. CASE WriteReport
    <2> DEFINE decision == IF Qualifies(drill) THEN "qualified" ELSE "hold"
    <2>1. /\ drill.step = "gates" /\ UNCHANGED <<script, drills>>
          /\ folder' = [folder EXCEPT !.report = Report(decision)]
          /\ drill' = [drill EXCEPT !.step = "manifest"]
      BY <1>11 DEF WriteReport
    <2>2. decision \in {"qualified", "hold"} /\ (decision = "qualified" => Qualifies(drill))
      OBVIOUS
    <2> HIDE DEF decision
    <2>3. /\ Report(decision) \in Reported /\ Report(decision).run = drills
          /\ Report(decision).decision = decision
          /\ Report(decision).did = drill.did /\ Report(decision).left = drill.left
      BY <1>1, <1>2, <2>2 DEF Report, Reported
    <2>4. /\ folder' \in Folder /\ folder'.report = Report(decision)
          /\ folder'.artifacts = folder.artifacts /\ folder'.manifest = folder.manifest
      BY <1>1, <2>1, <2>3 DEF Folder
    <2>5. /\ drill' \in Drill /\ drill'.step = "manifest" /\ drill'.gates = drill.gates
          /\ drill'.next = drill.next /\ drill'.did = drill.did /\ drill'.left = drill.left
      BY <1>1, <2>1 DEF Drill, DrillStep
    <2>6. Gates' = Gates /\ Required' = Required
      BY <2>1 DEF Gates, Required
    <2>7. DrillIsTrue'
      BY <2>1, <2>4, <2>5, <2>6 DEF QualificationInv, DrillIsTrue
    \* A run that qualifies has passed every gate itself, so it has nothing left to undo.
    <2>8. decision = "qualified" => Earned'
      <3> SUFFICES ASSUME decision = "qualified" PROVE Earned'
        OBVIOUS
      <3>1. \A name \in Required : drill.gates[name] = "passed"
        BY <2>2 DEF Qualifies
      <3>2. drill.did = Required
        BY <3>1 DEF QualificationInv, DrillIsTrue
      <3>3. drill.left = {}
        BY <2>1, <3>1 DEF QualificationInv, DrillIsTrue
      <3>4. \A name \in Required : folder.artifacts[name] = drills
        BY <3>2 DEF QualificationInv, DrillIsTrue
      <3> QED BY <2>3, <2>4, <2>6, <3>2, <3>3, <3>4 DEF Earned
    <2>9. ~Approvable'
      <3>1. folder.manifest.report.run # drills
        BY <1>1, <1>2, <2>1 DEF QualificationInv, ManifestIsPast, Listed, Reported
      <3> QED BY <2>3, <2>4, <3>1 DEF Approvable, Listing
    <2> QED
      BY <1>1, <2>1, <2>3, <2>4, <2>5, <2>7, <2>8, <2>9
      DEF QualificationInv, QualificationTypes, ManifestIsPast, EvidenceIsEarned
  <1>12. CASE WriteManifest
    <2>1. /\ drill.step = "manifest" /\ UNCHANGED <<script, drills>>
          /\ folder' = [folder EXCEPT !.manifest = Listing(folder)]
          /\ drill' = [drill EXCEPT !.step = "sign"] \/ drill' = NoDrill
      BY <1>12, Zenon DEF WriteManifest
    <2>2. /\ Listing(folder) \in Listed /\ Listing(folder).report = folder.report
          /\ Listing(folder).artifacts = folder.artifacts
      BY <1>2 DEF Listing, Listed
    <2>3. /\ folder' \in Folder /\ folder'.report = folder.report
          /\ folder'.artifacts = folder.artifacts /\ folder'.manifest = Listing(folder)
      BY <1>1, <2>1, <2>2 DEF Folder
    <2>4. Gates' = Gates /\ Required' = Required
      BY <2>1 DEF Gates, Required
    <2>5. drill' \in Drill /\ drill'.step \in {"sign", "off"} /\ DrillIsTrue'
      <3>1. CASE drill' = NoDrill
        BY <1>3, <1>4, <1>5, <2>1, <3>1
      <3>2. CASE drill' = [drill EXCEPT !.step = "sign"]
        <4>1. /\ drill' \in Drill /\ drill'.step = "sign" /\ drill'.gates = drill.gates
              /\ drill'.next = drill.next /\ drill'.did = drill.did /\ drill'.left = drill.left
          BY <1>1, <3>2 DEF Drill, DrillStep
        <4> QED BY <2>1, <2>3, <2>4, <4>1 DEF QualificationInv, DrillIsTrue
      <3> QED BY <2>1, <3>1, <3>2
    <2>6. folder.report.decision = "qualified" => Earned'
      BY <2>1, <2>3, <2>4 DEF QualificationInv, Earned
    <2> QED
      BY <1>1, <2>1, <2>2, <2>3, <2>5, <2>6
      DEF QualificationInv, QualificationTypes, ManifestIsPast, EvidenceIsEarned, Approvable,
          Earned
  <1>13. CASE SignManifest
    <2>1. /\ drill.step = "sign" /\ UNCHANGED <<script, drills>> /\ drill' = NoDrill
          /\ folder' = [folder EXCEPT !.bundle = folder.manifest]
      BY <1>13 DEF SignManifest
    <2>2. /\ folder' \in Folder /\ folder'.report = folder.report
          /\ folder'.artifacts = folder.artifacts /\ folder'.manifest = folder.manifest
      BY <1>1, <1>2, <2>1 DEF Folder
    <2>3. Gates' = Gates /\ Required' = Required
      BY <2>1 DEF Gates, Required
    <2>4. drill' \in Drill /\ drill'.step = "off" /\ DrillIsTrue'
      BY <1>3, <1>4, <1>5, <2>1
    <2>5. folder.report.decision = "qualified" => Earned'
      BY <2>1, <2>2, <2>3 DEF QualificationInv, Earned
    <2> QED
      BY <1>1, <2>1, <2>2, <2>4, <2>5
      DEF QualificationInv, QualificationTypes, ManifestIsPast, EvidenceIsEarned, Approvable,
          Earned
  <1>14. CASE SigningFails
    <2>1. /\ drill.step = "sign" /\ UNCHANGED <<script, folder, drills>>
          /\ drill' = [drill EXCEPT !.step = "hold"]
      BY <1>14 DEF SigningFails
    <2>2. /\ drill' \in Drill /\ drill'.step = "hold" /\ drill'.gates = drill.gates
          /\ drill'.next = drill.next /\ drill'.did = drill.did /\ drill'.left = drill.left
      BY <1>1, <2>1 DEF Drill, DrillStep
    <2>3. Gates' = Gates /\ Required' = Required
      BY <2>1 DEF Gates, Required
    <2>4. DrillIsTrue'
      BY <2>1, <2>2, <2>3 DEF QualificationInv, DrillIsTrue
    <2> QED BY <2>1, <2>2, <2>4, FolderStays
  <1>15. CASE WriteHold
    <2>1. /\ drill.step = "hold" /\ UNCHANGED <<script, drills>>
          /\ folder' = [folder EXCEPT !.report = Report("hold")]
          /\ drill' = [drill EXCEPT !.step = "manifest", !.sign = FALSE]
      BY <1>15 DEF WriteHold
    <2>2. /\ Report("hold") \in Reported /\ Report("hold").run = drills
          /\ Report("hold").decision = "hold"
      BY <1>1, <1>2 DEF Report, Reported
    <2>3. /\ folder' \in Folder /\ folder'.report = Report("hold")
          /\ folder'.artifacts = folder.artifacts /\ folder'.manifest = folder.manifest
      BY <1>1, <2>1, <2>2 DEF Folder
    <2>4. /\ drill' \in Drill /\ drill'.step = "manifest" /\ drill'.gates = drill.gates
          /\ drill'.next = drill.next /\ drill'.did = drill.did /\ drill'.left = drill.left
      BY <1>1, <2>1 DEF Drill, DrillStep
    <2>5. Gates' = Gates /\ Required' = Required
      BY <2>1 DEF Gates, Required
    <2>6. DrillIsTrue'
      BY <2>1, <2>3, <2>4, <2>5 DEF QualificationInv, DrillIsTrue
    <2> QED
      BY <1>1, <2>1, <2>2, <2>3, <2>4, <2>6
      DEF QualificationInv, QualificationTypes, ManifestIsPast, EvidenceIsEarned, Approvable
  <1>16. CASE DrillDies
    <2>1. drill' = NoDrill /\ UNCHANGED <<script, folder, drills>>
      BY <1>16 DEF DrillDies
    <2> QED BY <1>3, <1>4, <1>5, <2>1, FolderStays
  <1>17. CASE UNCHANGED qualificationVars
    <2>1. UNCHANGED <<script, drill, folder, drills>>
      BY <1>17 DEF qualificationVars
    <2>2. DrillIsTrue'
      BY <2>1 DEF QualificationInv, DrillIsTrue, Required, Gates, Current
    <2> QED BY <1>1, <2>1, <2>2, FolderStays
  <1> QED
    BY <1>6, <1>7, <1>8, <1>9, <1>10, <1>11, <1>12, <1>13, <1>14, <1>15, <1>16, <1>17
    DEF QualificationNext

\* A folder that an approver would accept stems from one run that passed every gate itself
\* and left nothing changed, for any number of runs that skip, die or fail to sign.
THEOREM QualifiedIsEarned == QualificationSpec => []EvidenceIsEarned
  <1>1. QualificationInv => EvidenceIsEarned
    BY DEF QualificationInv
  <1> QED
    BY <1>1, QualificationInitInv, QualificationStep, PTL DEF QualificationSpec
=============================================================================
