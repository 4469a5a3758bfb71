--------------------------- MODULE Qualification ---------------------------
(***************************************************************************)
(* The two scripts that qualify a release on staging:                      *)
(* scripts/run_sandbox_ha_qualification.py ("ha") and                      *)
(* scripts/run_staging_qualification.py ("staging", whose fault drills are *)
(* scripts/mcp_fault_injection.py). A run goes through its gates in order, *)
(* some of which disturb the site and undo what they did, and writes its   *)
(* evidence into a folder that an earlier run of the same script may have  *)
(* used. Gates that are passed or failed together are one gate here. A run *)
(* may be killed at any point, or end by an exception no gate catches.     *)
(***************************************************************************)
EXTENDS Naturals, FiniteSets, Sequences

CONSTANTS
  MaxDrills,   \* bound: runs, one after the other
  Skip         \* sets of options that skip drills

ASSUME QualificationAssumption ==
  MaxDrills \in Nat /\ Skip \subseteq SUBSET {"faults", "rotation", "controls"}

VARIABLES
  script,      \* the script that is run, "ha" or "staging"
  drill,       \* the run in progress
  folder,      \* files of the output directory
  drills       \* runs begun

qualificationVars == <<script, drill, folder, drills>>

Gates ==
  IF script = "ha"
    THEN <<"preflight", "idempotency", "load", "pod", "redis", "again", "scale",
           "rotation", "controls", "after">>
    ELSE <<"preflight", "load", "redis", "postgres", "worker", "after", "ps">>

Gate == {"preflight", "idempotency", "load", "pod", "redis", "again", "scale", "rotation",
         "controls", "after", "postgres", "worker", "ps"}

Required == {Gates[i] : i \in DOMAIN Gates}

\* What must have passed for a gate to be run.
HaNeeds(name) ==
  CASE name = "preflight" -> {}
    [] name \in {"idempotency", "load", "controls", "after"} -> {"preflight"}
    [] name \in {"pod", "rotation"} -> {"idempotency", "load"}
    [] name = "redis" -> {"pod"}
    [] name = "again" -> {"redis"}
    [] name = "scale" -> {"again"}

StagingNeeds(name) ==
  CASE name \in {"preflight", "ps"} -> {}
    [] name \in {"load", "after"} -> {"preflight"}
    [] name = "redis" -> {"load"}
    [] name = "postgres" -> {"redis"}
    [] name = "worker" -> {"postgres"}

Needs(name) == IF script = "ha" THEN HaNeeds(name) ELSE StagingNeeds(name)

\* The option that skips it.
SkippedBy(name) ==
  CASE name \in {"pod", "redis", "again", "scale", "postgres", "worker"} -> "faults"
    [] name \in {"rotation", "controls"} -> name
    [] OTHER -> "nothing"

\* Drills whose finally clause undoes what they changed: the autoscaler's floor, a service.
Reversible == IF script = "ha" THEN {"scale"} ELSE {"redis", "postgres", "worker"}

Status == {"none", "passed", "failed", "incomplete"}
NoReport == [run |-> 0, decision |-> "none", did |-> {}, left |-> {}]
NoArtifacts == [name \in Gate |-> 0]
NoManifest == [report |-> NoReport, artifacts |-> NoArtifacts, listed |-> FALSE]

\* did and left are history: gates that were really run and passed, and changes that this
\* run did not undo.
QualificationTypeOK ==
  /\ script \in {"ha", "staging"} /\ drill.step \in {"off", "gates", "amid", "manifest", "sign", "hold"}
  /\ drill.skip \in Skip /\ drill.rehearsal \in BOOLEAN /\ drill.sign \in BOOLEAN
  /\ drill.gates \in [Gate -> Status] /\ drill.next \in 1..11
  /\ drill.did \subseteq Gate /\ drill.left \subseteq Gate
  /\ drills \in 0..MaxDrills

NoDrill == [step |-> "off", skip |-> {}, rehearsal |-> FALSE, sign |-> FALSE,
            gates |-> [name \in Gate |-> "none"], next |-> 1, did |-> {}, left |-> {}]

QualificationInit ==
  /\ script \in {"ha", "staging"} /\ drill = NoDrill /\ drills = 0
  /\ folder = [report |-> NoReport, artifacts |-> NoArtifacts,
               manifest |-> NoManifest, bundle |-> NoManifest]

-----------------------------------------------------------------------------
\* main checks --execute, the context and the scheme, and makes the folder.
StartDrill(skip, rehearsal, sign) ==
  /\ drill.step = "off" /\ drills < MaxDrills
  /\ script = "staging" => skip \subseteq {"faults"} /\ ~sign
  /\ drill' = [NoDrill EXCEPT !.step = "gates", !.skip = skip,
                              !.rehearsal = rehearsal, !.sign = sign]
  /\ drills' = drills + 1
  /\ UNCHANGED <<script, folder>>

GatesLeft == drill.next <= Len(Gates)
Current == Gates[drill.next]

\* Skipped gates are recorded as such.
Wanted(name) ==
  /\ SkippedBy(name) \notin drill.skip
  /\ \A need \in Needs(name) : drill.gates[need] = "passed"

SkipGate ==
  /\ drill.step = "gates" /\ GatesLeft /\ ~Wanted(Current)
  /\ drill' = [drill EXCEPT !.gates[Current] = "incomplete", !.next = @ + 1]
  /\ UNCHANGED <<script, folder, drills>>

Artifact(files, name) == [files EXCEPT !.artifacts[name] = drills]

\* A gate that undoes nothing: checks, probes, and faults the cluster recovers from. Its
\* files are written either way.
RunGate(status) ==
  /\ drill.step = "gates" /\ GatesLeft /\ Wanted(Current)
  /\ Current \notin Reversible
  /\ drill' = [drill EXCEPT !.gates[Current] = status, !.next = @ + 1,
                            !.did = IF status = "passed" THEN @ \union {Current} ELSE @]
  /\ folder' = Artifact(folder, Current)
  /\ UNCHANGED <<script, drills>>

\* scale_gate raises the autoscaler's minimum; a fault drill stops its service.
Disturb ==
  /\ drill.step = "gates" /\ GatesLeft /\ Wanted(Current)
  /\ Current \in Reversible
  /\ drill' = [drill EXCEPT !.step = "amid", !.left = @ \union {Current}]
  /\ UNCHANGED <<script, folder, drills>>

\* The effect must have been seen, and the finally clause must have succeeded.
DrillStatus(observed, undone) == IF observed /\ undone THEN "passed" ELSE "failed"

Undo(observed, undone) ==
  LET status == DrillStatus(observed, undone) IN
  /\ drill.step = "amid"
  /\ drill' = [drill EXCEPT !.step = "gates", !.gates[Current] = status, !.next = @ + 1,
                            !.did = IF status = "passed" THEN @ \union {Current} ELSE @,
                            !.left = IF undone THEN @ \ {Current} ELSE @]
  /\ folder' = Artifact(folder, Current)
  /\ UNCHANGED <<script, drills>>

-----------------------------------------------------------------------------
(* The evidence.                                                           *)

\* Faulty variant: only a failed gate holds the release.
QualifiesUnlessFailed(d) ==
  /\ \A name \in Required : d.gates[name] # "failed"
  /\ ~d.rehearsal /\ (script = "ha" => d.sign)

\* release_qualified, and the decision of the staging script.
Qualifies(d) ==
  /\ \A name \in Required : d.gates[name] = "passed"
  /\ ~d.rehearsal /\ (script = "ha" => d.sign)

Report(decision) ==
  [run |-> drills, decision |-> decision, did |-> drill.did, left |-> drill.left]

\* qualification.json and qualification.md.
WriteReport ==
  /\ drill.step = "gates" /\ ~GatesLeft
  /\ folder' = [folder EXCEPT !.report =
       Report(IF Qualifies(drill) THEN "qualified" ELSE "hold")]
  /\ drill' = [drill EXCEPT !.step = "manifest"]
  /\ UNCHANGED <<script, drills>>

\* The hashes of all files but the manifest and its signature.
Listing(files) == [report |-> files.report, artifacts |-> files.artifacts, listed |-> TRUE]

WriteManifest ==
  /\ drill.step = "manifest"
  /\ folder' = [folder EXCEPT !.manifest = Listing(folder)]
  /\ drill' = IF drill.sign THEN [drill EXCEPT !.step = "sign"] ELSE NoDrill
  /\ UNCHANGED <<script, drills>>

SignManifest ==
  /\ drill.step = "sign"
  /\ folder' = [folder EXCEPT !.bundle = folder.manifest]
  /\ drill' = NoDrill
  /\ UNCHANGED <<script, drills>>

\* cosign fails: the report is written again, and the manifest after it.
SigningFails ==
  /\ drill.step = "sign"
  /\ drill' = [drill EXCEPT !.step = "hold"]
  /\ UNCHANGED <<script, folder, drills>>

WriteHold ==
  /\ drill.step = "hold"
  /\ folder' = [folder EXCEPT !.report = Report("hold")]
  /\ drill' = [drill EXCEPT !.step = "manifest", !.sign = FALSE]
  /\ UNCHANGED <<script, drills>>

\* A kill, or an exception outside a gate's try: what is written and changed stays.
DrillDies ==
  /\ drill.step # "off" /\ drill' = NoDrill
  /\ UNCHANGED <<script, folder, drills>>

QualificationNext ==
  \/ \E skip \in Skip, rehearsal, sign \in BOOLEAN :
       StartDrill(skip, rehearsal, sign)
  \/ SkipGate \/ Disturb
  \/ \E status \in {"passed", "failed"} : RunGate(status)
  \/ \E observed, undone \in BOOLEAN : Undo(observed, undone)
  \/ WriteReport \/ WriteManifest \/ SignManifest \/ SigningFails \/ WriteHold \/ DrillDies

QualificationSpec == QualificationInit /\ [][QualificationNext]_qualificationVars

-----------------------------------------------------------------------------
(* Properties.                                                             *)

\* What an approver checks: sha256sum -c, cosign verify-blob, and the decision.
Approvable ==
  /\ folder.report.decision = "qualified"
  /\ folder.manifest = Listing(folder)
  /\ script = "ha" => folder.bundle = folder.manifest

\* docs/sandbox-ha-qualification.md:57 and docs/staging-qualification-kms-siem.md:7: a
\* folder that may be approved stems from one run that went through every gate, passed it
\* and left nothing changed, whatever earlier runs left in the folder and wherever runs
\* were skipped, killed or failed to sign.
EvidenceIsEarned ==
  Approvable =>
    /\ folder.report.did = Required /\ folder.report.left = {}
    /\ \A name \in Required : folder.artifacts[name] = folder.report.run
=============================================================================
