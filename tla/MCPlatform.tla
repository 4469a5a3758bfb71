----------------------------- MODULE MCPlatform -----------------------------
(***************************************************************************)
(* Instances for TLC of a repair run that pauses and is resumed, of the    *)
(* calls it asks for, of the sandbox plane, of the regression gate and of  *)
(* the qualification scripts: they share no state, they stand side by      *)
(* side, and a behaviour is one of a single component.                     *)
(***************************************************************************)
EXTENDS RepairRun, ToolRouter, SandboxPlane, Benchmark, Qualification, TLC

VARIABLE part    \* the component that moves

Parts == {"repair", "router", "plane", "benchmark", "qualification"}

platformVars == <<part, vars, routerVars, planeVars, benchmarkVars, qualificationVars>>

Symmetry == Permutations(Tool)

\* A component that does not move starts anywhere it may; one such state is enough. So it
\* is of the first list of cases, as the lists differ by their names only.
PlatformInit ==
  /\ part \in Parts
  /\ Init /\ RouterInit /\ PlaneInit /\ BenchmarkInit /\ QualificationInit
  /\ part # "router" => policies = [tool \in Tool |-> "auto"]
  /\ dataset.cases = CHOOSE cases \in Suite : TRUE
  /\ part # "qualification" => script = "ha"

\* Every component but p stays as it is.
Only(p) ==
  /\ part = p /\ UNCHANGED part
  /\ p # "repair" => UNCHANGED vars
  /\ p # "router" => UNCHANGED routerVars
  /\ p # "plane" => UNCHANGED planeVars
  /\ p # "benchmark" => UNCHANGED benchmarkVars
  /\ p # "qualification" => UNCHANGED qualificationVars

PlatformNext ==
  \/ Only("repair") /\ Next
  \/ Only("router") /\ RouterNext
  \/ Only("plane") /\ PlaneNext
  \/ Only("benchmark") /\ BenchmarkNext
  \/ Only("qualification") /\ QualificationNext

PlatformSpec == PlatformInit /\ [][PlatformNext]_platformVars
=============================================================================
