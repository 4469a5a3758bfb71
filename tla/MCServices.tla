----------------------------- MODULE MCServices -----------------------------
(***************************************************************************)
(* Instances for TLC of services that share no state: they stand side by   *)
(* side, and a behaviour is one of a single component.                     *)
(***************************************************************************)
EXTENDS CircuitBreaker, IndexRepository, MCPQuota, GitHubRepair, Registry, Delegation,
  TLC

VARIABLE part    \* the component that moves

Parts == {"circuit", "index", "quota", "github", "registry", "delegation"}

servicesVars ==
  <<part, circuitVars, vars, quotaVars, githubVars, registryVars, delegationVars>>

Symmetry == Permutations(Caller) \union Permutations(Key)

\* A component that does not move starts anywhere it may; one such state is enough.
ServicesInit ==
  /\ part \in Parts
  /\ CircuitInit /\ Init /\ QuotaInit /\ GitHubInit /\ RegistryInit
  /\ DelegationInit
  /\ part # "index" => remote = [f \in File |-> Absent]
  /\ part # "quota" => policy.limit = 1
  /\ registration.config = CHOOSE config \in Config : TRUE

\* Every component but p stays as it is.
Only(p) ==
  /\ part = p /\ UNCHANGED part
  /\ p # "circuit" => UNCHANGED circuitVars
  /\ p # "index" => UNCHANGED vars
  /\ p # "quota" => UNCHANGED quotaVars
  /\ p # "github" => UNCHANGED githubVars
  /\ p # "registry" => UNCHANGED registryVars
  /\ p # "delegation" => UNCHANGED delegationVars

ServicesNext ==
  \/ Only("circuit") /\ CircuitNext
  \/ Only("index") /\ Next
  \/ Only("quota") /\ QuotaNext
  \/ Only("github") /\ GitHubNext
  \/ Only("registry") /\ RegistryNext
  \/ Only("delegation") /\ DelegationNext

ServicesSpec == ServicesInit /\ [][ServicesNext]_servicesVars
=============================================================================
