----------------------------- MODULE Delegation -----------------------------
(***************************************************************************)
(* Delegated identities (services/mcp_tenancy_service.py, routes/          *)
(* mcp_tenancy.py): a user authorizes once per OAuth state, the callback   *)
(* turns it into an identity, runs present the identity and get its access *)
(* token, refreshed when it has expired, and an administrator revokes it.  *)
(* A callback keeps its state's row locked while it exchanges the code. A  *)
(* refresh locks nothing and writes the attributes it has changed.         *)
(***************************************************************************)
EXTENDS Naturals, FiniteSets

CONSTANTS
  State,        \* OAuth states, one per start of an authorization
  Callback,     \* requests of GET /oauth/callback
  TokenJob,     \* jobs that build a client for a run with an identity
  NoState,      \* no state
  MaxIdentity   \* bound: identities

ASSUME DelegationAssumption == NoState \notin State /\ MaxIdentity \in Nat

VARIABLES
  oauth,        \* rows of the states
  callback,     \* the state each callback holds locked
  identities,   \* rows of the identities, by order of creation
  refresh,      \* the identity each job refreshes, 0 without one
  runIdentities,     \* runs' proofs: identities that a run was created with
  revokedOnce   \* history: identities whose revocation was committed

delegationVars == <<oauth, callback, identities, refresh, runIdentities, revokedOnce>>

Identity == 1..MaxIdentity
NoIdentity == [state |-> NoState, revoked |-> FALSE, fresh |-> FALSE]

DelegationTypeOK ==
  /\ oauth \in [State -> {"none", "open", "expired", "consumed"}]
  /\ callback \in [Callback -> State \union {NoState}]
  /\ identities \in
       [Identity -> [state : State \union {NoState}, revoked : BOOLEAN, fresh : BOOLEAN]]
  /\ refresh \in [TokenJob -> 0..MaxIdentity]
  /\ runIdentities \subseteq Identity /\ revokedOnce \subseteq Identity

DelegationInit ==
  /\ oauth = [s \in State |-> "none"] /\ callback = [c \in Callback |-> NoState]
  /\ identities = [i \in Identity |-> NoIdentity]
  /\ refresh = [j \in TokenJob |-> 0] /\ runIdentities = {} /\ revokedOnce = {}

Made(i) == identities[i].state # NoState

-----------------------------------------------------------------------------
(* Authorizing.                                                            *)

\* The user must be a member of the tenant.
StartAuthorization(s) ==
  /\ oauth[s] = "none" /\ oauth' = [oauth EXCEPT ![s] = "open"]
  /\ UNCHANGED <<callback, identities, refresh, runIdentities, revokedOnce>>

ExpireState(s) ==
  /\ oauth[s] = "open" /\ oauth' = [oauth EXCEPT ![s] = "expired"]
  /\ UNCHANGED <<callback, identities, refresh, runIdentities, revokedOnce>>

\* Faulty variant: the row is read without a lock.
StateUnlockedAlways(s) == TRUE

StateUnlocked(s) == \A c \in Callback : callback[c] # s

\* SELECT ... FOR UPDATE waits for the lock and reads the row after it; consumed_at is set in
\* memory. An invalid state is an error at once.
LockState(c, s) ==
  /\ callback[c] = NoState /\ StateUnlocked(s)
  /\ oauth[s] = "open"
  /\ callback' = [callback EXCEPT ![c] = s]
  /\ UNCHANGED <<oauth, identities, refresh, runIdentities, revokedOnce>>

\* The exchange has succeeded: the identity and the consumption are committed together.
CompleteAuthorization(c, i) ==
  /\ callback[c] # NoState
  /\ ~Made(i) /\ (i > 1 => Made(i - 1))
  /\ identities' = [identities EXCEPT ![i] =
       [state |-> callback[c], revoked |-> FALSE, fresh |-> TRUE]]
  /\ oauth' = [oauth EXCEPT ![callback[c]] = "consumed"]
  /\ callback' = [callback EXCEPT ![c] = NoState]
  /\ UNCHANGED <<refresh, runIdentities, revokedOnce>>

\* It has failed, or the process has died: the rollback keeps the state retryable.
AbandonAuthorization(c) ==
  /\ callback[c] # NoState /\ callback' = [callback EXCEPT ![c] = NoState]
  /\ UNCHANGED <<oauth, identities, refresh, runIdentities, revokedOnce>>

-----------------------------------------------------------------------------
(* Using an identity.                                                      *)

\* verify_for_run in create_fix_run: the proof fits and the identity is not revoked.
CreateDelegatedRun(i) ==
  /\ Made(i) /\ ~identities[i].revoked /\ runIdentities' = runIdentities \union {i}
  /\ UNCHANGED <<oauth, callback, identities, refresh, revokedOnce>>

ExpireToken(i) ==
  /\ Made(i) /\ identities[i].fresh
  /\ identities' = [identities EXCEPT ![i].fresh = FALSE]
  /\ UNCHANGED <<oauth, callback, refresh, runIdentities, revokedOnce>>

\* access_token refuses a revoked identity, returns a token that is fresh (which changes
\* nothing) and refreshes one that is not.
StartRefresh(j, i) ==
  /\ refresh[j] = 0 /\ i \in runIdentities
  /\ ~identities[i].revoked /\ ~identities[i].fresh
  /\ refresh' = [refresh EXCEPT ![j] = i]
  /\ UNCHANGED <<oauth, callback, identities, runIdentities, revokedOnce>>

\* Faulty variant: the whole row is written as it was read.
RefreshedRow(row) == [row EXCEPT !.fresh = TRUE, !.revoked = FALSE]

Refreshed(row) == [row EXCEPT !.fresh = TRUE]

EndRefresh(j) ==
  /\ refresh[j] # 0
  /\ identities' = [identities EXCEPT ![refresh[j]] = Refreshed(@)]
  /\ refresh' = [refresh EXCEPT ![j] = 0]
  /\ UNCHANGED <<oauth, callback, runIdentities, revokedOnce>>

RefreshFails(j) ==
  /\ refresh[j] # 0 /\ refresh' = [refresh EXCEPT ![j] = 0]
  /\ UNCHANGED <<oauth, callback, identities, runIdentities, revokedOnce>>

Revoke(i) ==
  /\ Made(i)
  /\ identities' = [identities EXCEPT ![i].revoked = TRUE]
  /\ revokedOnce' = revokedOnce \union {i}
  /\ UNCHANGED <<oauth, callback, refresh, runIdentities>>

DelegationNext ==
  \/ \E s \in State : StartAuthorization(s) \/ ExpireState(s)
  \/ \E c \in Callback :
       \/ \E s \in State : LockState(c, s)
       \/ \E i \in Identity : CompleteAuthorization(c, i)
       \/ AbandonAuthorization(c)
  \/ \E i \in Identity : CreateDelegatedRun(i) \/ ExpireToken(i) \/ Revoke(i)
  \/ \E j \in TokenJob :
       EndRefresh(j) \/ RefreshFails(j) \/ \E i \in Identity : StartRefresh(j, i)

DelegationSpec == DelegationInit /\ [][DelegationNext]_delegationVars

-----------------------------------------------------------------------------
(* Properties.                                                             *)

\* docs/mcp-tenancy.md:64: one consent makes at most one identity, although callbacks of the
\* same state overlap, fail and are repeated.
OneIdentityPerState ==
  \A i, k \in Identity :
    Made(i) /\ Made(k) /\ identities[i].state = identities[k].state => i = k

\* docs/mcp-tenancy.md:68: a revocation lasts, also when a refresh was under way; so no run
\* gets a token, fresh or refreshed, that it asks for later.
RevocationLasts == \A i \in revokedOnce : identities[i].revoked
=============================================================================
