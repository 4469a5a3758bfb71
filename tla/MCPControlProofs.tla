-------------------------- MODULE MCPControlProofs --------------------------
(***************************************************************************)
(* Proofs about what stands before a call to an MCP server: its circuit,   *)
(* for any number of attempts and executions; its quota, for any number of *)
(* calls, keys, edits and repairs; delegated identities, for any number of *)
(* states, callbacks, token jobs and identities; and the                   *)
(* credential of a registered server, for any number of secrets and of     *)
(* requests that write it.                                                 *)
(***************************************************************************)
EXTENDS CircuitBreaker, MCPQuota, Delegation, Registry, FiniteSetTheorems, TLAPS

-----------------------------------------------------------------------------
(* The circuit.                                                            *)

\* Why one trial is enough: at most one execution has a running lease; while the
\* circuit is half open it is the trial's, and a circuit that may be tried again
\* has waited for it.
TrialInv ==
  /\ \E e \in Execution \union {None} : leased \subseteq {e}
  /\ circuit = "half_open" => trial # None /\ leased \subseteq {trial}
  /\ circuit = "open" /\ ~manual /\ ~cooling => leased = {}

\* Manual opening clears the trial; nothing but an administrator leaves it.
CircuitInv == CircuitTypeOK /\ TrialInv /\ ManualIsOpen /\ ClosedIsHealthy

LEMMA CircuitInvHoldsInitially == CircuitInit => CircuitInv
  <1> SUFFICES ASSUME CircuitInit PROVE CircuitInv
    OBVIOUS
  <1>1. CircuitTypeOK
    BY DEF CircuitInit, CircuitTypeOK
  <1>2. TrialInv
    BY DEF CircuitInit, TrialInv
  <1> QED BY <1>1, <1>2, CircuitAssumption
          DEF CircuitInit, CircuitInv, ManualIsOpen, ClosedIsHealthy

\* Failures and successes of calls and probes; `flight' may shrink meanwhile.
LEMMA OutcomeStep ==
  ASSUME CircuitInv, Success \/ Failure,
         flight' \in [Attempt -> [exec : Execution, kind : Kind] \union {None}]
  PROVE  CircuitInv'
  <1> USE CircuitAssumption
  <1>1. /\ CircuitTypeOK /\ ManualIsOpen /\ ClosedIsHealthy
        /\ \E e \in Execution \union {None} : leased \subseteq {e}
        /\ circuit = "half_open" => trial # None /\ leased \subseteq {trial}
        /\ circuit = "open" /\ ~manual /\ ~cooling => leased = {}
    BY DEF CircuitInv, TrialInv
  <1>2. CASE Success
    <2>1. CircuitTypeOK'
      BY <1>1, <1>2 DEF Success, CloseUnlessManual, CircuitTypeOK
    <2>2. UNCHANGED <<manual, leased>> /\ failures' = 0
      BY <1>2 DEF Success
    <2>3. \/ manual /\ UNCHANGED <<circuit, cooling, trial>>
          \/ ~manual /\ circuit' = "closed" /\ cooling' = FALSE /\ trial' = None
      BY <1>2 DEF Success, CloseUnlessManual
    <2>4. TrialInv'
      BY <1>1, <2>2, <2>3 DEF TrialInv
    <2>5. ManualIsOpen' /\ ClosedIsHealthy'
      BY <1>1, <2>2, <2>3 DEF ManualIsOpen, ClosedIsHealthy
    <2> QED BY <2>1, <2>4, <2>5 DEF CircuitInv
  <1>3. CASE Failure
    <2>2. UNCHANGED <<manual, leased>> /\ failures' = failures + 1
      BY <1>3 DEF Failure
    <2>3. \/ ~manual /\ circuit' = "open" /\ cooling' = TRUE /\ trial' = None
          \/ /\ manual \/ (circuit # "half_open" /\ ~(failures' >= Threshold))
             /\ UNCHANGED <<circuit, cooling, trial>>
      BY <1>3 DEF Failure, Trips
    <2>1. CircuitTypeOK'
      <3>1. failures' \in Nat /\ manual' \in BOOLEAN /\ leased' \subseteq Execution
        BY <1>1, <2>2 DEF CircuitTypeOK
      <3>2. CASE circuit' = "open" /\ cooling' = TRUE /\ trial' = None
        BY <3>1, <3>2 DEF CircuitTypeOK
      <3>3. CASE UNCHANGED <<circuit, cooling, trial>>
        BY <1>1, <3>1, <3>3 DEF CircuitTypeOK
      <3> QED BY <2>3, <3>2, <3>3
    <2>4. TrialInv'
      BY <1>1, <2>2, <2>3 DEF TrialInv
    <2>5. ManualIsOpen'
      BY <1>1, <2>2, <2>3 DEF ManualIsOpen
    <2>6. ClosedIsHealthy'
      BY <1>1, <2>2, <2>3 DEF ManualIsOpen, ClosedIsHealthy, CircuitTypeOK
    <2> QED BY <2>1, <2>4, <2>5, <2>6 DEF CircuitInv
  <1> QED BY <1>2, <1>3

LEMMA CircuitStep == CircuitInv /\ [CircuitNext]_circuitVars => CircuitInv'
  <1> SUFFICES ASSUME CircuitInv, [CircuitNext]_circuitVars PROVE CircuitInv'
    OBVIOUS
  <1> USE CircuitAssumption
  <1>1. \A a \in Attempt :
          Return(a) => flight' \in [Attempt -> [exec : Execution, kind : Kind] \union {None}]
    BY DEF Return, CircuitInv, CircuitTypeOK
  <1>2. ASSUME NEW a \in Attempt, NEW e \in Execution, AdmitClosed(a, e)
        PROVE  CircuitInv'
    BY <1>2 DEF AdmitClosed, Depart, Kind, CircuitInv, CircuitTypeOK, TrialInv, ManualIsOpen,
                ClosedIsHealthy
  <1>3. ASSUME NEW a \in Attempt, NEW e \in Execution, AdmitTrial(a, e)
        PROVE  CircuitInv'
    <2>1. leased \subseteq {e} /\ ~manual
      BY <1>3 DEF AdmitTrial, CooledDown, TrialTaken, CircuitInv, TrialInv, ManualIsOpen
    <2>2. CircuitTypeOK'
      BY <1>3 DEF AdmitTrial, Depart, Kind, CircuitInv, CircuitTypeOK
    <2> QED BY <1>3, <2>1, <2>2
            DEF AdmitTrial, CircuitInv, TrialInv, ManualIsOpen, ClosedIsHealthy
  <1>4. ASSUME NEW a \in Attempt, CallSucceeds(a) \/ CallFails(a) PROVE CircuitInv'
    BY <1>1, <1>4, OutcomeStep DEF CallSucceeds, CallFails
  <1>5. ASSUME NEW a \in Attempt, CallerCrash(a) PROVE CircuitInv'
    BY <1>1, <1>5 DEF CallerCrash, CircuitInv, CircuitTypeOK, TrialInv, ManualIsOpen,
              ClosedIsHealthy
  <1>6. CASE ProbeSucceeds \/ ProbeFails
    BY <1>6, OutcomeStep DEF ProbeSucceeds, ProbeFails, CircuitInv, CircuitTypeOK
  <1>7. CASE OpenManually
    BY <1>7 DEF OpenManually, CircuitInv, CircuitTypeOK, TrialInv, ManualIsOpen, ClosedIsHealthy
  <1>8. CASE CloseManually
    <2>1. CircuitTypeOK'
      BY <1>8 DEF CloseManually, Closed, CircuitInv, CircuitTypeOK
    <2>2. /\ circuit' = "closed" /\ failures' = 0 /\ manual' = FALSE
          /\ UNCHANGED leased
      BY <1>8 DEF CloseManually, Closed
    <2> QED BY <2>1, <2>2 DEF CircuitInv, TrialInv, ManualIsOpen, ClosedIsHealthy
  <1>9. CASE CooldownEnds
    BY <1>9 DEF CooldownEnds, CircuitInv, CircuitTypeOK, TrialInv, ManualIsOpen, ClosedIsHealthy
  <1>10. ASSUME NEW e \in Execution, LeaseEnds(e) PROVE CircuitInv'
    BY <1>10 DEF LeaseEnds, CircuitInv, CircuitTypeOK, TrialInv, ManualIsOpen, ClosedIsHealthy
  <1>11. CASE UNCHANGED circuitVars
    BY <1>11 DEF circuitVars, CircuitInv, CircuitTypeOK, TrialInv, ManualIsOpen, ClosedIsHealthy
  <1> QED BY <1>2, <1>3, <1>4, <1>5, <1>6, <1>7, <1>8, <1>9, <1>10, <1>11 DEF CircuitNext

\* A subset of a singleton has at most one element.
LEMMA AtMostOne ==
  ASSUME NEW S, NEW e, S \subseteq {e}
  PROVE  Cardinality(S) <= 1
  <1>1. S = {} \/ S = {e}
    OBVIOUS
  <1>2. Cardinality({}) = 0
    BY FS_EmptySet
  <1>3. Cardinality({e}) = 1
    BY FS_Singleton
  <1> QED BY <1>1, <1>2, <1>3

\* In every history of the circuit at most one execution is on trial under a
\* running half-open lease, however late answers, probes and administrators mix.
THEOREM OneTrialAtATime == CircuitSpec => []OneLeasedTrial
  <1>1. CircuitInv => OneLeasedTrial
    <2> SUFFICES ASSUME CircuitInv PROVE OneLeasedTrial
      OBVIOUS
    <2>1. PICK e : leased \subseteq {e}
      BY DEF CircuitInv, TrialInv
    <2>2. Trying \subseteq {e}
      BY <2>1 DEF Trying
    <2> QED BY <2>2, AtMostOne DEF OneLeasedTrial
  <1> QED BY <1>1, CircuitInvHoldsInitially, CircuitStep, PTL DEF CircuitSpec

\* A manually opened circuit is never half open, never closed and never on trial.
THEOREM ManualOpeningHolds == CircuitSpec => []ManualIsOpen
  <1>1. CircuitInv => ManualIsOpen
    BY DEF CircuitInv
  <1> QED BY <1>1, CircuitInvHoldsInitially, CircuitStep, PTL DEF CircuitSpec

\* A closed circuit always counts fewer consecutive failures than its threshold.
THEOREM ClosedCircuitIsHealthy == CircuitSpec => []ClosedIsHealthy
  <1>1. CircuitInv => ClosedIsHealthy
    BY DEF CircuitInv
  <1> QED BY <1>1, CircuitInvHoldsInitially, CircuitStep, PTL DEF CircuitSpec

-----------------------------------------------------------------------------
(* Delegated identities and the credential.                                *)

Row == [state : State \union {NoState}, revoked : BOOLEAN, fresh : BOOLEAN]

RowTypes ==
  /\ oauth \in [State -> {"none", "open", "expired", "consumed"}]
  /\ callback \in [Callback -> State \union {NoState}]
  /\ identities \in [Identity -> Row]
  /\ refresh \in [TokenJob -> 0..MaxIdentity]
  /\ revokedOnce \subseteq Identity

\* The lock: a callback holds a state of its own, which nobody has consumed.
LockIsExclusive ==
  /\ \A c \in Callback : callback[c] # NoState => oauth[callback[c]] \in {"open", "expired"}
  /\ \A c, d \in Callback : callback[c] # NoState /\ callback[c] = callback[d] => c = d

\* An identity and the consumption of its state are committed together.
StatesAreConsumed == \A i \in Identity : Made(i) => oauth[identities[i].state] = "consumed"

\* What was revoked was there, and is revoked.
RevokedAreMade == \A i \in revokedOnce : Made(i) /\ identities[i].revoked

DelegationInv ==
  RowTypes /\ LockIsExclusive /\ StatesAreConsumed /\ OneIdentityPerState /\ RevokedAreMade

LEMMA DelegationInitInv == DelegationInit => DelegationInv
  <1> SUFFICES ASSUME DelegationInit PROVE DelegationInv
    OBVIOUS
  <1>1. NoIdentity \in Row /\ NoIdentity.state = NoState
    BY DEF NoIdentity, Row
  <1>2. 0 \in 0..MaxIdentity
    BY DelegationAssumption
  <1>3. RowTypes
    BY <1>1, <1>2 DEF DelegationInit, RowTypes
  <1>4. \A i \in Identity : ~Made(i)
    BY <1>1 DEF DelegationInit, Made
  <1>5. QED
    BY <1>3, <1>4
       DEF DelegationInit, DelegationInv, LockIsExclusive, StatesAreConsumed,
           OneIdentityPerState, RevokedAreMade

\* The rows of the states and the locks change together with one state at most.
LEMMA AuthorizingKeepsInv ==
  ASSUME DelegationInv,
         \/ \E s \in State : StartAuthorization(s) \/ ExpireState(s)
         \/ \E c \in Callback : AbandonAuthorization(c) \/ \E s \in State : LockState(c, s)
  PROVE  DelegationInv'
  <1> USE DEF DelegationInv
  <1>1. identities' = identities /\ refresh' = refresh /\ revokedOnce' = revokedOnce
    BY DEF StartAuthorization, ExpireState, AbandonAuthorization, LockState
  <1>2. OneIdentityPerState' /\ RevokedAreMade'
    BY <1>1 DEF OneIdentityPerState, RevokedAreMade, Made
  <1>3. ASSUME NEW s \in State, StartAuthorization(s) \/ ExpireState(s)
        PROVE  RowTypes' /\ LockIsExclusive' /\ StatesAreConsumed'
    <2>1. PICK status \in {"open", "expired"} :
            /\ oauth' = [oauth EXCEPT ![s] = status] /\ callback' = callback
            /\ oauth[s] \in {"none", "open"}
            /\ oauth[s] = "none" => status = "open"
      BY <1>3 DEF StartAuthorization, ExpireState
    <2>2. RowTypes'
      BY <1>1, <2>1 DEF RowTypes
    <2>3. LockIsExclusive'
      BY <2>1 DEF RowTypes, LockIsExclusive
    <2>4. \A i \in Identity : Made(i) => identities[i].state \in State
      BY DEF RowTypes, Row, Made
    <2>5. StatesAreConsumed'
      BY <1>1, <2>1, <2>4 DEF RowTypes, StatesAreConsumed, Made
    <2>6. QED
      BY <2>2, <2>3, <2>5
  <1>4. ASSUME NEW c \in Callback, NEW s \in State, LockState(c, s)
        PROVE  RowTypes' /\ LockIsExclusive' /\ StatesAreConsumed'
    <2>1. /\ callback' = [callback EXCEPT ![c] = s] /\ oauth' = oauth
          /\ oauth[s] = "open" /\ \A d \in Callback : callback[d] # s
      BY <1>4 DEF LockState, StateUnlocked
    <2>2. QED
      BY <1>1, <2>1 DEF RowTypes, LockIsExclusive, StatesAreConsumed, Made
  <1>5. ASSUME NEW c \in Callback, AbandonAuthorization(c)
        PROVE  RowTypes' /\ LockIsExclusive' /\ StatesAreConsumed'
    BY <1>1, <1>5
       DEF AbandonAuthorization, RowTypes, LockIsExclusive, StatesAreConsumed, Made
  <1>6. QED
    BY <1>2, <1>3, <1>4, <1>5

LEMMA CompletionKeepsInv ==
  ASSUME DelegationInv, NEW c \in Callback, NEW i \in Identity, CompleteAuthorization(c, i)
  PROVE  DelegationInv'
  <1> USE DEF DelegationInv
  <1> DEFINE s == callback[c]
  <1>1. /\ s \in State /\ s # NoState /\ oauth[s] # "consumed"
        /\ ~Made(i) /\ refresh' = refresh /\ revokedOnce' = revokedOnce
        /\ identities' = [identities EXCEPT ![i] =
             [state |-> s, revoked |-> FALSE, fresh |-> TRUE]]
        /\ oauth' = [oauth EXCEPT ![s] = "consumed"]
        /\ callback' = [callback EXCEPT ![c] = NoState]
    BY DEF CompleteAuthorization, RowTypes, LockIsExclusive
  <1>2. [state |-> s, revoked |-> FALSE, fresh |-> TRUE] \in Row
    BY <1>1 DEF Row
  <1>3. RowTypes'
    BY <1>1, <1>2 DEF RowTypes
  <1>4. /\ identities'[i].state = s
        /\ \A k \in Identity : k # i => identities'[k] = identities[k]
    BY <1>1 DEF RowTypes
  <1>5. LockIsExclusive'
    BY <1>1 DEF RowTypes, LockIsExclusive
  <1>6. \A k \in Identity : Made(k) => identities[k].state \in State /\ identities[k].state # s
    BY <1>1 DEF RowTypes, Row, Made, StatesAreConsumed
  <1>7. StatesAreConsumed'
    BY <1>1, <1>4, <1>6 DEF RowTypes, StatesAreConsumed, Made
  <1>8. OneIdentityPerState'
    BY <1>1, <1>4, <1>6 DEF OneIdentityPerState, Made
  <1>9. RevokedAreMade'
    BY <1>1, <1>4 DEF RowTypes, RevokedAreMade, Made
  <1>10. QED
    BY <1>3, <1>5, <1>7, <1>8, <1>9

\* Using, refreshing and revoking leave alone whom an identity is for.
LEMMA UseKeepsInv ==
  ASSUME DelegationInv, oauth' = oauth, callback' = callback, identities' \in [Identity -> Row],
         \A i \in Identity : identities'[i].state = identities[i].state,
         \A i \in Identity : identities[i].revoked => identities'[i].revoked,
         refresh' \in [TokenJob -> 0..MaxIdentity], revokedOnce' \subseteq Identity,
         \A i \in revokedOnce' : i \in revokedOnce \/ (Made(i) /\ identities'[i].revoked)
  PROVE  DelegationInv'
  <1>1. RowTypes' /\ LockIsExclusive'
    BY DEF DelegationInv, RowTypes, LockIsExclusive
  <1>2. StatesAreConsumed' /\ OneIdentityPerState' /\ RevokedAreMade'
    BY DEF DelegationInv, RowTypes, StatesAreConsumed, OneIdentityPerState, RevokedAreMade, Made
  <1>3. QED
    BY <1>1, <1>2 DEF DelegationInv

LEMMA UsingKeepsInv ==
  ASSUME DelegationInv,
         \/ \E i \in Identity : CreateDelegatedRun(i) \/ ExpireToken(i) \/ Revoke(i)
         \/ \E j \in TokenJob :
              EndRefresh(j) \/ RefreshFails(j) \/ \E i \in Identity : StartRefresh(j, i)
  PROVE  DelegationInv'
  <1>1. 0 \in 0..MaxIdentity /\ Identity \subseteq 0..MaxIdentity
    BY DelegationAssumption DEF Identity
  <1>2. RowTypes /\ RevokedAreMade
    BY DEF DelegationInv
  <1>3. ASSUME NEW i \in Identity, CreateDelegatedRun(i)
        PROVE  DelegationInv'
    BY <1>2, <1>3, UseKeepsInv DEF CreateDelegatedRun, RowTypes
  <1>4. ASSUME NEW i \in Identity, ExpireToken(i)
        PROVE  DelegationInv'
    <2>1. /\ identities' = [identities EXCEPT ![i].fresh = FALSE]
          /\ oauth' = oauth /\ callback' = callback /\ refresh' = refresh
          /\ revokedOnce' = revokedOnce
      BY <1>4 DEF ExpireToken
    <2>2. /\ identities' \in [Identity -> Row]
          /\ \A k \in Identity : /\ identities'[k].state = identities[k].state
                                 /\ identities'[k].revoked = identities[k].revoked
      BY <1>2, <2>1 DEF RowTypes, Row
    <2>3. QED
      BY <1>2, <2>1, <2>2, UseKeepsInv DEF RowTypes
  <1>5. ASSUME NEW i \in Identity, Revoke(i)
        PROVE  DelegationInv'
    <2>1. /\ identities' = [identities EXCEPT ![i].revoked = TRUE] /\ Made(i)
          /\ oauth' = oauth /\ callback' = callback /\ refresh' = refresh
          /\ revokedOnce' = revokedOnce \union {i}
      BY <1>5 DEF Revoke
    <2>2. /\ identities' \in [Identity -> Row]
          /\ \A k \in Identity : /\ identities'[k].state = identities[k].state
                                 /\ identities[k].revoked => identities'[k].revoked
          /\ identities'[i].revoked
      BY <1>2, <2>1 DEF RowTypes, Row
    <2>3. QED
      BY <1>2, <2>1, <2>2, UseKeepsInv DEF RowTypes
  <1>6. ASSUME NEW j \in TokenJob, EndRefresh(j)
        PROVE  DelegationInv'
    <2>1. /\ identities' = [identities EXCEPT ![refresh[j]] = [@ EXCEPT !.fresh = TRUE]]
          /\ oauth' = oauth /\ callback' = callback
          /\ refresh' = [refresh EXCEPT ![j] = 0] /\ revokedOnce' = revokedOnce
          /\ refresh[j] \in Identity
      BY <1>2, <1>6, DelegationAssumption DEF EndRefresh, Refreshed, RowTypes, Identity
    <2>2. /\ identities' \in [Identity -> Row]
          /\ \A k \in Identity : /\ identities'[k].state = identities[k].state
                                 /\ identities'[k].revoked = identities[k].revoked
      BY <1>2, <2>1 DEF RowTypes, Row
    <2>3. QED
      BY <1>1, <1>2, <2>1, <2>2, UseKeepsInv DEF RowTypes
  <1>7. ASSUME NEW j \in TokenJob, RefreshFails(j)
        PROVE  DelegationInv'
    BY <1>1, <1>2, <1>7, UseKeepsInv DEF RefreshFails, RowTypes
  <1>8. ASSUME NEW j \in TokenJob, NEW i \in Identity, StartRefresh(j, i)
        PROVE  DelegationInv'
    BY <1>1, <1>2, <1>8, UseKeepsInv DEF StartRefresh, RowTypes
  <1>9. QED
    BY <1>3, <1>4, <1>5, <1>6, <1>7, <1>8

LEMMA DelegationStep == DelegationInv /\ [DelegationNext]_delegationVars => DelegationInv'
  <1> SUFFICES ASSUME DelegationInv, [DelegationNext]_delegationVars PROVE DelegationInv'
    OBVIOUS
  <1>1. CASE UNCHANGED delegationVars
    BY <1>1, UseKeepsInv DEF delegationVars, DelegationInv, RowTypes
  <1>2. QED
    BY <1>1, AuthorizingKeepsInv, CompletionKeepsInv, UsingKeepsInv DEF DelegationNext

LEMMA DelegationInvHolds == DelegationSpec => []DelegationInv
  BY DelegationInitInv, DelegationStep, PTL DEF DelegationSpec

\* One consent makes at most one identity (the row lock and the common commit of the
\* callback).
THEOREM ConsentMakesOneIdentity == DelegationSpec => []OneIdentityPerState
  <1>1. DelegationInv => OneIdentityPerState
    BY DEF DelegationInv
  <1>2. QED
    BY <1>1, DelegationInvHolds, PTL

\* A revocation lasts (a refresh writes only what it has changed).
THEOREM RevokedStaysRevoked == DelegationSpec => []RevocationLasts
  <1>1. DelegationInv => RevocationLasts
    BY DEF DelegationInv, RevokedAreMade, RevocationLasts
  <1>2. QED
    BY <1>1, DelegationInvHolds, PTL

-----------------------------------------------------------------------------
(* The credential of a server.                                             *)

FitRow == {row \in Stored : row.token \in {Nil, row.secret}}

\* What is stored, and what was read and may be written back, fits.
CredentialTypes ==
  /\ credential \in FitRow \union {Nil} /\ reading \in [Exchanger -> FitRow \union {Nil}]
  /\ rotations \in Nat

\* Rows are numbered in the order they are created, so a number never comes back.
RowsAreOld ==
  /\ credential # Nil => credential.row <= rotations
  /\ \A x \in Exchanger : reading[x] # Nil => reading[x].row <= rotations

\* The secret of the row there is, and any that was read from this row, was set in it.
SecretsAreGiven ==
  /\ credential # Nil => credential.secret \in given
  /\ \A x \in Exchanger : reading[x] # Nil /\ SameRow(reading[x]) => reading[x].secret \in given

CredentialInv == CredentialTypes /\ RowsAreOld /\ SecretsAreGiven

LEMMA FittingRow ==
  ASSUME NEW row \in Nat, NEW version \in Nat, NEW secret \in Secret, NEW token \in {Nil, secret}
  PROVE  [row |-> row, version |-> version, secret |-> secret, token |-> token] \in FitRow
  BY DEF FitRow, Stored

LEMMA WriteBackFits ==
  ASSUME CredentialInv, NEW x \in Exchanger, reading[x] # Nil,
         NEW secret \in Secret, NEW token \in {Nil, secret}, WriteBack(x, secret, token),
         given \subseteq given', SameRow(reading[x]) => secret \in given'
  PROVE  CredentialInv'
  <1>1. reading' \in [Exchanger -> FitRow \union {Nil}]
    BY DEF CredentialInv, CredentialTypes, WriteBack
  <1>2. reading[x].row \in Nat /\ reading[x].version + 1 \in Nat
    BY DEF CredentialInv, CredentialTypes, FitRow, Stored
  <1>3. \A y \in Exchanger : reading'[y] # Nil => reading'[y] = reading[y]
    BY DEF CredentialInv, CredentialTypes, WriteBack
  <1>4. CASE SameRow(reading[x])
    <2>1. /\ credential' = [row |-> reading[x].row, version |-> reading[x].version + 1,
                            secret |-> secret, token |-> token]
          /\ rotations' = rotations + 1 /\ credential # Nil /\ credential.row = reading[x].row
      BY <1>4 DEF WriteBack, SameRow
    <2>2. credential' \in FitRow
      BY <1>2, <2>1, FittingRow
    <2>3. CredentialTypes'
      BY <1>1, <2>1, <2>2 DEF CredentialInv, CredentialTypes
    <2>4. credential'.row = credential.row /\ credential'.secret = secret
      BY <2>1
    <2>5. \A y \in Exchanger : reading[y] # Nil => reading[y].row \in Nat
      BY DEF CredentialInv, CredentialTypes, FitRow, Stored
    <2>6. RowsAreOld'
      BY <1>2, <1>3, <2>1, <2>4, <2>5 DEF CredentialInv, CredentialTypes, RowsAreOld
    <2>7. SecretsAreGiven'
      BY <1>3, <1>4, <2>1, <2>4 DEF CredentialInv, SecretsAreGiven, SameRow
    <2>8. QED
      BY <2>3, <2>6, <2>7 DEF CredentialInv
  <1>5. CASE ~SameRow(reading[x])
    <2>1. credential' = credential /\ rotations' = rotations
      BY <1>5 DEF WriteBack
    <2>2. CredentialTypes' /\ RowsAreOld'
      BY <1>1, <1>3, <2>1 DEF CredentialInv, CredentialTypes, RowsAreOld
    <2>3. SecretsAreGiven'
      BY <1>3, <2>1 DEF CredentialInv, SecretsAreGiven, SameRow
    <2>4. QED
      BY <2>2, <2>3 DEF CredentialInv
  <1>6. QED
    BY <1>4, <1>5

LEMMA CreateFits ==
  ASSUME CredentialInv, NEW secret \in Secret, CreateCredential(secret)
  PROVE  CredentialInv'
  <1>1. rotations' = rotations + 1 /\ rotations \in Nat /\ reading' = reading /\ given' = {secret}
    BY DEF CreateCredential, CredentialInv, CredentialTypes
  <1>2. credential' = [row |-> rotations', version |-> 1, secret |-> secret, token |-> Nil]
    BY DEF CreateCredential
  <1>3. credential' \in FitRow
    <2>1. rotations' \in Nat /\ 1 \in Nat
      BY <1>1
    <2>2. QED
      BY <1>2, <2>1, FittingRow
  <1>4. credential'.row = rotations' /\ credential'.secret = secret
    BY <1>2
  <1>5. \A x \in Exchanger : reading[x] # Nil => reading[x].row \in Nat
    BY DEF CredentialInv, CredentialTypes, FitRow, Stored
  <1>6. CredentialTypes'
    BY <1>1, <1>3 DEF CredentialInv, CredentialTypes
  <1>7. RowsAreOld'
    BY <1>1, <1>4, <1>5 DEF CredentialInv, RowsAreOld
  <1>8. ASSUME NEW x \in Exchanger, reading[x] # Nil
        PROVE  reading[x].row # credential'.row
    BY <1>1, <1>4, <1>5, <1>8 DEF CredentialInv, RowsAreOld
  <1>9. SecretsAreGiven'
    BY <1>1, <1>4, <1>8 DEF SecretsAreGiven, SameRow
  <1>10. QED
    BY <1>6, <1>7, <1>9 DEF CredentialInv

LEMMA CredentialStep == CredentialInv /\ [RegistryNext]_registryVars => CredentialInv'
  <1> SUFFICES ASSUME CredentialInv, [RegistryNext]_registryVars PROVE CredentialInv'
    OBVIOUS
  <1>1. ASSUME NEW x \in Exchanger, reading[x] # Nil
        PROVE  reading[x].secret \in Secret /\ reading[x].token \in {Nil, reading[x].secret}
    BY <1>1 DEF CredentialInv, CredentialTypes, FitRow, Stored
  <1>2. ASSUME NEW x \in Exchanger, EndExchange(x) \/ EndRewrap(x)
        PROVE  CredentialInv'
    <2>1. reading[x] # Nil /\ given' = given
      BY <1>2 DEF EndExchange, EndRewrap
    <2>2. SameRow(reading[x]) => reading[x].secret \in given'
      BY <2>1 DEF CredentialInv, SecretsAreGiven
    <2>3. QED
      BY <1>1, <1>2, <2>1, <2>2, WriteBackFits DEF EndExchange, EndRewrap
  <1>3. ASSUME NEW x \in Exchanger, NEW secret \in Secret, RotateCredential(x, secret)
        PROVE  CredentialInv'
    <2>1. reading[x] # Nil /\ WriteBack(x, secret, Nil)
      BY <1>3 DEF RotateCredential
    <2>2. given \subseteq given' /\ (SameRow(reading[x]) => secret \in given')
      BY <1>3 DEF RotateCredential
    <2>3. QED
      BY <2>1, <2>2, WriteBackFits
  <1>4. ASSUME NEW x \in Exchanger, ReadCredential(x) \/ StopReading(x)
        PROVE  CredentialInv'
    <2>1. /\ UNCHANGED <<credential, rotations, given>>
          /\ reading' \in [Exchanger -> FitRow \union {Nil}]
          /\ \A y \in Exchanger : reading'[y] \in {reading[y], credential, Nil}
      BY <1>4 DEF ReadCredential, StopReading, CredentialInv, CredentialTypes
    <2>2. CredentialTypes' /\ RowsAreOld'
      BY <2>1 DEF CredentialInv, CredentialTypes, RowsAreOld
    <2>3. SecretsAreGiven'
      BY <2>1 DEF CredentialInv, SecretsAreGiven, SameRow
    <2>4. QED
      BY <2>2, <2>3 DEF CredentialInv
  <1>5. ASSUME UNCHANGED <<reading, rotations>>,
               credential' = Nil \/ UNCHANGED <<credential, given>>
        PROVE  CredentialInv'
    BY <1>5 DEF CredentialInv, CredentialTypes, RowsAreOld, SecretsAreGiven, SameRow
  <1>6. ASSUME NEW expected \in 1..MaxRevisions,
               \/ \E config \in Config : UpdateServer(config, expected)
               \/ \E i \in DOMAIN revisions : RestoreRevision(i, expected)
               \/ DeleteServer(expected)
        PROVE  CredentialInv'
    BY <1>5, <1>6 DEF UpdateServer, RestoreRevision, Change, DeleteServer
  <1>7. ASSUME NEW v \in Validator,
               StartValidation(v) \/ \E verdict \in {"valid", "invalid"} : EndValidation(v, verdict)
        PROVE  CredentialInv'
    BY <1>5, <1>7 DEF StartValidation, EndValidation
  <1>8. CASE DeleteCredential \/ UNCHANGED registryVars
    BY <1>5, <1>8 DEF DeleteCredential, registryVars
  <1>9. QED
    BY <1>2, <1>3, <1>4, <1>6, <1>7, <1>8, CreateFits DEF RegistryNext

\* A deleted credential stays deleted: a token exchange, a rewrap or a rotation begun before
\* writes to the id it has read, which no later credential of the server has, so what the row
\* holds was set in it by a request, with a token that was obtained for it.
THEOREM DeletedCredentialStaysDeleted == RegistrySpec => []DeletedSecretIsGone
  <1>1. RegistryInit => CredentialInv
    BY DEF RegistryInit, CredentialInv, CredentialTypes, RowsAreOld, SecretsAreGiven
  <1>2. CredentialInv => DeletedSecretIsGone
    BY DEF CredentialInv, CredentialTypes, SecretsAreGiven, FitRow, DeletedSecretIsGone
  <1>3. QED
    BY <1>1, <1>2, CredentialStep, PTL DEF RegistrySpec

-----------------------------------------------------------------------------
(* The history of a server.                                                *)

AnyRevision ==
  [version : Nat, action : {"create", "update", "restore", "validate"}, config : Config]

RegistrationTypes ==
  /\ registration \in Registered \union {Nil}
  /\ revisions \in Seq(AnyRevision) /\ accepted \in Seq(Config)
  /\ validation \in [Validator -> Registered \union {Nil}]

HistoryInv == RegistrationTypes /\ HistoryIsComplete

\* What a request adds to the history is what the row is set to.
LEMMA RequestRecorded ==
  ASSUME NEW history \in Seq(AnyRevision), NEW configs \in Seq(Config), NEW r \in AnyRevision,
         Records(history, configs), r.action # "validate"
  PROVE  Records(Append(history, r), Append(configs, r.config))
  <1> DEFINE longer == Append(history, r)
             n == Len(history) + 1
             old == ByRequest(history)
  <1>1. /\ Len(history) \in Nat /\ DOMAIN longer = 1..n /\ DOMAIN history = 1..Len(history)
        /\ longer[n] = r /\ \A i \in 1..Len(history) : longer[i] = history[i]
    OBVIOUS
  <1>2. ByRequest(longer) = old \union {n} /\ n \notin old
    BY <1>1 DEF ByRequest
  <1>3. IsFiniteSet(old) /\ Cardinality(old) = Len(configs)
    <2>1. IsFiniteSet(1..Len(history)) /\ old \in SUBSET (1..Len(history))
      BY <1>1, FS_Interval DEF ByRequest
    <2> QED BY <2>1, FS_Subset DEF Records
  <1>4. Cardinality(ByRequest(longer)) = Len(configs) + 1
    BY <1>2, <1>3, FS_AddElement
  <1>5. ASSUME NEW i \in ByRequest(longer)
        PROVE  longer[i].config =
                 Append(configs, r.config)[Cardinality({k \in ByRequest(longer) : k <= i})]
    <2>1. CASE i = n
      <3>1. {k \in ByRequest(longer) : k <= i} = ByRequest(longer)
        BY <1>1, <2>1 DEF ByRequest
      <3>2. r.config \in Config
        BY DEF AnyRevision
      <3>3. Append(configs, r.config)[Len(configs) + 1] = r.config
        BY <3>2
      <3>4. Cardinality({k \in ByRequest(longer) : k <= i}) = Len(configs) + 1
        BY <1>4, <3>1
      <3> HIDE DEF longer
      <3> QED BY <1>1, <2>1, <3>3, <3>4
    <2>2. CASE i # n
      <3> DEFINE below == {k \in old : k <= i}
      <3>1. i \in old /\ i < n /\ i \in 1..Len(history) /\ longer[i] = history[i]
        BY <1>1, <1>2, <2>2 DEF ByRequest
      <3>2. {k \in ByRequest(longer) : k <= i} = below
        <4>1. ~(n <= i)
          BY <1>1, <3>1
        <4> HIDE DEF longer, n, old
        <4> QED BY <1>2, <4>1, Zenon
      <3>3. below \in SUBSET old /\ i \in below
        BY <1>1, <3>1 DEF ByRequest
      <3>4. /\ IsFiniteSet(below) /\ Cardinality(below) \in Nat
            /\ Cardinality(below) <= Len(configs) /\ Cardinality(below) # 0
        <4> HIDE DEF below, old
        <4>1. IsFiniteSet(below) /\ Cardinality(below) <= Cardinality(old)
          BY <1>3, <3>3, FS_Subset
        <4> QED BY <1>3, <3>3, <4>1, FS_CardinalityType, FS_EmptySet
      <3>5. Append(configs, r.config)[Cardinality(below)] = configs[Cardinality(below)]
        <4> HIDE DEF below
        <4> QED BY <3>4
      <3>6. history[i].config = configs[Cardinality(below)]
        BY <3>1 DEF Records
      <3> QED BY <3>1, <3>2, <3>5, <3>6
    <2> QED BY <2>1, <2>2
  <1>6. Len(Append(configs, r.config)) = Len(configs) + 1
    OBVIOUS
  <1> QED BY <1>4, <1>5, <1>6 DEF Records

\* The revision of a validation does not count.
LEMMA ValidationRecorded ==
  ASSUME NEW history \in Seq(AnyRevision), NEW configs, NEW r \in AnyRevision,
         Records(history, configs), r.action = "validate"
  PROVE  Records(Append(history, r), configs)
  <1>1. /\ Len(history) \in Nat /\ DOMAIN Append(history, r) = 1..(Len(history) + 1)
        /\ DOMAIN history = 1..Len(history) /\ Append(history, r)[Len(history) + 1] = r
        /\ \A i \in 1..Len(history) : Append(history, r)[i] = history[i]
    OBVIOUS
  <1>2. ByRequest(Append(history, r)) = ByRequest(history)
    BY <1>1 DEF ByRequest
  <1>3. \A i \in ByRequest(history) : Append(history, r)[i] = history[i]
    BY <1>1 DEF ByRequest
  <1> QED BY <1>2, <1>3 DEF Records

LEMMA HistoryInit == RegistryInit => HistoryInv
  <1> SUFFICES ASSUME RegistryInit PROVE HistoryInv
    OBVIOUS
  <1>1. PICK config \in Config :
          /\ registration = [version |-> 1, config |-> config, status |-> "unvalidated"]
          /\ revisions = <<Revision(1, "create", config)>> /\ accepted = <<config>>
    BY DEF RegistryInit
  <1>2. RegistrationTypes
    BY <1>1 DEF RegistryInit, RegistrationTypes, Registered, Revision, AnyRevision
  <1>3. ByRequest(revisions) = {1}
    BY <1>1 DEF ByRequest, Revision
  <1>4. Records(revisions, accepted)
    <2>1. Len(accepted) = 1 /\ accepted[1] = config /\ revisions[1].config = config
      BY <1>1 DEF Revision
    <2>2. {k \in {1} : k <= 1} = {1}
      OBVIOUS
    <2>3. Cardinality({1}) = 1
      BY FS_Singleton
    <2> QED BY <1>3, <2>1, <2>2, <2>3 DEF Records
  <1>5. registration.config = accepted[Len(accepted)]
    BY <1>1
  <1> QED BY <1>2, <1>4, <1>5 DEF HistoryInv, HistoryIsComplete

LEMMA ChangeRecorded ==
  ASSUME HistoryInv, NEW config \in Config, NEW expected \in Nat,
         NEW action \in {"update", "restore"}, Change(config, expected, action)
  PROVE  HistoryInv'
  <1> DEFINE r == Revision(expected + 1, action, config)
  <1>1. /\ r \in AnyRevision /\ r.action # "validate" /\ r.config = config
        /\ revisions' = Append(revisions, r) /\ accepted' = Append(accepted, config)
    BY DEF Change, Recorded, Revision, AnyRevision
  <1> HIDE DEF r
  <1>2. Records(revisions', accepted')
    BY <1>1, RequestRecorded DEF HistoryInv, RegistrationTypes, HistoryIsComplete
  <1>3. RegistrationTypes'
    BY <1>1 DEF HistoryInv, RegistrationTypes, Change, Registered
  <1>4. registration'.config = accepted'[Len(accepted')]
    BY <1>1 DEF HistoryInv, RegistrationTypes, Change
  <1> QED BY <1>2, <1>3, <1>4 DEF HistoryInv, HistoryIsComplete, Records, ByRequest

LEMMA ValidationEnds ==
  ASSUME HistoryInv, NEW v \in Validator, NEW verdict \in {"valid", "invalid"},
         EndValidation(v, verdict)
  PROVE  HistoryInv'
  <1> DEFINE r == Revision(validation[v].version + 1, "validate", validation[v].config)
  <1>1. validation[v] \in Registered
    BY DEF HistoryInv, RegistrationTypes, EndValidation
  <1>2. r \in AnyRevision /\ r.action = "validate"
    BY <1>1 DEF Revision, AnyRevision, Registered
  <1> HIDE DEF r
  <1>3. CASE registration = Nil
    BY <1>3 DEF HistoryInv, RegistrationTypes, HistoryIsComplete, Records, ByRequest,
                EndValidation
  <1>4. CASE registration # Nil
    <2>1. /\ revisions' = Append(revisions, r) /\ accepted' = accepted
          /\ registration' = [registration EXCEPT
               !.status = Differing(validation[v].status, verdict, @),
               !.version = validation[v].version + 1]
      BY <1>4 DEF EndValidation, r
    <2>2. registration \in Registered
      BY <1>4 DEF HistoryInv, RegistrationTypes
    <2>3. Differing(validation[v].status, verdict, registration.status)
            \in {"unvalidated", "valid", "invalid"}
      BY <2>2 DEF Differing, Registered
    <2>4. registration' \in Registered /\ registration'.config = registration.config
      <3>1. \A s \in {"unvalidated", "valid", "invalid"}, n \in Nat :
              LET row == [registration EXCEPT !.status = s, !.version = n]
              IN  row \in Registered /\ row.config = registration.config
        BY <2>2 DEF Registered
      <3>2. validation[v].version + 1 \in Nat
        BY <1>1 DEF Registered
      <3>3. registration' = [registration EXCEPT
              !.status = Differing(validation[v].status, verdict, registration.status),
              !.version = validation[v].version + 1]
        BY <2>1
      <3> QED BY <2>3, <3>1, <3>2, <3>3
    <2>5. RegistrationTypes'
      BY <1>2, <2>1, <2>4 DEF EndValidation, HistoryInv, RegistrationTypes
    <2>6. Records(revisions', accepted')
      BY <1>2, <2>1, ValidationRecorded DEF HistoryInv, RegistrationTypes, HistoryIsComplete
    <2> QED BY <1>4, <2>1, <2>4, <2>5, <2>6
            DEF HistoryInv, HistoryIsComplete, Records, ByRequest
  <1> QED BY <1>3, <1>4

LEMMA HistoryStep == HistoryInv /\ [RegistryNext]_registryVars => HistoryInv'
  <1> SUFFICES ASSUME HistoryInv, [RegistryNext]_registryVars PROVE HistoryInv'
    OBVIOUS
  <1>1. ASSUME UNCHANGED <<registration, revisions, accepted>>,
               validation' \in [Validator -> Registered \union {Nil}]
        PROVE  HistoryInv'
    BY <1>1 DEF HistoryInv, RegistrationTypes, HistoryIsComplete, Records, ByRequest
  <1>2. ASSUME NEW expected \in 1..MaxRevisions, NEW config \in Config,
               UpdateServer(config, expected)
        PROVE  HistoryInv'
    <2>1. expected \in Nat
      BY RegistryAssumption
    <2> QED BY <1>2, <2>1, ChangeRecorded DEF UpdateServer
  <1>3. ASSUME NEW expected \in 1..MaxRevisions, NEW i \in DOMAIN revisions,
               RestoreRevision(i, expected)
        PROVE  HistoryInv'
    <2>1. expected \in Nat
      BY RegistryAssumption
    <2>2. revisions[i] \in AnyRevision
      BY DEF HistoryInv, RegistrationTypes
    <2>3. revisions[i].config \in Config
      BY <2>2 DEF AnyRevision
    <2> QED BY <1>3, <2>1, <2>3, ChangeRecorded DEF RestoreRevision
  <1>4. ASSUME NEW expected \in 1..MaxRevisions, DeleteServer(expected)
        PROVE  HistoryInv'
    <2>1. registration' = Nil /\ revisions' = <<>> /\ accepted' = <<>> /\ validation' = validation
      BY <1>4 DEF DeleteServer
    <2>2. RegistrationTypes'
      BY <2>1 DEF HistoryInv, RegistrationTypes
    <2>3. ByRequest(<<>>) = {} /\ Cardinality({}) = 0 /\ Len(<<>>) = 0
      BY FS_EmptySet DEF ByRequest
    <2>4. Records(<<>>, <<>>)
      BY <2>3 DEF Records
    <2> QED BY <2>1, <2>2, <2>4 DEF HistoryInv, HistoryIsComplete, Records, ByRequest
  <1>5. ASSUME NEW v \in Validator, StartValidation(v)
        PROVE  HistoryInv'
    BY <1>1, <1>5 DEF StartValidation, HistoryInv, RegistrationTypes
  <1>6. ASSUME NEW v \in Validator, NEW verdict \in {"valid", "invalid"},
               EndValidation(v, verdict)
        PROVE  HistoryInv'
    BY <1>6, ValidationEnds
  <1>7. ASSUME NEW x \in Exchanger,
               \/ ReadCredential(x) \/ EndExchange(x) \/ EndRewrap(x) \/ StopReading(x)
               \/ \E secret \in Secret : RotateCredential(x, secret)
        PROVE  HistoryInv'
    BY <1>1, <1>7 DEF ReadCredential, EndExchange, EndRewrap, StopReading, RotateCredential,
                      WriteBack, HistoryInv, RegistrationTypes
  <1>8. CASE DeleteCredential \/ (\E secret \in Secret : CreateCredential(secret))
               \/ UNCHANGED registryVars
    BY <1>1, <1>8 DEF DeleteCredential, CreateCredential, registryVars, HistoryInv,
                      RegistrationTypes
  <1> QED BY <1>2, <1>3, <1>4, <1>5, <1>6, <1>7, <1>8 DEF RegistryNext

\* The history of a server holds every accepted configuration in order, and the row is as the
\* last request left it: _revision takes what the request wrote, and a validation that ends
\* late writes no configuration.
THEOREM HistoryHolds == RegistrySpec => []HistoryIsComplete
  <1>1. HistoryInv => HistoryIsComplete
    BY DEF HistoryInv
  <1> QED BY <1>1, HistoryInit, HistoryStep, PTL DEF RegistrySpec

-----------------------------------------------------------------------------
(* Quotas: types, and the lock of the policy's row.                        *)

InCall == {"checked", "granted", "calling", "releasing", "freeing"}

\* A call has a key while it lasts, holds the row from the check to the commit, and
\* finds its event when it comes to end the lease.
QuotaTypeInv ==
  /\ QuotaTypeOK
  /\ \A c \in Caller : call[c] \in InCall => key[c] \in Key
  /\ \A c \in Caller : call[c] \in {"checked", "granted"} <=> rowLock = c
  /\ \A c \in Caller : call[c] = "releasing" => event[key[c]] # NoOne

LEMMA QuotaTypeInit == QuotaInit => QuotaTypeInv
  <1> SUFFICES ASSUME QuotaInit PROVE QuotaTypeInv
    OBVIOUS
  <1> USE QuotaAssumption DEF QuotaInit
  <1>1. /\ policy \in [limit : Limit, mode : {"active", "off"}, version : 1..(MaxEdits + 1)]
        /\ peak \in Limit
    OBVIOUS
  <1>2. /\ event \in [Key -> Event \union {NoOne}]
        /\ redis \in [count : Nat, marks : SUBSET Key, slots : SUBSET Caller]
        /\ plan \in [Reconciler -> Plan]
    BY DEF Plan, NoPlan
  <1>3. /\ call \in [Caller -> Stage] /\ key \in [Caller -> Key \union {NoOne}]
        /\ stage \in [Reconciler -> {"new", "locked", "read", "over"}]
        /\ edit \in [Editor -> 0..(MaxEdits + 1)]
    BY DEF Stage
  <1> QED BY <1>1, <1>2, <1>3 DEF QuotaTypeInv, QuotaTypeOK, InCall

\* Where a step of a call leads, and what becomes of its key.
LEMMA Reaching ==
  ASSUME QuotaTypeInv, NEW c \in Caller, NEW point \in Stage, Reach(c, point)
  PROVE  /\ call' \in [Caller -> Stage] /\ key' \in [Caller -> Key \union {NoOne}]
         /\ call'[c] = point
         /\ key'[c] = IF point = "done" THEN NoOne ELSE key[c]
         /\ \A d \in Caller \ {c} : call'[d] = call[d] /\ key'[d] = key[d]
  BY DEF QuotaTypeInv, QuotaTypeOK, Reach

\* A step of a call that leaves the ledger and keeps, passes or gives up the row.
LEMMA CallStep ==
  ASSUME QuotaTypeInv, NEW c \in Caller, NEW point \in Stage, Reach(c, point),
         call[c] \in InCall, \A k \in Key : event[k] # NoOne => event'[k] # NoOne,
         point = "releasing" => event[key[c]] # NoOne,
         rowLock' = IF point \in {"checked", "granted"} THEN c
                    ELSE IF rowLock = c THEN NoOne ELSE rowLock,
         point \in {"checked", "granted"} => rowLock = c
  PROVE  /\ rowLock' \in Caller \union {NoOne}
         /\ \A d \in Caller : call'[d] \in InCall => key'[d] \in Key
         /\ \A d \in Caller : call'[d] \in {"checked", "granted"} <=> rowLock' = d
         /\ \A d \in Caller : call'[d] = "releasing" => event'[key'[d]] # NoOne
  <1>1. /\ call'[c] = point /\ key'[c] = IF point = "done" THEN NoOne ELSE key[c]
        /\ \A d \in Caller \ {c} : call'[d] = call[d] /\ key'[d] = key[d]
    BY Reaching
  <1>2. /\ rowLock \in Caller \union {NoOne} /\ NoOne \notin Caller /\ key[c] \in Key
        /\ \A d \in Caller : call[d] \in InCall => key[d] \in Key
        /\ \A d \in Caller : call[d] \in {"checked", "granted"} <=> rowLock = d
        /\ \A d \in Caller : call[d] = "releasing" => event[key[d]] # NoOne
    BY QuotaAssumption DEF QuotaTypeInv, QuotaTypeOK
  <1>3. rowLock' \in Caller \union {NoOne}
    BY <1>2
  <1>4. ASSUME NEW d \in Caller PROVE call'[d] \in InCall => key'[d] \in Key
    BY <1>1, <1>2, <1>4 DEF InCall
  <1>5. ASSUME NEW d \in Caller PROVE call'[d] \in {"checked", "granted"} <=> rowLock' = d
    <2>1. CASE d = c
      BY <1>1, <1>2, <2>1
    <2>2. CASE d # c
      BY <1>1, <1>2, <2>2
    <2> QED BY <2>1, <2>2
  <1>6. ASSUME NEW d \in Caller PROVE call'[d] = "releasing" => event'[key'[d]] # NoOne
    <2>1. CASE d = c
      BY <1>1, <1>2, <2>1
    <2>2. CASE d # c
      BY <1>1, <1>2, <2>2 DEF InCall
    <2> QED BY <2>1, <2>2
  <1> QED BY <1>3, <1>4, <1>5, <1>6

\* The id of a key's event, or of a new one, is that of a call.
LEMMA IdType ==
  ASSUME QuotaTypeInv, NEW c \in Caller, NEW k \in Key
  PROVE  /\ IdOf(c, k) \in Caller
         /\ event[k] # NoOne => event[k] \in Event /\ event[k].id \in Caller
  BY DEF QuotaTypeInv, QuotaTypeOK, IdOf, Event

\* A slot taken back, or not, and a key counted leave Redis typed.
LEMMA RedisType ==
  ASSUME QuotaTypeInv
  PROVE  /\ \A id, heard : [redis EXCEPT !.slots = Freed(@, id, heard)] \in
                             [count : Nat, marks : SUBSET Key, slots : SUBSET Caller]
         /\ \A id : [redis EXCEPT !.slots = @ \ {id}] \in
                             [count : Nat, marks : SUBSET Key, slots : SUBSET Caller]
         /\ \A c \in Caller, k \in Key : ScriptGrants(c, k) =>
              /\ redis' \in [count : Nat, marks : SUBSET Key, slots : SUBSET Caller]
              /\ counted' \subseteq Key
  <1>1. /\ redis \in [count : Nat, marks : SUBSET Key, slots : SUBSET Caller]
        /\ counted \subseteq Key
    BY DEF QuotaTypeInv, QuotaTypeOK
  <1>2. ASSUME NEW id, NEW heard
        PROVE  /\ [redis EXCEPT !.slots = Freed(@, id, heard)] \in
                    [count : Nat, marks : SUBSET Key, slots : SUBSET Caller]
               /\ [redis EXCEPT !.slots = @ \ {id}] \in
                    [count : Nat, marks : SUBSET Key, slots : SUBSET Caller]
    BY <1>1 DEF Freed
  <1>3. ASSUME NEW c \in Caller, NEW k \in Key, ScriptGrants(c, k)
        PROVE  /\ redis' \in [count : Nat, marks : SUBSET Key, slots : SUBSET Caller]
               /\ counted' \subseteq Key
    <2>1. /\ redis.count + (IF Counted(k) THEN 0 ELSE 1) \in Nat
          /\ redis.marks \union {k} \subseteq Key
      BY <1>1
    <2>2. redis.slots \union {IdOf(c, k)} \subseteq Caller
      BY <1>1, IdType
    <2> QED BY <1>1, <1>3, <2>1, <2>2 DEF ScriptGrants
  <1> QED BY <1>2, <1>3

LEMMA QuotaCallType ==
  ASSUME QuotaTypeInv, CallerNext
  PROVE  QuotaTypeInv'
  <1> USE DEF ledgerVars, historyVars, boundVars, callVars, repairVars
  <1>1. PICK c \in Caller :
          \/ \E k \in Key : Reserve(c, k)
          \/ RedisGrants(c) \/ RedisRefuses(c) \/ RedisFails(c) \/ CommitReservation(c)
          \/ ReadLease(c) \/ EndLease(c) \/ FreeSlot(c) \/ CallerDies(c)
          \/ ExpireReservation(c)
    BY DEF CallerNext
  <1>2. /\ call \in [Caller -> Stage] /\ key \in [Caller -> Key \union {NoOne}]
        /\ rowLock \in Caller \union {NoOne} /\ NoOne \notin Caller \union Event
        /\ event \in [Key -> Event \union {NoOne}]
        /\ charged \subseteq visible /\ visible \subseteq Key /\ counted \subseteq Key
        /\ \A d \in Caller : call[d] \in InCall => key[d] \in Key
        /\ \A d \in Caller : call[d] \in {"checked", "granted"} <=> rowLock = d
        /\ \A d \in Caller : call[d] = "releasing" => event[key[d]] # NoOne
    BY QuotaAssumption DEF QuotaTypeInv, QuotaTypeOK
  <1>3. {"checked", "granted", "calling", "releasing", "freeing", "done"} \subseteq Stage
    BY DEF Stage
  <1>4. ASSUME NEW k \in Key, Reserve(c, k) PROVE QuotaTypeInv'
    <2>1. CASE Admits(k)
      <3>1. /\ call' = [call EXCEPT ![c] = "checked"] /\ key' = [key EXCEPT ![c] = k]
            /\ rowLock' = c /\ rowLock = NoOne
            /\ UNCHANGED <<policy, event, charged, visible, redis, repairLock, stage, plan,
                           edit, peak, counted, resets, days>>
        BY <1>4, <2>1 DEF Reserve
      <3>2. /\ call' \in [Caller -> Stage] /\ key' \in [Caller -> Key \union {NoOne}]
            /\ call'[c] = "checked" /\ key'[c] = k
            /\ \A d \in Caller \ {c} : call'[d] = call[d] /\ key'[d] = key[d]
        BY <1>2, <1>3, <3>1
      <3>3. \A d \in Caller \ {c} : call[d] \notin {"checked", "granted"}
        BY <1>2, <3>1
      <3> QED BY <1>2, <3>1, <3>2, <3>3 DEF QuotaTypeInv, QuotaTypeOK, InCall
    <2>2. CASE ~Admits(k)
      <3>1. /\ Reach(c, "done") /\ rowLock' = rowLock /\ rowLock = NoOne
            /\ UNCHANGED <<policy, event, charged, visible, redis, repairLock, stage, plan,
                           edit, peak, counted, resets, days>>
        BY <1>4, <2>2 DEF Reserve
      <3>2. /\ call' \in [Caller -> Stage] /\ key' \in [Caller -> Key \union {NoOne}]
            /\ call'[c] = "done"
            /\ \A d \in Caller \ {c} : call'[d] = call[d] /\ key'[d] = key[d]
        BY <1>3, <3>1, Reaching
      <3> QED BY <1>2, <3>1, <3>2 DEF QuotaTypeInv, QuotaTypeOK, InCall
    <2> QED BY <2>1, <2>2
  \* What is left to show of a step that leaves the reconciliations and the policy alone.
  <1> DEFINE Rest ==
        /\ event' \in [Key -> Event \union {NoOne}]
        /\ \A k \in Key : event[k] # NoOne => event'[k] # NoOne
        /\ charged' \subseteq visible' /\ visible' \subseteq Key
        /\ redis' \in [count : Nat, marks : SUBSET Key, slots : SUBSET Caller]
        /\ counted' \subseteq Key
        /\ UNCHANGED <<policy, repairLock, stage, plan, edit, peak, resets, days>>
  <1>5. ASSUME NEW point \in Stage, Reach(c, point), call[c] \in InCall, Rest,
               point = "releasing" => event[key[c]] # NoOne,
               rowLock' = IF point \in {"checked", "granted"} THEN c
                          ELSE IF rowLock = c THEN NoOne ELSE rowLock,
               point \in {"checked", "granted"} => rowLock = c
        PROVE  QuotaTypeInv'
    <2>1. /\ rowLock' \in Caller \union {NoOne}
          /\ \A d \in Caller : call'[d] \in InCall => key'[d] \in Key
          /\ \A d \in Caller : call'[d] \in {"checked", "granted"} <=> rowLock' = d
          /\ \A d \in Caller : call'[d] = "releasing" => event'[key'[d]] # NoOne
      BY <1>5, CallStep
    <2>2. call' \in [Caller -> Stage] /\ key' \in [Caller -> Key \union {NoOne}]
      BY <1>5, Reaching
    <2> QED BY <1>5, <2>1, <2>2 DEF QuotaTypeInv, QuotaTypeOK
  <1>6. CASE RedisGrants(c) \/ RedisRefuses(c) \/ RedisFails(c)
    <2>1. call[c] = "checked" /\ key[c] \in Key /\ rowLock = c
      BY <1>2, <1>6 DEF RedisGrants, RedisRefuses, RedisFails, InCall
    <2>2. ScriptGrants(c, key[c]) \/ UNCHANGED <<redis, counted>>
      BY <1>6, Zenon DEF RedisGrants, RedisRefuses, RedisFails
    <2>3. redis' \in [count : Nat, marks : SUBSET Key, slots : SUBSET Caller]
      BY <2>1, <2>2, RedisType DEF QuotaTypeInv, QuotaTypeOK
    <2>4. counted' \subseteq Key
      BY <1>2, <2>1, <2>2, RedisType
    <2>5. Rest
      BY <1>2, <1>6, <2>3, <2>4 DEF RedisGrants, RedisRefuses, RedisFails
    <2>6. PICK point \in {"granted", "done"} :
            Reach(c, point) /\ rowLock' = IF point = "granted" THEN rowLock ELSE NoOne
      BY <1>6 DEF RedisGrants, RedisRefuses, RedisFails
    <2> HIDE DEF Rest
    <2> QED BY <1>3, <1>5, <2>1, <2>5, <2>6 DEF InCall
  <1>7. CASE CommitReservation(c)
    <2>1. call[c] = "granted" /\ key[c] \in Key /\ rowLock = c
      BY <1>2, <1>7 DEF CommitReservation, InCall
    <2>2. IdOf(c, key[c]) \in Caller
      BY <2>1, IdType
    <2>3. UNCHANGED <<policy, repairLock, stage, plan, edit, peak, counted, resets, days>>
      BY <1>7 DEF CommitReservation
    <2>4. CASE /\ event' = [event EXCEPT ![key[c]] =
                              [id |-> IdOf(c, key[c]), token |-> c, live |-> TRUE]]
               /\ charged' = IF event[key[c]] = NoOne THEN charged \union {key[c]} ELSE charged
               /\ visible' = IF event[key[c]] = NoOne THEN visible \union {key[c]} ELSE visible
               /\ Reach(c, "calling") /\ UNCHANGED redis
      <3>1. [id |-> IdOf(c, key[c]), token |-> c, live |-> TRUE] \in Event
        BY <2>2 DEF Event
      <3>2. /\ event' \in [Key -> Event \union {NoOne}]
            /\ \A k \in Key : event[k] # NoOne => event'[k] # NoOne
        BY <1>2, <2>1, <2>4, <3>1
      <3>3. redis' \in [count : Nat, marks : SUBSET Key, slots : SUBSET Caller]
        BY <2>4 DEF QuotaTypeInv, QuotaTypeOK
      <3>4. Rest
        BY <1>2, <2>1, <2>3, <2>4, <3>2, <3>3
      <3>5. rowLock' = NoOne
        BY <1>7 DEF CommitReservation
      <3> HIDE DEF Rest
      <3> QED BY <1>3, <1>5, <2>1, <2>4, <3>4, <3>5 DEF InCall
    <2>5. CASE /\ \E heard \in BOOLEAN :
                    redis' = [redis EXCEPT !.slots = Freed(@, IdOf(c, key[c]), heard)]
               /\ Reach(c, "done") /\ UNCHANGED ledgerVars
      <3>1. redis' \in [count : Nat, marks : SUBSET Key, slots : SUBSET Caller]
        BY <2>5, RedisType
      <3>2. Rest
        BY <1>2, <2>3, <2>5, <3>1
      <3>3. rowLock' = NoOne
        BY <1>7 DEF CommitReservation
      <3> HIDE DEF Rest
      <3> QED BY <1>3, <1>5, <2>1, <2>5, <3>2, <3>3 DEF InCall
    <2> QED BY <1>7, <2>4, <2>5 DEF CommitReservation
  <1>8. CASE ReadLease(c)
    <2>1. call[c] = "calling" /\ key[c] \in Key /\ rowLock # c
      BY <1>2, <1>8 DEF ReadLease, InCall
    <2>2. PICK point \in {"releasing", "freeing"} :
            Reach(c, point) /\ (point = "releasing" => event[key[c]] # NoOne)
      <3>1. Reach(c, IF event[key[c]] # NoOne /\ event[key[c]].token = c
                       THEN "releasing" ELSE "freeing")
        BY <1>8 DEF ReadLease
      <3> QED BY <3>1
    <2>3. Rest /\ rowLock' = rowLock
      BY <1>2, <1>8 DEF ReadLease, QuotaTypeInv, QuotaTypeOK
    <2> HIDE DEF Rest
    <2> QED BY <1>3, <1>5, <2>1, <2>2, <2>3 DEF InCall
  <1>9. CASE EndLease(c)
    <2>1. call[c] = "releasing" /\ key[c] \in Key /\ rowLock # c /\ event[key[c]] \in Event
      BY <1>2, <1>9 DEF EndLease, InCall
    <2>2. [event[key[c]] EXCEPT !.token = NoOne, !.live = FALSE] \in Event
      BY <2>1 DEF Event
    <2>3. event' = [event EXCEPT ![key[c]] =
                      [event[key[c]] EXCEPT !.token = NoOne, !.live = FALSE]]
      BY <1>2, <1>9, <2>1 DEF EndLease
    <2>4. /\ event' \in [Key -> Event \union {NoOne}]
          /\ \A k \in Key : event[k] # NoOne => event'[k] # NoOne
      BY <1>2, <2>1, <2>2, <2>3
    <2>5. Rest /\ rowLock' = rowLock /\ Reach(c, "freeing")
      BY <1>2, <1>9, <2>4 DEF EndLease, QuotaTypeInv, QuotaTypeOK
    <2> HIDE DEF Rest
    <2> QED BY <1>3, <1>5, <2>1, <2>5 DEF InCall
  <1>10. CASE FreeSlot(c)
    <2>1. call[c] = "freeing" /\ rowLock # c
      BY <1>2, <1>10 DEF FreeSlot
    <2>2. redis' \in [count : Nat, marks : SUBSET Key, slots : SUBSET Caller]
      BY <1>10, RedisType DEF FreeSlot
    <2>3. Rest /\ rowLock' = rowLock /\ Reach(c, "done")
      BY <1>2, <1>10, <2>2 DEF FreeSlot
    <2> HIDE DEF Rest
    <2> QED BY <1>3, <1>5, <2>1, <2>3 DEF InCall
  <1>11. CASE CallerDies(c)
    <2>1. Rest /\ Reach(c, "done") /\ call[c] \in InCall
      BY <1>2, <1>11 DEF CallerDies, InCall, QuotaTypeInv, QuotaTypeOK
    <2>2. rowLock' = IF rowLock = c THEN NoOne ELSE rowLock
      BY <1>11 DEF CallerDies
    <2> HIDE DEF Rest
    <2> QED BY <1>3, <1>5, <2>1, <2>2
  <1>12. CASE ExpireReservation(c)
    <2>1. \A k \in Key : event'[k] =
            IF event[k] # NoOne /\ event[k].id = c
              THEN [event[k] EXCEPT !.live = FALSE] ELSE event[k]
      BY <1>12 DEF ExpireReservation
    <2>2. ASSUME NEW k \in Key
          PROVE  event'[k] \in Event \union {NoOne} /\ (event[k] # NoOne => event'[k] # NoOne)
      <3>1. CASE event[k] \in Event
        <4>1. [event[k] EXCEPT !.live = FALSE] \in Event
          BY <3>1 DEF Event
        <4> QED BY <1>2, <2>1, <3>1, <4>1
      <3>2. CASE event[k] = NoOne
        BY <2>1, <3>2
      <3> QED BY <1>2, <3>1, <3>2
    <2>3. event' \in [Key -> Event \union {NoOne}]
      <3>1. event' = [k \in Key |-> event'[k]]
        BY <1>12, <2>1 DEF ExpireReservation
      <3> QED BY <2>2, <3>1
    <2>4. redis' \in [count : Nat, marks : SUBSET Key, slots : SUBSET Caller]
      BY <1>12, RedisType DEF ExpireReservation
    <2>5. /\ UNCHANGED <<call, key, rowLock>>
          /\ UNCHANGED <<policy, charged, visible, repairLock, stage, plan, edit, peak, counted,
                         resets, days>>
      BY <1>12 DEF ExpireReservation
    <2> QED BY <1>2, <2>2, <2>3, <2>4, <2>5 DEF QuotaTypeInv, QuotaTypeOK, InCall
  <1> QED BY <1>1, <1>4, <1>6, <1>7, <1>8, <1>9, <1>10, <1>11, <1>12

LEMMA QuotaPolicyType ==
  ASSUME QuotaTypeInv, PolicyNext
  PROVE  QuotaTypeInv'
  <1> USE DEF ledgerVars, historyVars, boundVars, callVars, repairVars
  <1>1. /\ policy \in [limit : Limit, mode : {"active", "off"}, version : 1..(MaxEdits + 1)]
        /\ edit \in [Editor -> 0..(MaxEdits + 1)]
        /\ redis \in [count : Nat, marks : SUBSET Key, slots : SUBSET Caller]
        /\ event \in [Key -> Event \union {NoOne}] /\ NoOne \notin Event
        /\ plan \in [Reconciler -> Plan]
        /\ peak \in Limit /\ Limit \subseteq Nat
        /\ MaxEdits \in Nat /\ MaxClears \in Nat
        /\ resets \in Nat /\ days \in Nat /\ resets + days <= MaxClears
    BY QuotaAssumption DEF QuotaTypeInv, QuotaTypeOK
  <1> DEFINE Fits(p) ==
        p \in [limit : Limit, mode : {"active", "off"}, version : 1..(MaxEdits + 1)]
  <1>2. ASSUME Fits(policy'), peak' \in Limit, edit' \in [Editor -> 0..(MaxEdits + 1)],
               UNCHANGED <<rowLock, event, charged, visible, redis, repairLock, call, key,
                           stage, plan, counted, resets, days>>
        PROVE  QuotaTypeInv'
    BY <1>2 DEF QuotaTypeInv, QuotaTypeOK, InCall
  <1>3. ASSUME NEW e \in Editor, LoadPolicy(e) PROVE QuotaTypeInv'
    BY <1>1, <1>2, <1>3 DEF LoadPolicy
  <1>4. ASSUME NEW e \in Editor, NEW limit \in Limit, NEW mode \in {"active", "off"},
               UpdatePolicy(e, limit, mode)
        PROVE  QuotaTypeInv'
    <2>1. edit[e] <= MaxEdits => edit[e] + 1 \in 1..(MaxEdits + 1)
      BY <1>1
    <2>2. Fits(policy')
      BY <1>1, <1>4, <2>1 DEF UpdatePolicy
    <2>3. peak' \in Limit
      BY <1>1, <1>4, <2>2 DEF UpdatePolicy, Greater
    <2>4. edit' \in [Editor -> 0..(MaxEdits + 1)]
      BY <1>1, <1>4 DEF UpdatePolicy
    <2> QED BY <1>2, <1>4, <2>2, <2>3, <2>4 DEF UpdatePolicy
  <1>5. ASSUME NEW limit \in Limit, NEW mode \in {"active", "off"}, AdjustPolicy(limit, mode)
        PROVE  QuotaTypeInv'
    <2>1. policy.version + 1 \in 1..(MaxEdits + 1)
      BY <1>1, <1>5 DEF AdjustPolicy
    <2>2. Fits(policy') /\ peak' \in Limit
      BY <1>1, <1>5, <2>1 DEF AdjustPolicy, Greater
    <2> QED BY <1>1, <1>2, <1>5, <2>2 DEF AdjustPolicy
  <1>6. CASE ResetPolicy
    <2>1. policy.version + 1 \in 1..(MaxEdits + 1)
      BY <1>1, <1>6 DEF ResetPolicy
    <2>2. Fits(policy') /\ peak' \in Limit
      BY <1>1, <1>6, <2>1 DEF ResetPolicy
    <2>3. redis' \in [count : Nat, marks : SUBSET Key, slots : SUBSET Caller]
      BY <1>6 DEF ResetPolicy
    <2>4. resets' \in Nat /\ days' \in Nat /\ resets' + days' <= MaxClears
      BY <1>1, <1>6 DEF ResetPolicy
    <2> QED
      BY <1>6, <2>2, <2>3, <2>4 DEF ResetPolicy, QuotaTypeInv, QuotaTypeOK, InCall
  <1>7. CASE EndDay
    <2>1. redis' \in [count : Nat, marks : SUBSET Key, slots : SUBSET Caller]
      BY <1>1, <1>7 DEF EndDay
    <2>2. plan' \in [Reconciler -> Plan]
      <3>1. \A r \in Reconciler : [plan[r] EXCEPT !.count = 0] \in Plan
        BY <1>1 DEF Plan
      <3> QED BY <1>7, <3>1 DEF EndDay
    <2>3. resets' \in Nat /\ days' \in Nat /\ resets' + days' <= MaxClears
      BY <1>1, <1>7 DEF EndDay
    <2>4. peak' \in Limit
      BY <1>1, <1>7 DEF EndDay
    <2> QED
      BY <1>7, <2>1, <2>2, <2>3, <2>4 DEF EndDay, QuotaTypeInv, QuotaTypeOK, InCall
  <1>8. ASSUME NEW k \in Key, PurgeUsage(k) PROVE QuotaTypeInv'
    <2>1. redis' \in [count : Nat, marks : SUBSET Key, slots : SUBSET Caller]
      BY <1>1, <1>8 DEF PurgeUsage
    <2>2. event' \in [Key -> Event \union {NoOne}]
      BY <1>1, <1>8 DEF PurgeUsage
    <2>3. \A c \in Caller : call[c] = "releasing" => event'[key[c]] # NoOne
      BY <1>1, <1>8 DEF PurgeUsage, QuotaTypeInv, InCall
    <2> QED
      BY <1>8, <2>1, <2>2, <2>3 DEF PurgeUsage, QuotaTypeInv, QuotaTypeOK, InCall
  <1> QED BY <1>3, <1>4, <1>5, <1>6, <1>7, <1>8 DEF PolicyNext

LEMMA QuotaReconcilerType ==
  ASSUME QuotaTypeInv, ReconcilerNext \/ ExpireRepairLock
  PROVE  QuotaTypeInv'
  <1> USE DEF ledgerVars, historyVars, boundVars, callVars, repairVars
  <1>1. /\ redis \in [count : Nat, marks : SUBSET Key, slots : SUBSET Caller]
        /\ event \in [Key -> Event \union {NoOne}]
        /\ charged \subseteq visible /\ visible \subseteq Key /\ counted \subseteq Key
        /\ plan \in [Reconciler -> Plan] /\ repairLock \in Reconciler \union {NoOne}
        /\ stage \in [Reconciler -> {"new", "locked", "read", "over"}]
    BY DEF QuotaTypeInv, QuotaTypeOK
  <1>2. ASSUME UNCHANGED <<policy, rowLock, event, charged, visible, call, key, edit, peak,
                           resets, days>>,
               redis' \in [count : Nat, marks : SUBSET Key, slots : SUBSET Caller],
               counted' \subseteq Key, plan' \in [Reconciler -> Plan],
               repairLock' \in Reconciler \union {NoOne},
               stage' \in [Reconciler -> {"new", "locked", "read", "over"}]
        PROVE  QuotaTypeInv'
    BY <1>2 DEF QuotaTypeInv, QuotaTypeOK, InCall
  <1>3. NoPlan \in Plan
    BY DEF NoPlan, Plan
  <1>4. ASSUME NEW r \in Reconciler, LockTenant(r) PROVE QuotaTypeInv'
    BY <1>1, <1>2, <1>4 DEF LockTenant
  <1>5. ASSUME NEW r \in Reconciler, ReadLedger(r) PROVE QuotaTypeInv'
    <2> DEFINE read == [count |-> Cardinality(charged), marks |-> visible,
                        slots |-> {event[k].id : k \in Active}, scanned |-> redis.marks]
    <2>1. Cardinality(charged) \in Nat
      BY <1>1, FS_Subset, FS_CardinalityType, QuotaAssumption
    <2>2. \A k \in Active : event[k].id \in Caller
      BY <1>1 DEF Active, Event
    <2>3. read \in Plan
      BY <1>1, <2>1, <2>2 DEF Plan
    <2>4. plan' = [plan EXCEPT ![r] = read] /\ stage' = [stage EXCEPT ![r] = "read"]
      BY <1>5 DEF ReadLedger
    <2> HIDE DEF read
    <2>5. plan' \in [Reconciler -> Plan]
      BY <1>1, <2>3, <2>4
    <2> QED BY <1>1, <1>2, <1>5, <2>4, <2>5 DEF ReadLedger
  <1>6. ASSUME NEW r \in Reconciler, Rebuild(r) PROVE QuotaTypeInv'
    <2>1. plan[r] \in Plan
      BY <1>1
    <2>2. redis' \in [count : Nat, marks : SUBSET Key, slots : SUBSET Caller]
      BY <1>1, <1>6, <2>1 DEF Rebuild, Plan
    <2>3. counted' \subseteq Key
      BY <1>1, <1>6, <2>1 DEF Rebuild, Plan
    <2> QED BY <1>1, <1>2, <1>3, <1>6, <2>2, <2>3 DEF Rebuild
  <1>7. ASSUME NEW r \in Reconciler, EndReconciliation(r) \/ ReconcilerDies(r)
        PROVE  QuotaTypeInv'
    BY <1>1, <1>2, <1>3, <1>7 DEF EndReconciliation, ReconcilerDies, Unlocked
  <1>8. CASE ExpireRepairLock
    BY <1>1, <1>2, <1>8 DEF ExpireRepairLock
  <1> QED BY <1>4, <1>5, <1>6, <1>7, <1>8 DEF ReconcilerNext

LEMMA QuotaTypeStep == QuotaTypeInv /\ [QuotaNext]_quotaVars => QuotaTypeInv'
  <1>1. QuotaTypeInv /\ QuotaNext => QuotaTypeInv'
    BY QuotaCallType, QuotaPolicyType, QuotaReconcilerType DEF QuotaNext
  <1>2. QuotaTypeInv /\ UNCHANGED quotaVars => QuotaTypeInv'
    BY DEF QuotaTypeInv, QuotaTypeOK, quotaVars, ledgerVars, historyVars, boundVars, callVars,
           repairVars, InCall
  <1> QED BY <1>1, <1>2

\* Every variable of the policy and of both stores keeps its type.
THEOREM QuotaTypes == QuotaSpec => []QuotaTypeOK
  <1>1. QuotaTypeInv => QuotaTypeOK
    BY DEF QuotaTypeInv
  <1> QED BY <1>1, QuotaTypeInit, QuotaTypeStep, PTL DEF QuotaSpec

-----------------------------------------------------------------------------
(* The daily budget.                                                       *)

\* The check that a call passed stays true until its commit: the row is locked. The limit
\* it was compared with is not above the day's greatest.
BudgetInv ==
  /\ BudgetHolds
  /\ policy.limit <= peak
  /\ rowLock # NoOne => Affordable(key[rowLock])

\* An element added to a finite set adds at most one to its size.
LEMMA AddOne ==
  ASSUME NEW S, IsFiniteSet(S), NEW x
  PROVE  /\ Cardinality(S) \in Nat /\ Cardinality(S \union {x}) \in Nat
         /\ Cardinality(S \union {x}) <= Cardinality(S) + 1
         /\ x \notin S => Cardinality(S \union {x}) = Cardinality(S) + 1
  <1>1. IsFiniteSet(S \union {x}) /\ Cardinality(S) \in Nat
    BY FS_AddElement, FS_CardinalityType
  <1>2. Cardinality(S \union {x}) = IF x \in S THEN Cardinality(S) ELSE Cardinality(S) + 1
    BY FS_AddElement
  <1> QED BY <1>1, <1>2

LEMMA BudgetInit == QuotaInit => BudgetInv
  <1> SUFFICES ASSUME QuotaInit PROVE BudgetInv
    OBVIOUS
  <1>1. charged = {} /\ rowLock = NoOne /\ peak = policy.limit /\ policy.limit \in Nat
    BY QuotaAssumption DEF QuotaInit
  <1> QED BY <1>1, FS_EmptySet DEF BudgetInv, BudgetHolds

LEMMA BudgetStep == QuotaTypeInv /\ QuotaTypeInv' /\ BudgetInv /\ [QuotaNext]_quotaVars => BudgetInv'
  <1> SUFFICES ASSUME QuotaTypeInv, QuotaTypeInv', BudgetInv, [QuotaNext]_quotaVars
               PROVE  BudgetInv'
    OBVIOUS
  <1> USE DEF ledgerVars, historyVars, boundVars, callVars, repairVars
  <1>1. /\ policy.limit \in Nat /\ policy'.limit \in Nat /\ peak \in Nat /\ peak' \in Nat
        /\ charged \subseteq Key /\ charged' \subseteq Key
        /\ rowLock \in Caller \union {NoOne} /\ NoOne \notin Caller
        /\ event \in [Key -> Event \union {NoOne}]
        /\ call \in [Caller -> Stage] /\ key \in [Caller -> Key \union {NoOne}]
    BY QuotaAssumption DEF QuotaTypeInv, QuotaTypeOK
  <1>2. Cardinality(charged) \in Nat /\ IsFiniteSet(charged)
    BY <1>1, FS_Subset, FS_CardinalityType, QuotaAssumption
  <1>3. /\ Cardinality(charged) <= peak /\ policy.limit <= peak
        /\ rowLock # NoOne => Affordable(key[rowLock])
    BY DEF BudgetInv, BudgetHolds
  \* A call that neither checks nor commits keeps the row or gives it up.
  <1>4. ASSUME UNCHANGED <<policy, charged, peak>>, rowLock' \in {rowLock, NoOne},
               rowLock' # NoOne =>
                 /\ key'[rowLock] = key[rowLock]
                 /\ event[key[rowLock]] # NoOne => event'[key[rowLock]] # NoOne
        PROVE  BudgetInv'
    BY <1>3, <1>4 DEF BudgetInv, BudgetHolds, Affordable
  \* Whoever changes the policy or the charges of the day finds the row free.
  <1>5. ASSUME rowLock = NoOne, rowLock' = NoOne,
               \/ charged' = charged /\ peak' = Greater(peak, policy'.limit)
               \/ charged' = {} /\ policy'.limit = policy.limit /\ peak' = policy.limit
        PROVE  BudgetInv'
    <2>1. CASE charged' = charged /\ peak' = Greater(peak, policy'.limit)
      BY <1>1, <1>2, <1>3, <1>5, <2>1 DEF BudgetInv, BudgetHolds, Greater
    <2>2. CASE charged' = {} /\ policy'.limit = policy.limit /\ peak' = policy.limit
      <3>1. Cardinality(charged') = 0
        BY <2>2, FS_EmptySet
      <3> QED BY <1>1, <1>5, <2>2, <3>1 DEF BudgetInv, BudgetHolds
    <2> QED BY <1>5, <2>1, <2>2
  <1>6. ASSUME NEW c \in Caller, NEW k \in Key, Reserve(c, k) PROVE BudgetInv'
    <2>1. CASE Admits(k)
      <3>1. /\ key' = [key EXCEPT ![c] = k] /\ rowLock' = c
            /\ UNCHANGED <<policy, event, charged, peak>>
        BY <1>6, <2>1 DEF Reserve
      <3>2. key'[rowLock'] = k /\ Affordable(k)
        BY <1>1, <2>1, <3>1 DEF Admits
      <3> QED BY <1>3, <3>1, <3>2 DEF BudgetInv, BudgetHolds, Affordable
    <2>2. CASE ~Admits(k)
      BY <1>4, <1>6, <2>2 DEF Reserve
    <2> QED BY <2>1, <2>2
  <1>7. ASSUME NEW c \in Caller, RedisGrants(c) \/ RedisRefuses(c) \/ RedisFails(c)
        PROVE  BudgetInv'
    <2>1. rowLock = c
      BY <1>7 DEF RedisGrants, RedisRefuses, RedisFails, QuotaTypeInv
    <2>2. (key'[c] = key[c] /\ rowLock' = c) \/ rowLock' = NoOne
      BY <1>7, <2>1 DEF RedisGrants, RedisRefuses, RedisFails, Reach
    <2> QED
      BY <1>4, <1>7, <2>1, <2>2 DEF RedisGrants, RedisRefuses, RedisFails
  <1>8. ASSUME NEW c \in Caller, CommitReservation(c) PROVE BudgetInv'
    <2>1. /\ rowLock = c /\ rowLock' = NoOne /\ key[c] \in Key
          /\ UNCHANGED <<policy, peak>>
      BY <1>8 DEF CommitReservation, QuotaTypeInv, InCall
    <2>2. CASE charged' = charged
      BY <1>3, <2>1, <2>2 DEF BudgetInv, BudgetHolds
    <2>3. CASE event[key[c]] = NoOne /\ charged' = charged \union {key[c]}
      <3>1. Cardinality(charged) + 1 <= policy.limit
        BY <1>1, <1>3, <2>1, <2>3 DEF Affordable
      <3>2. Cardinality(charged') \in Nat /\ Cardinality(charged') <= Cardinality(charged) + 1
        BY <1>2, <2>3, AddOne
      <3> QED BY <1>1, <1>2, <1>3, <2>1, <3>1, <3>2 DEF BudgetInv, BudgetHolds
    <2>4. \/ charged' = charged
          \/ event[key[c]] = NoOne /\ charged' = charged \union {key[c]}
      BY <1>8 DEF CommitReservation
    <2> QED BY <2>2, <2>3, <2>4
  <1>9. ASSUME NEW c \in Caller, ReadLease(c) \/ FreeSlot(c) PROVE BudgetInv'
    <2>1. rowLock # c
      BY <1>9 DEF ReadLease, FreeSlot, QuotaTypeInv
    <2>2. \A d \in Caller \ {c} : key'[d] = key[d]
      BY <1>1, <1>9 DEF ReadLease, FreeSlot, Reach
    <2> QED BY <1>1, <1>4, <1>9, <2>1, <2>2 DEF ReadLease, FreeSlot
  <1>10. ASSUME NEW c \in Caller, EndLease(c) PROVE BudgetInv'
    <2>1. /\ rowLock # c /\ key' = key
          /\ rowLock # NoOne => event'[key[rowLock]] = event[key[rowLock]]
      BY <1>1, <1>10 DEF EndLease, Reach, QuotaTypeInv, InCall
    <2> QED BY <1>4, <1>10, <2>1 DEF EndLease
  <1>11. ASSUME NEW c \in Caller, CallerDies(c) PROVE BudgetInv'
    <2>1. \A d \in Caller \ {c} : key'[d] = key[d]
      BY <1>1, <1>11 DEF CallerDies, Reach
    <2> QED BY <1>1, <1>4, <1>11, <2>1 DEF CallerDies
  <1>12. ASSUME NEW c \in Caller, ExpireReservation(c) PROVE BudgetInv'
    <2>1. rowLock # NoOne => key[rowLock] \in Key
      BY <1>1 DEF QuotaTypeInv, InCall
    <2>2. rowLock # NoOne /\ event[key[rowLock]] # NoOne
            => event'[key[rowLock]] = event[key[rowLock]]
      BY <1>12, <2>1 DEF ExpireReservation, IdOf
    <2> QED BY <1>4, <1>12, <2>2 DEF ExpireReservation
  <1>13. ASSUME NEW e \in Editor, NEW limit \in Limit, NEW mode \in {"active", "off"},
                UpdatePolicy(e, limit, mode)
         PROVE  BudgetInv'
    BY <1>5, <1>13 DEF UpdatePolicy
  <1>14. CASE ResetPolicy \/ EndDay
    <2>1. policy \in [limit : Limit, mode : {"active", "off"}, version : 1..(MaxEdits + 1)]
      BY DEF QuotaTypeInv, QuotaTypeOK
    <2> QED BY <1>5, <1>14, <2>1 DEF ResetPolicy, EndDay
  <1>15. ASSUME NEW k \in Key, PurgeUsage(k) PROVE BudgetInv'
    <2>1. rowLock # NoOne => key[rowLock] # k
      BY <1>1, <1>15 DEF PurgeUsage
    <2>2. rowLock # NoOne => event'[key[rowLock]] = event[key[rowLock]]
      BY <1>1, <1>15, <2>1 DEF PurgeUsage, QuotaTypeInv, InCall
    <2> QED BY <1>4, <1>15, <2>2 DEF PurgeUsage
  <1>16. CASE (\E e \in Editor : LoadPolicy(e)) \/ ReconcilerNext \/ ExpireRepairLock
    BY <1>4, <1>16 DEF LoadPolicy, ReconcilerNext, LockTenant, ReadLedger, Rebuild,
                       EndReconciliation, ReconcilerDies, ExpireRepairLock
  <1>17. CASE UNCHANGED quotaVars
    BY <1>4, <1>17 DEF quotaVars
  <1>18. ASSUME NEW limit \in Limit, NEW mode \in {"active", "off"}, AdjustPolicy(limit, mode)
         PROVE  BudgetInv'
    <2>1. policy \in [limit : Limit, mode : {"active", "off"}, version : 1..(MaxEdits + 1)]
      BY DEF QuotaTypeInv, QuotaTypeOK
    <2>2. policy'.limit = limit
      BY <1>18, <2>1 DEF AdjustPolicy
    <2> QED BY <1>5, <1>18, <2>2 DEF AdjustPolicy
  <1> QED
    BY <1>6, <1>7, <1>8, <1>9, <1>10, <1>11, <1>12, <1>13, <1>14, <1>15, <1>16, <1>17, <1>18
    DEF QuotaNext, CallerNext, PolicyNext

\* The calls charged in a day stay within the greatest limit of that day, for any number of
\* calls that check and commit side by side, die, retry and expire, of edits, and of repairs.
THEOREM QuotaBudget == QuotaSpec => []BudgetHolds
  <1>1. BudgetInv => BudgetHolds
    BY DEF BudgetInv
  <1> QED BY <1>1, QuotaTypeInit, QuotaTypeStep, BudgetInit, BudgetStep, PTL DEF QuotaSpec

-----------------------------------------------------------------------------
(* The two stores agree on what was counted.                               *)

\* Redis never counts more than it has marks, and it has only marks of counted keys.
CountInv ==
  /\ redis.count <= Cardinality(redis.marks) /\ redis.marks \subseteq counted
  /\ \A r \in Reconciler : plan[r].count <= Cardinality(plan[r].marks)

LEMMA CountInit == QuotaInit => CountInv
  <1> SUFFICES ASSUME QuotaInit PROVE CountInv
    OBVIOUS
  <1>1. redis.count = 0 /\ redis.marks = {} /\ counted = {}
    BY DEF QuotaInit
  <1>2. \A r \in Reconciler : plan[r].count = 0 /\ plan[r].marks = {}
    BY DEF QuotaInit, NoPlan
  <1> QED BY <1>1, <1>2, FS_EmptySet DEF CountInv

LEMMA CountStep == QuotaTypeInv /\ QuotaTypeInv' /\ CountInv /\ [QuotaNext]_quotaVars => CountInv'
  <1> SUFFICES ASSUME QuotaTypeInv, QuotaTypeInv', CountInv, [QuotaNext]_quotaVars
               PROVE  CountInv'
    OBVIOUS
  <1> USE DEF ledgerVars, historyVars, boundVars, callVars, repairVars
  <1>1. /\ redis \in [count : Nat, marks : SUBSET Key, slots : SUBSET Caller]
        /\ redis' \in [count : Nat, marks : SUBSET Key, slots : SUBSET Caller]
        /\ plan \in [Reconciler -> Plan] /\ plan' \in [Reconciler -> Plan]
        /\ charged \subseteq visible /\ visible \subseteq Key /\ NoOne \notin Caller
    BY QuotaAssumption DEF QuotaTypeInv, QuotaTypeOK
  <1>2. \A S \in SUBSET Key : IsFiniteSet(S) /\ Cardinality(S) \in Nat
    BY FS_Subset, FS_CardinalityType, QuotaAssumption
  <1>3. /\ redis.count <= Cardinality(redis.marks) /\ redis.marks \subseteq counted
        /\ \A r \in Reconciler : plan[r].count <= Cardinality(plan[r].marks)
    BY DEF CountInv
  \* A step that changes only slots.
  <1>4. ASSUME redis'.count = redis.count, redis'.marks = redis.marks, counted' = counted,
               plan' = plan
        PROVE  CountInv'
    BY <1>3, <1>4 DEF CountInv
  \* A step that takes the counters back to nothing.
  <1>5. ASSUME redis'.count = 0, redis'.marks \subseteq redis.marks, counted' = counted,
               \A r \in Reconciler :
                 \/ plan'[r] = plan[r]
                 \/ plan'[r].count = 0
        PROVE  CountInv'
    <2>1. \A r \in Reconciler : plan'[r].count <= Cardinality(plan'[r].marks)
      <3>1. \A r \in Reconciler : Cardinality(plan'[r].marks) \in Nat
        BY <1>1, <1>2 DEF Plan
      <3> QED BY <1>3, <1>5, <3>1
    <2>2. 0 <= Cardinality(redis'.marks)
      BY <1>1, <1>2
    <2> QED BY <1>3, <1>5, <2>1, <2>2 DEF CountInv
  <1>6. ASSUME NEW c \in Caller, NEW k \in Key, ScriptGrants(c, k), plan' = plan
        PROVE  CountInv'
    <2>1. /\ redis'.count = redis.count + (IF Counted(k) THEN 0 ELSE 1)
          /\ redis'.marks = redis.marks \union {k} /\ counted' = counted \union {k}
      BY <1>6 DEF ScriptGrants
    <2>2. IsFiniteSet(redis.marks) /\ redis.count \in Nat
      BY <1>1, <1>2
    <2>3. redis'.count <= Cardinality(redis'.marks)
      <3>1. CASE k \in redis.marks
        <4>1. redis'.marks = redis.marks /\ redis'.count = redis.count
          BY <2>1, <2>2, <3>1 DEF Counted
        <4> QED BY <1>3, <4>1
      <3>2. CASE k \notin redis.marks
        <4>1. Cardinality(redis'.marks) = Cardinality(redis.marks) + 1
          BY <2>1, <2>2, <3>2, AddOne
        <4>2. Cardinality(redis.marks) \in Nat /\ redis'.count <= redis.count + 1
          BY <1>1, <1>2, <2>1, <2>2
        <4> QED BY <1>1, <1>3, <2>2, <4>1, <4>2
      <3> QED BY <3>1, <3>2
    <2> QED BY <1>3, <1>6, <2>1, <2>3 DEF CountInv
  <1>7. ASSUME NEW c \in Caller, RedisGrants(c) \/ RedisRefuses(c) \/ RedisFails(c)
        PROVE  CountInv'
    <2>1. key[c] \in Key /\ plan' = plan
      BY <1>7 DEF RedisGrants, RedisRefuses, RedisFails, QuotaTypeInv, InCall
    <2>2. ScriptGrants(c, key[c]) \/ UNCHANGED <<redis, counted>>
      BY <1>7, Zenon DEF RedisGrants, RedisRefuses, RedisFails
    <2> QED BY <1>4, <1>6, <2>1, <2>2
  <1>8. ASSUME NEW c \in Caller,
               \/ CommitReservation(c) \/ FreeSlot(c) \/ ExpireReservation(c)
        PROVE  CountInv'
    <2>1. redis' = redis \/ \E slots : redis' = [redis EXCEPT !.slots = slots]
      BY <1>8 DEF CommitReservation, FreeSlot, ExpireReservation
    <2>2. redis'.count = redis.count /\ redis'.marks = redis.marks
      BY <1>1, <2>1
    <2>3. counted' = counted /\ plan' = plan
      BY <1>8 DEF CommitReservation, FreeSlot, ExpireReservation
    <2> QED BY <1>4, <2>2, <2>3
  <1>9. ASSUME NEW c \in Caller,
               \/ \E k \in Key : Reserve(c, k)
               \/ ReadLease(c) \/ EndLease(c) \/ CallerDies(c)
        PROVE  CountInv'
    BY <1>4, <1>9 DEF Reserve, ReadLease, EndLease, CallerDies
  <1>10. CASE \/ \E e \in Editor : LoadPolicy(e)
              \/ \E e \in Editor, limit \in Limit, mode \in {"active", "off"} :
                   UpdatePolicy(e, limit, mode)
              \/ \E limit \in Limit, mode \in {"active", "off"} : AdjustPolicy(limit, mode)
    BY <1>4, <1>10 DEF LoadPolicy, UpdatePolicy, AdjustPolicy
  <1>11. CASE ResetPolicy
    BY <1>5, <1>11 DEF ResetPolicy
  <1>12. CASE EndDay
    <2>1. \A r \in Reconciler : plan'[r].count = 0
      BY <1>1, <1>12 DEF EndDay, Plan
    <2>2. redis'.count = 0 /\ redis'.marks = redis.marks /\ counted' = counted
      BY <1>1, <1>12 DEF EndDay
    <2> QED BY <1>5, <2>1, <2>2
  <1>13. ASSUME NEW k \in Key, PurgeUsage(k) PROVE CountInv'
    <2>1. redis'.count = 0 /\ redis'.marks \subseteq redis.marks
      BY <1>1, <1>13 DEF PurgeUsage
    <2> QED BY <1>5, <1>13, <2>1 DEF PurgeUsage
  <1>14. ASSUME NEW r \in Reconciler,
                LockTenant(r) \/ EndReconciliation(r) \/ ReconcilerDies(r) \/ ReadLedger(r)
         PROVE  CountInv'
    <2>1. NoPlan.count = 0 /\ NoPlan.marks = {}
      BY DEF NoPlan
    <2>2. Cardinality(charged) <= Cardinality(visible) /\ Cardinality({}) = 0
      BY <1>1, <1>2, FS_Subset, FS_EmptySet
    <2>3. plan'[r].count <= Cardinality(plan'[r].marks)
      <3>1. CASE LockTenant(r)
        BY <1>3, <3>1 DEF LockTenant
      <3>2. CASE EndReconciliation(r) \/ ReconcilerDies(r)
        <4>1. plan'[r] = NoPlan
          BY <1>1, <3>2 DEF EndReconciliation, ReconcilerDies
        <4> QED BY <2>1, <2>2, <4>1
      <3>3. CASE ReadLedger(r)
        <4>1. plan'[r].count = Cardinality(charged) /\ plan'[r].marks = visible
          BY <1>1, <3>3 DEF ReadLedger
        <4> QED BY <2>2, <4>1
      <3> QED BY <1>14, <3>1, <3>2, <3>3
    <2>4. \A q \in Reconciler \ {r} : plan'[q] = plan[q]
      BY <1>1, <1>14 DEF LockTenant, EndReconciliation, ReconcilerDies, ReadLedger
    <2>5. UNCHANGED <<redis, counted>>
      BY <1>14 DEF LockTenant, EndReconciliation, ReconcilerDies, ReadLedger
    <2> QED BY <1>3, <2>3, <2>4, <2>5 DEF CountInv
  <1>15. ASSUME NEW r \in Reconciler, Rebuild(r) PROVE CountInv'
    <2>1. /\ redis'.count = plan[r].count
          /\ redis'.marks = (redis.marks \ plan[r].scanned) \union plan[r].marks
          /\ counted' = counted \union plan[r].marks
          /\ plan' = [plan EXCEPT ![r] = NoPlan]
      BY <1>15 DEF Rebuild
    <2>2. plan[r].marks \subseteq redis'.marks /\ redis'.marks \subseteq Key
      BY <1>1, <2>1
    <2>3. Cardinality(plan[r].marks) <= Cardinality(redis'.marks)
      BY <1>2, <2>2, FS_Subset
    <2>4. /\ Cardinality(plan[r].marks) \in Nat /\ Cardinality(redis'.marks) \in Nat
          /\ plan[r].count \in Nat
      BY <1>1, <1>2 DEF Plan
    <2>5. redis'.count <= Cardinality(redis'.marks)
      BY <1>3, <2>1, <2>3, <2>4
    <2>6. \A q \in Reconciler : plan'[q].count <= Cardinality(plan'[q].marks)
      <3>1. NoPlan.count = 0 /\ NoPlan.marks = {} /\ Cardinality({}) = 0
        BY FS_EmptySet DEF NoPlan
      <3>2. \A q \in Reconciler : plan'[q] = IF q = r THEN NoPlan ELSE plan[q]
        BY <1>1, <2>1
      <3>3. NoPlan.count <= Cardinality(NoPlan.marks)
        BY <3>1
      <3> QED BY <1>3, <3>2, <3>3
    <2> QED BY <1>3, <2>1, <2>5, <2>6 DEF CountInv
  <1>16. CASE ExpireRepairLock \/ UNCHANGED quotaVars
    BY <1>4, <1>16 DEF ExpireRepairLock, quotaVars
  <1> QED
    BY <1>7, <1>8, <1>9, <1>10, <1>11, <1>12, <1>13, <1>14, <1>15, <1>16
    DEF QuotaNext, CallerNext, PolicyNext, ReconcilerNext

\* Retries, deaths between the two stores, unanswered scripts and rebuilds never make Redis
\* count a logical call twice.
THEOREM QuotaCountsOnce == QuotaSpec => []CountedOnce
  <1>1. QuotaTypeInv /\ CountInv => CountedOnce
    <2> SUFFICES ASSUME QuotaTypeInv, CountInv PROVE CountedOnce
      OBVIOUS
    <2>1. redis.marks \subseteq counted /\ counted \subseteq Key /\ redis.count \in Nat
      BY DEF QuotaTypeInv, QuotaTypeOK, CountInv
    <2>2. IsFiniteSet(counted)
      BY <2>1, FS_Subset, QuotaAssumption
    <2>3. Cardinality(redis.marks) <= Cardinality(counted)
      BY <2>1, <2>2, FS_Subset
    <2>4. Cardinality(redis.marks) \in Nat /\ Cardinality(counted) \in Nat
      BY <2>1, <2>2, FS_Subset, FS_CardinalityType
    <2> QED BY <2>1, <2>3, <2>4 DEF CountInv, CountedOnce
  <1> QED BY <1>1, QuotaTypeInit, QuotaTypeStep, CountInit, CountStep, PTL DEF QuotaSpec
=============================================================================
