------------------------------ MODULE Registry ------------------------------
(***************************************************************************)
(* One dynamic MCP server (services/mcp_registry_service.py): its          *)
(* registration, the revisions that a restore goes back to, and its OAuth  *)
(* client credential with the access token cached in it. Updates lock the  *)
(* row and name the version they expect; a validation and a token exchange *)
(* read, talk to another server for seconds, and write without a lock.     *)
(* SQLAlchemy writes the attributes that differ from what was read.        *)
(***************************************************************************)
EXTENDS Naturals, FiniteSets, Sequences

CONSTANTS
  Config,        \* configurations of the server
  Secret,        \* client secrets
  Validator,     \* validations in progress
  Exchanger,     \* requests that write the credential, clients that need its token
  Nil,           \* nothing
  MaxRevisions,  \* bound: revisions written
  MaxRotations   \* bound: credentials written

ASSUME RegistryAssumption ==
  /\ Nil \notin Config \union Secret
  /\ MaxRevisions \in Nat \ {0} /\ MaxRotations \in Nat

VARIABLES
  registration,  \* row of the server, Nil once deleted
  revisions,     \* its revisions, oldest first
  credential,    \* row of the credential or Nil
  rotations,     \* credentials written
  validation,    \* what each validation read
  reading,       \* what each of them read
  accepted,      \* history: configurations of create, update and restore, in order
  given          \* history: secrets that requests have set in the credential there is

registryVars ==
  <<registration, revisions, credential, rotations, validation, reading, accepted, given>>

Registered == [version : Nat, config : Config, status : {"unvalidated", "valid", "invalid"}]

\* The payload is encrypted as a whole: the secret, and the token with the secret it was
\* obtained with.
Stored == [row : Nat, version : Nat, secret : Secret, token : Secret \union {Nil}]

RegistryTypeOK ==
  /\ registration \in Registered \union {Nil}
  /\ revisions \in Seq([version : Nat, action : {"create", "update", "restore", "validate"},
                        config : Config])
  /\ credential \in Stored \union {Nil} /\ rotations \in 0..MaxRotations
  /\ validation \in [Validator -> Registered \union {Nil}]
  /\ reading \in [Exchanger -> Stored \union {Nil}]
  /\ accepted \in Seq(Config) /\ given \subseteq Secret

Revision(version, action, config) == [version |-> version, action |-> action, config |-> config]

\* create
RegistryInit ==
  /\ \E config \in Config :
       /\ registration = [version |-> 1, config |-> config, status |-> "unvalidated"]
       /\ revisions = <<Revision(1, "create", config)>> /\ accepted = <<config>>
  /\ credential = Nil /\ rotations = 0 /\ given = {}
  /\ validation = [v \in Validator |-> Nil] /\ reading = [x \in Exchanger |-> Nil]

-----------------------------------------------------------------------------
(* The registration.                                                       *)

\* Faulty variant: the revision is taken before the row is changed.
RecordedBefore(before, after) == before

\* _revision takes what the row holds by then.
Recorded(before, after) == after

Change(config, expected, action) ==
  /\ registration # Nil /\ Len(revisions) < MaxRevisions
  /\ registration.version = expected
  /\ registration' = [version |-> expected + 1, config |-> config, status |-> "unvalidated"]
  /\ revisions' = Append(revisions,
       Revision(expected + 1, action, Recorded(registration.config, config)))
  /\ accepted' = Append(accepted, config)
  /\ UNCHANGED <<credential, rotations, validation, reading, given>>

UpdateServer(config, expected) == Change(config, expected, "update")

RestoreRevision(i, expected) == Change(revisions[i].config, expected, "restore")

\* Revisions and credential go with the row.
DeleteServer(expected) ==
  /\ registration # Nil /\ registration.version = expected
  /\ registration' = Nil /\ revisions' = <<>> /\ credential' = Nil /\ accepted' = <<>>
  /\ given' = {}
  /\ UNCHANGED <<rotations, validation, reading>>

StartValidation(v) ==
  /\ registration # Nil /\ validation[v] = Nil
  /\ validation' = [validation EXCEPT ![v] = registration]
  /\ UNCHANGED <<registration, revisions, credential, rotations, reading, accepted, given>>

Differing(read, new, current) == IF new = read THEN current ELSE new

\* The probe has answered or failed. The configuration is not written, its revision is that
\* of what was read; with the row gone the write fails.
EndValidation(v, verdict) ==
  LET read == validation[v] IN
  /\ read # Nil /\ Len(revisions) < MaxRevisions
  /\ validation' = [validation EXCEPT ![v] = Nil]
  /\ IF registration = Nil THEN UNCHANGED <<registration, revisions>>
     ELSE /\ registration' = [registration EXCEPT
               !.status = Differing(read.status, verdict, @), !.version = read.version + 1]
          /\ revisions' = Append(revisions, Revision(read.version + 1, "validate", read.config))
  /\ UNCHANGED <<credential, rotations, reading, accepted, given>>

-----------------------------------------------------------------------------
(* The credential.                                                         *)

\* Whoever writes the credential has read it first, at the start of the request or of the
\* network call. effective_configs asks for each server's token: the cached one, or a new
\* one when that has expired.
ReadCredential(x) ==
  /\ credential # Nil /\ reading[x] = Nil
  /\ reading' = [reading EXCEPT ![x] = credential]
  /\ UNCHANGED <<registration, revisions, credential, rotations, validation, accepted, given>>

\* Faulty variant: the write finds whatever row the server has.
AnyRow(read) == credential # Nil

\* SQLAlchemy writes to the id that was read: with no row of it the write fails.
SameRow(read) == credential # Nil /\ credential.row = read.row

\* The payload is written as a whole. An update holds no token, and of what it is written
\* over nothing remains.
WriteBack(x, secret, token) ==
  LET read == reading[x] IN
  /\ reading' = [reading EXCEPT ![x] = Nil]
  /\ IF SameRow(read)
       THEN /\ rotations < MaxRotations /\ rotations' = rotations + 1
            /\ credential' = [row |-> read.row, version |-> read.version + 1,
                              secret |-> secret, token |-> token]
       ELSE UNCHANGED <<credential, rotations>>
  /\ UNCHANGED <<registration, revisions, validation, accepted>>

\* set_credential compares the expected version with the one it has read.
RotateCredential(x, secret) ==
  /\ reading[x] # Nil /\ WriteBack(x, secret, Nil)
  /\ given' = IF SameRow(reading[x]) THEN given \union {secret} ELSE given

\* The exchange has used the secret that was read.
EndExchange(x) ==
  /\ reading[x] # Nil /\ WriteBack(x, reading[x].secret, reading[x].secret)
  /\ UNCHANGED given

\* rewrap_all encrypts with the current key what it has read.
EndRewrap(x) ==
  /\ reading[x] # Nil /\ WriteBack(x, reading[x].secret, reading[x].token)
  /\ UNCHANGED given

\* The endpoint fails and only the error is noted, or the cached token is good, or the
\* expected version is another.
StopReading(x) ==
  /\ reading[x] # Nil /\ reading' = [reading EXCEPT ![x] = Nil]
  /\ UNCHANGED <<registration, revisions, credential, rotations, validation, accepted, given>>

CreateCredential(secret) ==
  /\ registration # Nil /\ credential = Nil /\ rotations < MaxRotations
  /\ rotations' = rotations + 1
  /\ credential' = [row |-> rotations', version |-> 1, secret |-> secret, token |-> Nil]
  /\ given' = {secret}
  /\ UNCHANGED <<registration, revisions, validation, reading, accepted>>

DeleteCredential ==
  /\ credential # Nil /\ credential' = Nil /\ given' = {}
  /\ UNCHANGED <<registration, revisions, rotations, validation, reading, accepted>>

RegistryNext ==
  \/ \E expected \in 1..MaxRevisions :
       \/ \E config \in Config : UpdateServer(config, expected)
       \/ \E i \in DOMAIN revisions : RestoreRevision(i, expected)
       \/ DeleteServer(expected)
  \/ \E v \in Validator :
       StartValidation(v) \/ \E verdict \in {"valid", "invalid"} : EndValidation(v, verdict)
  \/ DeleteCredential
  \/ \E x \in Exchanger : ReadCredential(x) \/ EndExchange(x) \/ EndRewrap(x) \/ StopReading(x)
  \/ \E secret \in Secret :
       CreateCredential(secret) \/ \E x \in Exchanger : RotateCredential(x, secret)

RegistrySpec == RegistryInit /\ [][RegistryNext]_registryVars

-----------------------------------------------------------------------------
(* Properties.                                                             *)

ByRequest(history) == {i \in DOMAIN history : history[i].action # "validate"}

\* The nth revision that is not of a validation has the nth of the configurations.
Records(history, configs) ==
  /\ Cardinality(ByRequest(history)) = Len(configs)
  /\ \A i \in ByRequest(history) :
       history[i].config = configs[Cardinality({k \in ByRequest(history) : k <= i})]

\* docs/mcp-registry.md:16: the history holds every configuration a request was accepted
\* with, in order, and the row is as the last one left it, whatever validations began
\* before it and end after it. So a restore brings back what was there.
HistoryIsComplete ==
  /\ Records(revisions, accepted)
  /\ registration # Nil => registration.config = accepted[Len(accepted)]

\* A credential that was deleted stays deleted: no exchange, rewrap or rotation begun
\* before brings its secret back, also when another credential was created meanwhile. What
\* the row holds was set in it by a request, and its token was obtained with that secret.
\* It need not be the last one set: what was read before a rotation is written over it.
DeletedSecretIsGone ==
  credential # Nil =>
    credential.secret \in given /\ credential.token \in {Nil, credential.secret}
=============================================================================
