--------------------------- MODULE SchemaStartup ---------------------------
(***************************************************************************)
(* How the schema of the database comes about: the Alembic revisions, the  *)
(* commands of core/migrations.py that an operator gives one at a time,    *)
(* and core/database.py, init_db, which every backend process runs before  *)
(* it serves. A process that meets an error ends and is started again.     *)
(* PostgreSQL runs an upgrade, from the first revision it lacks to the     *)
(* last, in one transaction; every other change is a transaction of its    *)
(* own. settings.database_migrations_enabled is on.                        *)
(***************************************************************************)
EXTENDS Naturals, Sequences

CONSTANTS
  Backend,       \* processes that run init_db
  Operator,      \* who runs python -m app.core.migrations
  Unversioned,   \* the revision of a database without alembic_version
  MaxMishaps     \* bound: processes killed and databases downgraded

ASSUME SchemaAssumption ==
  MaxMishaps \in Nat /\ Operator \notin Backend /\ Unversioned \notin Nat

VARIABLES
  schema,        \* the revision the database is at and what it holds
  startup,       \* how far each process is
  mishaps        \* how often something was killed or downgraded

schemaVars == <<schema, startup, mishaps>>

-----------------------------------------------------------------------------
(* What a database holds. "core" are the tables of the first revision but  *)
(* agent_steps, which is "steps"; "phase2" are the columns older databases *)
(* lack in them, "owner" the owner_id columns, "payload" the columns of a  *)
(* restricted payload.                                                     *)

Tables == {"core", "steps", "reconciliations", "deliveries", "checkpoints", "repairs"}
Metadata == Tables \union {"phase2", "owner", "ownerIndex", "payload"}

\* The full text index is no part of the metadata.
Structure == Metadata \union {"search"}

\* Rows: runs of status success, steps with their input in clear, repositories and runs
\* without a tenant, the default tenant.
Legacy == {"success", "clear"}
Rows == Legacy \union {"orphans", "tenant"}

Initial == [adds |-> {"core", "phase2", "steps"}, drops |-> {}]
Reconciliations == [adds |-> {"reconciliations"}, drops |-> {}]
Deliveries == [adds |-> {"deliveries"}, drops |-> {}]
Statuses == [adds |-> {}, drops |-> {"success"}]
Checkpoints == [adds |-> {"checkpoints"}, drops |-> {}]
Owners == [adds |-> {"owner", "ownerIndex"}, drops |-> {}]
Search == [adds |-> {"search"}, drops |-> {}]
Repairs == [adds |-> {"repairs"}, drops |-> {}]
Payloads == [adds |-> {"payload"}, drops |-> {"clear"}]

Revisions == <<Initial, Reconciliations, Deliveries, Statuses, Checkpoints, Owners, Search,
               Repairs, Payloads>>
Newest == Len(Revisions)

\* No revision drops what another one adds, so their order does not show in the result.
Apply(held, steps) ==
  (held \union UNION {Revisions[i].adds : i \in steps}) \ UNION {Revisions[i].drops : i \in steps}
Migrated(held, from) == Apply(held, from + 1..Newest)

\* create_all makes the tables that are missing, with the columns and indexes the code of
\* today gives them, and leaves alone those that are there.
CreatedAll(held) ==
  held \union Tables
       \union (IF "core" \in held THEN {} ELSE {"phase2", "owner", "ownerIndex"})
       \union (IF "steps" \in held THEN {} ELSE {"payload"})

-----------------------------------------------------------------------------
SchemaTypeOK ==
  /\ schema \in [version: 0..Newest \union {Unversioned}, holds: SUBSET (Structure \union Rows)]
  /\ startup \in [Backend \union {Operator} ->
       [at: {"down", "upgrading", "upgraded", "inserting", "filling", "up",
             "creating", "bridging", "validating", "stamping"},
        seen: 0..Newest]]
  /\ mishaps \in 0..MaxMishaps

\* Databases that create_all of some earlier code left behind. A table it found was never
\* given a column; rows that today's code does not write are older than the columns
\* that came after them.
Abandoned ==
  {held \in SUBSET (Metadata \union Legacy \union {"orphans"}) :
     /\ "core" \in held
     /\ "payload" \in held => "steps" \in held
     /\ "ownerIndex" \in held <=> "owner" \in held
     /\ held \intersect Legacy # {} => "steps" \in held /\ "payload" \notin held}

\* Rows that the revisions a database still lacks will rewrite.
OldRows(v) == (IF v < 4 THEN {"success"} ELSE {}) \union (IF v < Newest THEN {"clear"} ELSE {})

\* Databases an earlier release brought to the newest revision of its day.
AtRevision ==
  {[version |-> v, holds |-> Apply({}, 1..v) \union OldRows(v) \union {"orphans"}] : v \in 1..Newest}

Started == [at |-> "down", seen |-> 0]

SchemaInit ==
  /\ schema \in [version: {Unversioned}, holds: Abandoned \union {{}}] \union AtRevision
  /\ startup = [p \in Backend \union {Operator} |-> Started]
  /\ mishaps = 0

-----------------------------------------------------------------------------
(* An upgrade, by init_db or as a command.                                 *)

Move(p, at) == startup' = [startup EXCEPT ![p].at = at]

\* assert_versioned_or_empty
Refused == schema.version = Unversioned /\ schema.holds # {}

Current == IF schema.version = Unversioned THEN 0 ELSE schema.version

\* A refused process ends and is started again.
BeginUpgrade(p) ==
  /\ startup[p].at = "down"
  /\ ~Refused
  /\ startup' = [startup EXCEPT ![p] = [at |-> "upgrading", seen |-> Current]]
  /\ UNCHANGED <<schema, mishaps>>

\* What another upgrade has done in between collides: a table that exists, or a revision
\* that is no longer the one to replace. At the newest there is nothing to do.
Upgrade(p) ==
  /\ startup[p].at = "upgrading"
  /\ IF startup[p].seen = Newest
       THEN Move(p, "upgraded") /\ UNCHANGED schema
       ELSE IF startup[p].seen = Current
       THEN /\ schema' = [version |-> Newest, holds |-> Migrated(schema.holds, Current)]
            /\ Move(p, "upgraded")
       ELSE Move(p, "down") /\ UNCHANGED schema
  /\ UNCHANGED mishaps

-----------------------------------------------------------------------------
(* ensure_default_mcp_tenant                                               *)

NeedsTenantAlways == TRUE
NeedsTenant == "tenant" \notin schema.holds

FindTenant(p) ==
  /\ p \in Backend
  /\ startup[p].at = "upgraded"
  /\ Move(p, IF "core" \notin schema.holds THEN "down"
             ELSE IF NeedsTenant THEN "inserting" ELSE "filling")
  /\ UNCHANGED <<schema, mishaps>>

\* The slug is unique: a second insert is an error.
InsertTenant(p) ==
  /\ startup[p].at = "inserting"
  /\ IF "core" \in schema.holds /\ "tenant" \notin schema.holds
       THEN schema' = [schema EXCEPT !.holds = @ \union {"tenant"}] /\ Move(p, "filling")
       ELSE Move(p, "down") /\ UNCHANGED schema
  /\ UNCHANGED mishaps

FillRows(p) ==
  /\ startup[p].at = "filling"
  /\ IF "core" \in schema.holds
       THEN schema' = [schema EXCEPT !.holds = @ \ {"orphans"}] /\ Move(p, "up")
       ELSE Move(p, "down") /\ UNCHANGED schema
  /\ UNCHANGED mishaps

-----------------------------------------------------------------------------
(* The operator's commands.                                                *)

\* adopt-legacy. Of a database with alembic_version it only asks for the revision; an
\* empty one it upgrades.
Adopt ==
  /\ startup[Operator].at = "down"
  /\ Refused
  /\ Move(Operator, "creating")
  /\ UNCHANGED <<schema, mishaps>>

CreateTables ==
  /\ startup[Operator].at = "creating"
  /\ schema' = [schema EXCEPT !.holds = CreatedAll(@)]
  /\ Move(Operator, "bridging")
  /\ UNCHANGED mishaps

\* ensure_phase2_columns adds one column after the other, and no index.
Bridged == {"phase2", "owner"}

BridgeColumn ==
  /\ startup[Operator].at = "bridging"
  /\ \E column \in Bridged \ schema.holds :
       schema' = [schema EXCEPT !.holds = @ \union {column}]
  /\ UNCHANGED <<startup, mishaps>>

EndBridge ==
  /\ startup[Operator].at = "bridging"
  /\ Bridged \subseteq schema.holds
  /\ Move(Operator, "validating")
  /\ UNCHANGED <<schema, mishaps>>

\* validate_metadata_columns looks at tables and columns.
TablesThere(held) == Tables \subseteq held
Validated(held) == Metadata \ {"ownerIndex"} \subseteq held

Validate ==
  /\ startup[Operator].at = "validating"
  /\ Move(Operator, IF Validated(schema.holds) THEN "stamping" ELSE "down")
  /\ UNCHANGED <<schema, mishaps>>

Stamp ==
  /\ startup[Operator].at = "stamping"
  /\ schema' = [schema EXCEPT !.version = Newest]
  /\ Move(Operator, "down")
  /\ UNCHANGED mishaps

\* The command is over and may be given again.
EndCommand ==
  /\ startup[Operator].at = "upgraded"
  /\ Move(Operator, "down")
  /\ UNCHANGED <<schema, mishaps>>

Mishap == mishaps < MaxMishaps /\ mishaps' = mishaps + 1

\* downgrade-base drops everything or, when something it drops is not there, nothing.
Downgrade ==
  /\ Mishap
  /\ startup[Operator].at = "down"
  /\ schema.version = Newest
  /\ Structure \subseteq schema.holds
  /\ schema' = [version |-> 0, holds |-> {}]
  /\ UNCHANGED startup

Kill(p) ==
  /\ Mishap
  /\ startup[p].at # "down"
  /\ Move(p, "down")
  /\ UNCHANGED schema

-----------------------------------------------------------------------------
StartUp(p) ==
  BeginUpgrade(p) \/ Upgrade(p) \/ FindTenant(p) \/ InsertTenant(p) \/ FillRows(p)

SchemaNext ==
  \/ \E p \in Backend \union {Operator} : StartUp(p) \/ Kill(p)
  \/ Adopt \/ CreateTables \/ BridgeColumn \/ EndBridge \/ Validate \/ Stamp \/ EndCommand
  \/ Downgrade

\* Backends are restarted for as long as they fail; no operator has to do anything.
SchemaFairness == \A p \in Backend : WF_schemaVars(StartUp(p))

SchemaSpec == SchemaInit /\ [][SchemaNext]_schemaVars /\ SchemaFairness

-----------------------------------------------------------------------------
\* A database that says it is at the newest revision has every table and column the code of today
\* uses, and none of the rows the revisions rewrite, however it got there: an adoption
\* that was killed halfway and given again, next to backends that start all the time,
\* never stamps a database whose revisions are still to be applied.
HeadIsComplete ==
  schema.version = Newest =>
    /\ Metadata \ {"ownerIndex"} \subseteq schema.holds
    /\ schema.holds \intersect Legacy = {}

\* Backends that start at once collide, on the tables, on the revision and on the default
\* tenant, and the losers end with an error. Started again they all come up, unless
\* the database is one that has to be adopted first.
BackendsComeUp == \A p \in Backend : ~Refused ~> startup[p].at = "up"
=============================================================================
