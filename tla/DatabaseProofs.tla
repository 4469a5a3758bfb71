-------------------------- MODULE DatabaseProofs --------------------------
(***************************************************************************)
(* Proofs about what the database holds. The outbox of audit events, for   *)
(* any requests, sinks and deliverers, however often anything dies, fails  *)
(* or is requeued; and the schema, for any number of backends that start   *)
(* while an operator adopts, upgrades or drops it.                         *)
(***************************************************************************)
EXTENDS AuditDelivery, SchemaStartup, TLAPS

Outcome == {"none", "ok", "error"}
Row == [status : RowStatus, tries : Nat, holder : Deliverer \union {Nobody}, elapsed : BOOLEAN]
Batch == [job : {"none", "recurring", "manual"}, batch : SUBSET Key, begun : BOOLEAN,
          object : SUBSET Key, tries : Nat, outcome : Outcome]

OutboxTypes ==
  /\ served \in [Request -> Stage]
  /\ outbox \in [Key -> Row]
  /\ delivery \in [Deliverer -> Batch]
  /\ received \subseteq Key

\* Before a handler runs its intent is written, and before a request is audited its
\* completion.
WrittenFirst ==
  \A r \in Request, sink \in Sink :
    /\ outbox[<<<<r, "intent">>, sink>>].status = "absent" => served[r] \in {"new", "refused"}
    /\ outbox[<<<<r, "completion">>, sink>>].status = "absent" => served[r] # "audited"

\* A row is settled, or deleted, as delivered only after its sink has the event; so is the
\* outcome that a deliverer has yet to write. Without a row in hand there is no outcome.
SentFirst ==
  /\ \A k \in Key : outbox[k].status \in {"delivered", "purged"} => k \in received
  /\ \A d \in Deliverer :
       /\ delivery[d].outcome = "ok" => delivery[d].object \subseteq received
       /\ delivery[d].object = {} => delivery[d].outcome = "none"

OutboxInv == OutboxTypes /\ WrittenFirst /\ SentFirst

LEMMA KeyOf ==
  ASSUME NEW r \in Request, NEW stage \in {"intent", "completion"}, NEW sink \in Sink
  PROVE  <<<<r, stage>>, sink>> \in Key
  BY DEF Key, Event

LEMMA RowTypes == Missing \in Row /\ Pending \in Row /\ NoDelivery \in Batch
  BY DEF Missing, Pending, NoDelivery, Row, Batch, RowStatus, Outcome

LEMMA OutboxInit == AuditInit => OutboxInv
  <1> SUFFICES ASSUME AuditInit PROVE OutboxInv
    OBVIOUS
  <1>1. OutboxTypes
    BY RowTypes DEF AuditInit, OutboxTypes, Stage
  <1>2. WrittenFirst
    BY DEF AuditInit, WrittenFirst
  <1>3. SentFirst
    BY DEF AuditInit, SentFirst, Missing, NoDelivery
  <1>4. QED
    BY <1>1, <1>2, <1>3 DEF OutboxInv

\* What a record of an event does to its rows and to the others.
LEMMA EnqueueRows ==
  ASSUME OutboxTypes, NEW e \in Event, Enqueue(e)
  PROVE  /\ outbox' \in [Key -> Row]
         /\ \A k \in Key : k[1] = e => outbox'[k].status # "absent"
         /\ \A k \in Key : outbox'[k].status \in {outbox[k].status, "pending"}
  BY RowTypes DEF OutboxTypes, Enqueue, Pending, Missing

\* The middleware.
LEMMA ServingKeepsInv ==
  ASSUME OutboxInv, NEW r \in Request, WriteIntent(r) \/ Handle(r) \/ WriteCompletion(r)
  PROVE  OutboxInv'
  <1> USE DEF OutboxInv
  <1>0. /\ <<r, "intent">> \in Event /\ <<r, "completion">> \in Event
        /\ delivery' = delivery /\ received' = received
    BY DEF Event, WriteIntent, Handle, WriteCompletion
  <1>1. CASE WriteIntent(r)
    <2>1. OutboxTypes'
      BY <1>0, <1>1, EnqueueRows DEF WriteIntent, OutboxTypes, Stage
    <2>2. WrittenFirst'
      BY <1>0, <1>1, EnqueueRows, KeyOf DEF WriteIntent, OutboxTypes, WrittenFirst
    <2>3. SentFirst'
      BY <1>0, <1>1, EnqueueRows DEF WriteIntent, SentFirst
    <2>4. QED
      BY <2>1, <2>2, <2>3
  <1>2. CASE Handle(r)
    BY <1>0, <1>2 DEF Handle, OutboxTypes, WrittenFirst, SentFirst, Stage
  <1>3. CASE WriteCompletion(r)
    <2>1. OutboxTypes'
      BY <1>0, <1>3, EnqueueRows DEF WriteCompletion, OutboxTypes, Stage
    <2>2. WrittenFirst'
      BY <1>0, <1>3, EnqueueRows, KeyOf DEF WriteCompletion, OutboxTypes, WrittenFirst
    <2>3. SentFirst'
      BY <1>0, <1>3, EnqueueRows DEF WriteCompletion, SentFirst
    <2>4. QED
      BY <2>1, <2>2, <2>3
  <1>4. QED
    BY <1>1, <1>2, <1>3

\* A step that changes neither the requests nor what was received, leaves every row as it
\* is or makes it one that is still to be sent, and hears of nothing.
LEMMA OpenStep ==
  ASSUME OutboxInv,
         served' = served, received' = received,
         outbox' \in [Key -> Row], delivery' \in [Deliverer -> Batch],
         \A k \in Key : \/ outbox'[k].status = outbox[k].status
                        \/ outbox'[k].status \notin {"absent", "delivered", "purged"},
         \A d \in Deliverer : \/ delivery'[d].outcome = "none"
                              \/ /\ delivery'[d].outcome = delivery[d].outcome
                                 /\ delivery'[d].object = delivery[d].object
  PROVE  OutboxInv'
  <1>1. OutboxTypes'
    BY DEF OutboxInv, OutboxTypes
  <1>2. WrittenFirst'
    BY KeyOf DEF OutboxInv, WrittenFirst
  <1>3. SentFirst'
    BY DEF OutboxInv, SentFirst
  <1>4. QED
    BY <1>1, <1>2, <1>3 DEF OutboxInv

\* Claiming a batch, and whatever ends one without an outcome.
LEMMA JobKeepsInv ==
  ASSUME OutboxInv, NEW d \in Deliverer,
         DeliverJob(d) \/ DeliverNow(d) \/ Abandon(d) \/ Die(d)
  PROVE  OutboxInv'
  <1> USE DEF OutboxInv, OutboxTypes
  <1>1. ASSUME NEW job \in {"recurring", "manual"}, Begin(d, job) PROVE OutboxInv'
    <2>1. outbox' \in [Key -> Row]
      BY <1>1, AuditAssumption DEF Begin, AtMost, Row, RowStatus
    <2>2. delivery' \in [Deliverer -> Batch]
      BY <1>1, RowTypes DEF Begin, Batch, NoDelivery
    <2>3. /\ \A k \in Key : \/ outbox'[k].status = outbox[k].status
                            \/ outbox'[k].status = "delivering"
          /\ \A o \in Deliverer : delivery'[o].outcome = "none" \/ delivery'[o] = delivery[o]
      BY <1>1 DEF Begin, NoDelivery
    <2>4. QED
      BY <1>1, <2>1, <2>2, <2>3, OpenStep DEF Begin
  <1>2. CASE Abandon(d) \/ Die(d)
    <2>1. /\ delivery' = [delivery EXCEPT ![d] = NoDelivery]
          /\ served' = served /\ outbox' = outbox /\ received' = received
      BY <1>2 DEF Abandon, Die
    <2>2. delivery' \in [Deliverer -> Batch]
      BY <2>1, RowTypes
    <2>3. \A o \in Deliverer : delivery'[o].outcome = "none" \/ delivery'[o] = delivery[o]
      BY <2>1 DEF NoDelivery
    <2>4. QED
      BY <2>1, <2>2, <2>3, OpenStep
  <1>3. QED
    BY <1>1, <1>2 DEF DeliverJob, DeliverNow

\* Delivering a row of the batch.
LEMMA DeliverKeepsInv ==
  ASSUME OutboxInv, NEW d \in Deliverer, Deliver(d)
  PROVE  OutboxInv'
  <1> USE DEF OutboxInv, OutboxTypes
  <1>1. ASSUME NEW k \in Key, TakeNext(d, k) PROVE OutboxInv'
    <2>1. outbox' = outbox /\ received' = received /\ served' = served
      BY <1>1 DEF TakeNext
    <2>2. delivery' \in [Deliverer -> Batch]
      <3>1. outbox[k].tries \in Nat
        BY DEF Row
      <3> DEFINE object == IF outbox[k].holder = d THEN {k} ELSE {}
                 tries == IF outbox[k].holder = d THEN outbox[k].tries ELSE 0
      <3>2. /\ object \in SUBSET Key /\ tries \in Nat
            /\ delivery' = [delivery EXCEPT ![d].batch = @ \ {k}, ![d].begun = TRUE,
                                            ![d].object = object, ![d].tries = tries]
        BY <1>1, <3>1 DEF TakeNext
      <3> HIDE DEF object, tries
      <3>3. delivery[d] \in Batch
        OBVIOUS
      <3>4. [delivery[d] EXCEPT !.batch = @ \ {k}, !.begun = TRUE,
                                !.object = object, !.tries = tries] \in Batch
        BY <3>2, <3>3 DEF Batch
      <3>5. QED
        BY <3>2, <3>4
    <2>3. \A o \in Deliverer : o # d => delivery'[o] = delivery[o]
      BY <1>1 DEF TakeNext
    <2>4. /\ delivery'[d].outcome = delivery[d].outcome
          /\ delivery'[d].object \in {{k}, {}} /\ delivery[d].object = {}
      BY <1>1 DEF TakeNext, Batch
    <2>5. delivery[d].outcome = "none"
      BY <2>4 DEF SentFirst
    <2>6. SentFirst'
      BY <2>1, <2>3, <2>4, <2>5 DEF SentFirst
    <2>7. QED
      BY <2>1, <2>2, <2>6 DEF WrittenFirst
  <1>2. ASSUME NEW taken \in BOOLEAN, NEW outcome \in {"ok", "error"},
               Transmit(d, taken, outcome)
        PROVE  OutboxInv'
    <2>1. /\ outbox' = outbox /\ served' = served
          /\ delivery' = [delivery EXCEPT ![d].outcome = outcome]
          /\ received \subseteq received'
      BY <1>2 DEF Transmit
    <2>2. delivery[d].object \subseteq Key
      BY DEF Batch
    <2>3. OutboxTypes'
      <3>1. delivery' \in [Deliverer -> Batch]
        <4>1. delivery[d] \in Batch
          OBVIOUS
        <4>2. [delivery[d] EXCEPT !.outcome = outcome] \in Batch
          BY <1>2, <4>1 DEF Batch, Outcome
        <4> QED BY <2>1, <4>2
      <3>2. received' \subseteq Key
        BY <1>2, <2>2 DEF Transmit
      <3> QED BY <1>2, <2>1, <3>1, <3>2 DEF Transmit
    <2>4. WrittenFirst'
      BY <2>1 DEF WrittenFirst
    <2>5. outcome = "ok" => delivery[d].object \subseteq received'
      BY <1>2 DEF Transmit
    <2>6. SentFirst'
      BY <1>2, <2>1, <2>5 DEF Transmit, SentFirst, Batch
    <2>7. QED
      BY <2>3, <2>4, <2>6
  <1>3. CASE Settle(d)
    <2>1. served' = served /\ received' = received
      BY <1>3 DEF Settle
    <2>2. outbox' \in [Key -> Row]
      <3>1. \A outcome, tries : OutcomeStatus(outcome, tries) \in RowStatus
        BY DEF OutcomeStatus, RowStatus
      <3>2. \A k \in Key, status \in RowStatus :
              [outbox[k] EXCEPT !.status = status, !.holder = Nobody, !.elapsed = FALSE] \in Row
        BY DEF Row
      <3>3. QED
        BY <1>3, <3>1, <3>2 DEF Settle
    <2>3. delivery' \in [Deliverer -> Batch]
      <3>1. delivery' = [delivery EXCEPT ![d].object = {}, ![d].tries = 0, ![d].outcome = "none"]
        BY <1>3 DEF Settle
      <3>2. [delivery[d] EXCEPT !.object = {}, !.tries = 0, !.outcome = "none"] \in Batch
        BY DEF Batch, Outcome
      <3>3. QED
        BY <3>1, <3>2
    <2>4. \A k \in Key : \/ outbox'[k].status = outbox[k].status
                         \/ outbox'[k].status \in {"retry", "dead_letter"}
                         \/ outbox'[k].status = "delivered" /\ k \in received
      BY <1>3 DEF Settle, OutcomeStatus, SentFirst, Row
    <2>5. \A o \in Deliverer : delivery'[o].outcome = "none" \/ delivery'[o] = delivery[o]
      BY <1>3 DEF Settle, Batch
    <2>6. WrittenFirst'
      BY <2>1, <2>4, KeyOf DEF WrittenFirst
    <2>7. SentFirst'
      BY <2>1, <2>4, <2>5 DEF SentFirst
    <2>8. QED
      BY <2>1, <2>2, <2>3, <2>6, <2>7
  <1>4. CASE Finish(d)
    <2>1. served' = served /\ received' = received
          /\ delivery' = [delivery EXCEPT ![d] = NoDelivery]
      BY <1>4 DEF Finish
    <2>2. PICK old \in SUBSET Purgeable :
            outbox' = [k \in Key |-> IF k \in old THEN [Missing EXCEPT !.status = "purged"]
                                    ELSE outbox[k]]
      BY <1>4 DEF Finish
    <2>3. \A k \in old : k \in Key /\ outbox[k].status = "delivered"
      BY <2>2 DEF Purgeable
    <2>4. outbox' \in [Key -> Row]
      BY <2>2 DEF Missing, Row, RowStatus
    <2>5. \A k \in Key : \/ outbox'[k].status = outbox[k].status
                         \/ outbox'[k].status = "purged" /\ k \in received
      BY <2>2, <2>3 DEF Missing, SentFirst
    <2>6. delivery' \in [Deliverer -> Batch]
      BY <2>1, RowTypes
    <2>7. \A o \in Deliverer : delivery'[o].outcome = "none" \/ delivery'[o] = delivery[o]
      BY <2>1 DEF NoDelivery
    <2>8. WrittenFirst'
      BY <2>1, <2>5, KeyOf DEF WrittenFirst
    <2>9. SentFirst'
      BY <2>1, <2>5, <2>7 DEF SentFirst
    <2>10. QED
      BY <2>1, <2>4, <2>6, <2>8, <2>9
  <1>5. QED
    BY <1>1, <1>2, <1>3, <1>4 DEF Deliver

LEMMA OutboxStep == OutboxInv /\ [AuditNext]_auditVars => OutboxInv'
  <1> SUFFICES ASSUME OutboxInv, [AuditNext]_auditVars PROVE OutboxInv'
    OBVIOUS
  <1>1. ASSUME NEW k \in Key, DeadlinePasses(k) PROVE OutboxInv'
    <2>1. outbox' \in [Key -> Row] /\ \A j \in Key : outbox'[j].status = outbox[j].status
      BY <1>1 DEF DeadlinePasses, OutboxInv, OutboxTypes, Row
    <2>2. QED
      BY <1>1, <2>1, OpenStep DEF DeadlinePasses, OutboxInv, OutboxTypes
  <1>2. CASE Requeue
    <2>1. /\ outbox' \in [Key -> Row]
          /\ \A j \in Key : outbox'[j].status \in {outbox[j].status, "pending"}
      BY <1>2, RowTypes DEF Requeue, OutboxInv, OutboxTypes, Pending, Missing
    <2>2. QED
      BY <1>2, <2>1, OpenStep DEF Requeue, OutboxInv, OutboxTypes
  <1>3. CASE Startup \/ UNCHANGED auditVars
    BY <1>3 DEF Startup, auditVars, OutboxInv, OutboxTypes, WrittenFirst, SentFirst
  <1>4. QED
    BY <1>1, <1>2, <1>3, ServingKeepsInv, JobKeepsInv, DeliverKeepsInv DEF AuditNext

\* A handler runs only after the intent of its request is in the outbox, and no retry, late
\* outcome, dead letter or purge takes a row away before its sink has the event.
THEOREM EventsAreKept == AuditSpec => []NothingIsLost
  <1>1. OutboxInv => NothingIsLost
    <2> SUFFICES ASSUME OutboxInv, NEW k \in Key
                 PROVE  LET r == k[1][1] IN
                        \/ k[1][2] = "intent" /\ served[r] \in {"handled", "audited", "unaudited"}
                        \/ k[1][2] = "completion" /\ served[r] = "audited"
                        => Open(k) \/ outbox[k].status = "dead_letter" \/ k \in received
      BY DEF NothingIsLost
    <2>1. PICK r \in Request, stage \in {"intent", "completion"}, sink \in Sink :
            k = <<<<r, stage>>, sink>>
      BY DEF Key, Event
    <2>2. outbox[k].status \in RowStatus
      BY DEF OutboxInv, OutboxTypes, Row
    <2>3. QED
      BY <2>1, <2>2 DEF OutboxInv, WrittenFirst, SentFirst, Open, RowStatus
  <1>2. QED
    BY <1>1, OutboxInit, OutboxStep, PTL DEF AuditSpec

-----------------------------------------------------------------------------
(* The schema.                                                             *)

Phase == {"down", "upgrading", "upgraded", "inserting", "filling", "up",
          "creating", "bridging", "validating", "stamping"}
Adopting == {"creating", "bridging", "validating", "stamping"}

\* What an adoption leaves out, and validate_metadata_columns does not look at
Unindexed == {"ownerIndex", "search"}

SchemaTypes ==
  /\ schema \in [version : 0..Newest \union {Unversioned}, holds : SUBSET (Structure \union Rows)]
  /\ startup \in [Backend \union {Operator} -> [at : Phase, seen : 0..Newest]]

\* Every revision up to the database's has been applied, or what it would do is there.
RevisionsHold ==
  \A i \in 1..Current : /\ Revisions[i].adds \ Unindexed \subseteq schema.holds
                        /\ Revisions[i].drops \intersect schema.holds = {}

\* An old database is nobody's but the operator's until it is stamped. Rows of old are in
\* it only as long as it lacks the columns of a restricted payload.
Adoptable ==
  /\ Refused =>
       /\ "payload" \in schema.holds => Legacy \intersect schema.holds = {}
       /\ Legacy \intersect schema.holds # {} => "steps" \in schema.holds
       /\ \A p \in Backend : startup[p].at = "down"
       /\ startup[Operator].at \in {"down"} \union Adopting
       /\ startup[Operator].at = "stamping" => Validated(schema.holds)
  /\ startup[Operator].at \in Adopting => Refused

SchemaInv == SchemaTypes /\ RevisionsHold /\ Adoptable

\* Revisions add structure and rewrite rows of old: none drops what another adds.
LEMMA RevisionsAreDisjoint ==
  /\ Newest = 9
  /\ \A i \in 1..9 : Revisions[i].adds \subseteq Structure /\ Revisions[i].drops \subseteq Legacy
  /\ Structure \intersect Rows = {}
  <1>1. Newest = 9
    BY DEF Newest, Revisions
  <1>2. \A i \in 1..9 : Revisions[i] \in {Initial, Reconciliations, Deliveries, Statuses,
                          Checkpoints, Owners, Search, Repairs, Payloads}
    BY DEF Revisions
  <1>3. \A r \in {Initial, Reconciliations, Deliveries, Statuses, Checkpoints, Owners, Search,
                  Repairs, Payloads} : r.adds \subseteq Structure /\ r.drops \subseteq Legacy
    BY DEF Initial, Reconciliations, Deliveries, Statuses, Checkpoints, Owners, Search, Repairs,
           Payloads, Structure, Metadata, Tables, Legacy
  <1>4. Structure \intersect Rows = {}
    BY DEF Structure, Metadata, Tables, Rows, Legacy
  <1> QED BY <1>1, <1>2, <1>3, <1>4

\* Together they make the metadata, and no row of old is left.
LEMMA RevisionsAreComplete ==
  ASSUME NEW held, \A i \in 1..9 : /\ Revisions[i].adds \ Unindexed \subseteq held
                                   /\ Revisions[i].drops \intersect held = {}
  PROVE  Metadata \ {"ownerIndex"} \subseteq held /\ held \intersect Legacy = {}
  <1>1. /\ Revisions[1] = Initial /\ Revisions[2] = Reconciliations /\ Revisions[3] = Deliveries
        /\ Revisions[4] = Statuses /\ Revisions[5] = Checkpoints /\ Revisions[6] = Owners
        /\ Revisions[8] = Repairs /\ Revisions[9] = Payloads
    BY DEF Revisions
  <1>2. {"core", "phase2", "steps"} \subseteq held
    BY <1>1 DEF Initial, Unindexed
  <1>3. "reconciliations" \in held /\ "deliveries" \in held
    BY <1>1 DEF Reconciliations, Deliveries, Unindexed
  <1>4. "checkpoints" \in held /\ "owner" \in held
    BY <1>1 DEF Checkpoints, Owners, Unindexed
  <1>5. "repairs" \in held /\ "payload" \in held
    BY <1>1 DEF Repairs, Payloads, Unindexed
  <1>6. "success" \notin held /\ "clear" \notin held
    BY <1>1 DEF Statuses, Payloads
  <1> QED BY <1>2, <1>3, <1>4, <1>5, <1>6 DEF Metadata, Tables, Legacy

LEMMA UpgradeCompletes ==
  ASSUME SchemaTypes, RevisionsHold
  PROVE  /\ Migrated(schema.holds, Current) \subseteq Structure \union Rows
         /\ \A i \in 1..9 :
              /\ Revisions[i].adds \ Unindexed \subseteq Migrated(schema.holds, Current)
              /\ Revisions[i].drops \intersect Migrated(schema.holds, Current) = {}
  <1> DEFINE new == Migrated(schema.holds, Current)
  <1>1. Current \in 0..9 /\ schema.holds \subseteq Structure \union Rows
    BY RevisionsAreDisjoint DEF SchemaTypes, Current
  <1>2. \A x : x \in new <=> /\ \/ x \in schema.holds
                                \/ \E i \in Current + 1..9 : x \in Revisions[i].adds
                             /\ \A i \in Current + 1..9 : x \notin Revisions[i].drops
    BY RevisionsAreDisjoint DEF Migrated, Apply
  <1>3. /\ \A i \in Current + 1..9 : i \in 1..9
        /\ \A i \in 1..9 : i \in 1..Current \/ i \in Current + 1..9
    BY <1>1
  <1> HIDE DEF new
  <1>4. \A i, k \in 1..9 : \A x \in Revisions[i].adds : x \notin Revisions[k].drops
    BY RevisionsAreDisjoint DEF Rows
  <1>5. new \subseteq Structure \union Rows
    BY <1>1, <1>2, <1>3, RevisionsAreDisjoint DEF Rows
  <1>6. ASSUME NEW i \in 1..9, NEW x \in Revisions[i].adds \ Unindexed PROVE x \in new
    <2>1. x \in schema.holds \/ i \in Current + 1..9
      BY <1>3, <1>6 DEF RevisionsHold
    <2> QED BY <1>2, <1>3, <1>4, <1>6, <2>1
  <1>7. ASSUME NEW i \in 1..9, NEW x \in Revisions[i].drops PROVE x \notin new
    <2>1. x \notin schema.holds \/ i \in Current + 1..9
      BY <1>3, <1>7 DEF RevisionsHold
    <2> QED BY <1>2, <1>3, <1>4, <1>7, <2>1
  <1> QED BY <1>5, <1>6, <1>7 DEF new

LEMMA SchemaInitial == SchemaInit => SchemaInv
  <1> SUFFICES ASSUME SchemaInit PROVE SchemaInv
    OBVIOUS
  <1>1. \A p \in Backend \union {Operator} : startup[p] = Started
    BY DEF SchemaInit
  <1>2. startup \in [Backend \union {Operator} -> [at : Phase, seen : 0..Newest]]
    BY RevisionsAreDisjoint DEF SchemaInit, Started, Phase
  <1>3. CASE schema \in [version: {Unversioned}, holds: Abandoned \union {{}}]
    <2>1. /\ schema.version = Unversioned /\ Current = 0
          /\ schema.holds \in Abandoned \/ schema.holds = {}
      BY <1>3 DEF Current
    <2>2. schema.holds \subseteq Structure \union Rows
      BY <2>1 DEF Abandoned, Structure, Rows
    <2>3. SchemaTypes
      BY <1>2, <1>3, <2>2 DEF SchemaTypes
    <2>4. RevisionsHold
      BY <2>1 DEF RevisionsHold
    <2>5. Adoptable
      BY <1>1, <2>1 DEF Adoptable, Refused, Abandoned, Started, Adopting
    <2> QED BY <2>3, <2>4, <2>5 DEF SchemaInv
  <1>4. CASE schema \in AtRevision
    <2>1. PICK v \in 1..9 : schema = [version |-> v,
                    holds |-> Apply({}, 1..v) \union OldRows(v) \union {"orphans"}]
      BY <1>4, RevisionsAreDisjoint DEF AtRevision
    <2>2. schema.version = v /\ v # Unversioned /\ Current = v
      BY <2>1, SchemaAssumption DEF Current
    <2>3. \A x : x \in Apply({}, 1..v) <=>
                   /\ \E i \in 1..v : x \in Revisions[i].adds
                   /\ \A i \in 1..v : x \notin Revisions[i].drops
      BY DEF Apply
    <2>4. \A i \in 1..v : i \in 1..9
      OBVIOUS
    <2>5. OldRows(v) \subseteq Legacy /\ OldRows(v) \subseteq Rows /\ "orphans" \in Rows \ Legacy
      BY DEF OldRows, Legacy, Rows
    <2>6. schema.holds \subseteq Structure \union Rows
      BY <2>1, <2>3, <2>4, <2>5, RevisionsAreDisjoint
    <2>7. SchemaTypes
      BY <1>2, <2>1, <2>6, RevisionsAreDisjoint DEF SchemaTypes
    <2>8. ASSUME NEW i \in 1..v, NEW x \in Revisions[i].adds \ Unindexed PROVE x \in schema.holds
      BY <2>1, <2>3, <2>4, RevisionsAreDisjoint DEF Rows
    <2>9. ASSUME NEW i \in 1..v PROVE Revisions[i].drops \intersect OldRows(v) = {}
      <3>1. Revisions[i].drops # {} => i \in {4, 9}
        BY <2>4 DEF Revisions, Initial, Reconciliations, Deliveries, Statuses, Checkpoints,
                    Owners, Search, Repairs, Payloads
      <3>2. Revisions[4].drops = {"success"} /\ Revisions[9].drops = {"clear"}
        BY DEF Revisions, Statuses, Payloads
      <3>3. /\ i = 4 => "success" \notin OldRows(v)
            /\ i = 9 => "clear" \notin OldRows(v)
        BY RevisionsAreDisjoint DEF OldRows
      <3> QED BY <3>1, <3>2, <3>3
    <2>10. \A i \in 1..v : Revisions[i].drops \intersect schema.holds = {}
      BY <2>1, <2>3, <2>4, <2>5, <2>9, RevisionsAreDisjoint
    <2>11. RevisionsHold
      BY <2>2, <2>8, <2>10 DEF RevisionsHold
    <2>12. Adoptable
      BY <1>1, <2>2 DEF Adoptable, Refused, Started, Adopting
    <2> QED BY <2>7, <2>11, <2>12 DEF SchemaInv
  <1> QED BY <1>3, <1>4 DEF SchemaInit

LEMMA SchemaRecord ==
  ASSUME NEW V, NEW H, NEW v \in V, NEW h \in H
  PROVE  [version |-> v, holds |-> h] \in [version : V, holds : H]
  OBVIOUS

\* Steps that leave the schema alone and put one process elsewhere
LEMMA ProcessMoves ==
  ASSUME SchemaInv, NEW p \in Backend \union {Operator}, NEW at \in Phase, NEW seen \in 0..Newest,
         startup' = [startup EXCEPT ![p] = [at |-> at, seen |-> seen]], schema' = schema,
         Refused => \/ at = "down"
                    \/ p = Operator /\ at \in Adopting \ {"stamping"}
                    \/ p = Operator /\ at = "stamping" /\ Validated(schema.holds),
         p = Operator /\ at \in Adopting => Refused
  PROVE  SchemaInv'
  <1>1. SchemaTypes'
    BY DEF SchemaInv, SchemaTypes
  <1>2. RevisionsHold'
    BY DEF SchemaInv, RevisionsHold, Current
  <1>3. /\ startup'[p].at = at
        /\ \A q \in Backend \union {Operator} : q # p => startup'[q] = startup[q]
    BY DEF SchemaInv, SchemaTypes
  <1>4. Adoptable'
    BY <1>3, SchemaAssumption DEF SchemaInv, Adoptable, Refused, Adopting
  <1> QED BY <1>1, <1>2, <1>4 DEF SchemaInv

\* Move keeps what the process has seen.
LEMMA MoveMoves ==
  ASSUME SchemaInv, NEW p \in Backend \union {Operator}, NEW at \in Phase, Move(p, at)
  PROVE  /\ startup[p].seen \in 0..Newest
         /\ startup' = [startup EXCEPT ![p] = [at |-> at, seen |-> startup[p].seen]]
  <1>1. /\ startup \in [Backend \union {Operator} -> [at : Phase, seen : 0..Newest]]
        /\ startup' = [startup EXCEPT ![p] = [startup[p] EXCEPT !.at = at]]
    BY DEF SchemaInv, SchemaTypes, Move
  <1>2. startup[p] \in [at : Phase, seen : 0..Newest]
    BY <1>1
  <1>3. [startup[p] EXCEPT !.at = at] = [at |-> at, seen |-> startup[p].seen]
    BY <1>2
  <1> QED BY <1>1, <1>2, <1>3

\* Processes of a database that is not refused change rows of today or upgrade the whole.
LEMMA SchemaChanges ==
  ASSUME SchemaInv, NEW p \in Backend \union {Operator}, NEW at \in Phase \ Adopting, Move(p, at),
         ~Refused, ~Refused', NEW holds \in SUBSET (Structure \union Rows),
         NEW version \in 0..9, schema' = [version |-> version, holds |-> holds],
         \A i \in 1..version : /\ Revisions[i].adds \ Unindexed \subseteq holds
                               /\ Revisions[i].drops \intersect holds = {}
  PROVE  SchemaInv'
  <1>1. SchemaTypes'
    BY MoveMoves, RevisionsAreDisjoint DEF SchemaInv, SchemaTypes
  <1>2. RevisionsHold'
    BY SchemaAssumption DEF RevisionsHold, Current
  <1>3. startup'[Operator].at \notin Adopting
    BY DEF SchemaInv, SchemaTypes, Adoptable, Move
  <1> QED BY <1>1, <1>2, <1>3 DEF SchemaInv, Adoptable

LEMMA UpgradeStep ==
  ASSUME SchemaInv, NEW p \in Backend \union {Operator}, BeginUpgrade(p) \/ Upgrade(p)
  PROVE  SchemaInv'
  <1>1. /\ startup[p] \in [at : Phase, seen : 0..Newest] /\ Current \in 0..Newest
        /\ Newest = 9 /\ {"upgrading", "upgraded", "down"} \subseteq Phase \ Adopting
    BY RevisionsAreDisjoint DEF SchemaInv, SchemaTypes, Current, Phase, Adopting
  <1>2. CASE BeginUpgrade(p)
    <2>1. ~Refused /\ startup' = [startup EXCEPT ![p] = [at |-> "upgrading", seen |-> Current]]
      BY <1>2 DEF BeginUpgrade
    <2> QED BY <1>1, <1>2, <2>1, ProcessMoves DEF BeginUpgrade
  <1>3. CASE Upgrade(p)
    <2>1. ~Refused
      BY <1>3 DEF Upgrade, SchemaInv, Adoptable, Adopting
    <2>2. ASSUME NEW at \in {"upgraded", "down"}, Move(p, at), schema' = schema PROVE SchemaInv'
      BY <1>1, <2>1, <2>2, MoveMoves, ProcessMoves
    <2>3. ASSUME Move(p, "upgraded"),
                 schema' = [version |-> Newest, holds |-> Migrated(schema.holds, Current)]
          PROVE  SchemaInv'
      <3>1. ~Refused'
        BY <1>1, <2>3, SchemaAssumption DEF Refused
      <3>2. SchemaTypes /\ RevisionsHold
        BY DEF SchemaInv
      <3>3. /\ Migrated(schema.holds, Current) \in SUBSET (Structure \union Rows)
            /\ \A i \in 1..Newest :
                 /\ Revisions[i].adds \ Unindexed \subseteq Migrated(schema.holds, Current)
                 /\ Revisions[i].drops \intersect Migrated(schema.holds, Current) = {}
        BY <1>1, <3>2, UpgradeCompletes
      <3> DEFINE holds == Migrated(schema.holds, Current)
      <3>4. holds \in SUBSET (Structure \union Rows) /\ schema' = [version |-> Newest, holds |-> holds]
        BY <2>3, <3>3
      <3>5. \A i \in 1..Newest : /\ Revisions[i].adds \ Unindexed \subseteq holds
                                  /\ Revisions[i].drops \intersect holds = {}
        BY <3>3
      <3>6. "upgraded" \in Phase \ Adopting /\ Newest \in 0..9
        BY <1>1
      <3> HIDE DEF holds
      <3> QED BY <2>1, <2>3, <3>1, <3>4, <3>5, <3>6, SchemaChanges
    <2> QED BY <1>3, <2>2, <2>3 DEF Upgrade
  <1> QED BY <1>2, <1>3

LEMMA TenantStep ==
  ASSUME SchemaInv, NEW p \in Backend \union {Operator},
         FindTenant(p) \/ InsertTenant(p) \/ FillRows(p)
  PROVE  SchemaInv'
  <1>1. ~Refused /\ {"down", "inserting", "filling", "up"} \subseteq Phase \ Adopting
    BY DEF FindTenant, InsertTenant, FillRows, SchemaInv, Adoptable, Adopting, Phase
  <1>2. ASSUME NEW at \in {"down", "inserting", "filling"}, Move(p, at), schema' = schema
        PROVE  SchemaInv'
    BY <1>1, <1>2, MoveMoves, ProcessMoves
  <1>3. ASSUME NEW at \in {"filling", "up"}, Move(p, at), "core" \in schema.holds,
               NEW holds \in {schema.holds \union {"tenant"}, schema.holds \ {"orphans"}},
               schema' = [schema EXCEPT !.holds = holds]
        PROVE  SchemaInv'
    <2>1. schema.version \in 0..9 /\ schema.version # Unversioned /\ Current = schema.version
      BY <1>1, <1>3, RevisionsAreDisjoint, SchemaAssumption
         DEF SchemaInv, SchemaTypes, Refused, Current
    <2>2. schema' = [version |-> schema.version, holds |-> holds]
      BY <1>3 DEF SchemaInv, SchemaTypes
    <2>3. schema.holds \subseteq Structure \union Rows /\ {"tenant", "orphans"} \subseteq Rows \ Legacy
      BY DEF SchemaInv, SchemaTypes, Rows, Legacy
    <2>4. holds \in SUBSET (Structure \union Rows)
      BY <1>3, <2>3
    <2>5. ASSUME NEW i \in 1..schema.version
          PROVE  /\ Revisions[i].adds \ Unindexed \subseteq holds
                 /\ Revisions[i].drops \intersect holds = {}
      <3>1. i \in 1..9 /\ i \in 1..Current
        BY <2>1
      <3>2. /\ Revisions[i].adds \ Unindexed \subseteq schema.holds
            /\ Revisions[i].drops \intersect schema.holds = {}
        BY <3>1 DEF SchemaInv, RevisionsHold
      <3>3. "orphans" \notin Revisions[i].adds /\ "tenant" \notin Revisions[i].drops
        BY <2>3, <3>1, RevisionsAreDisjoint
      <3> QED BY <1>3, <3>2, <3>3
    <2>6. ~Refused'
      BY <2>1, <2>2 DEF Refused
    <2> QED BY <1>1, <1>3, <2>1, <2>2, <2>4, <2>5, <2>6, SchemaChanges
  <1>4. CASE FindTenant(p)
    BY <1>2, <1>4 DEF FindTenant
  <1>5. CASE InsertTenant(p)
    BY <1>2, <1>3, <1>5 DEF InsertTenant
  <1>6. CASE FillRows(p)
    BY <1>2, <1>3, <1>6 DEF FillRows
  <1> QED BY <1>4, <1>5, <1>6

\* The adoption gives an old database its tables and columns, and stamps it when it has them.
LEMMA AdoptionStep ==
  ASSUME SchemaInv, CreateTables \/ BridgeColumn \/ Stamp
  PROVE  SchemaInv'
  <1>1. /\ Refused /\ schema.version = Unversioned /\ SchemaTypes
        /\ startup \in [Backend \union {Operator} -> [at : Phase, seen : 0..Newest]]
        /\ schema.holds \subseteq Structure \union Rows
        /\ "payload" \in schema.holds => Legacy \intersect schema.holds = {}
        /\ Legacy \intersect schema.holds # {} => "steps" \in schema.holds
        /\ \A p \in Backend : startup[p].at = "down"
    BY DEF CreateTables, BridgeColumn, Stamp, SchemaInv, SchemaTypes, Adoptable, Adopting, Refused
  <1>2. ASSUME NEW holds \in SUBSET (Structure \union Rows), schema' = [schema EXCEPT !.holds = holds],
               schema.holds \subseteq holds, holds \intersect Legacy = schema.holds \intersect Legacy,
               "payload" \in holds => Legacy \intersect holds = {},
               startup' = startup \/ Move(Operator, "bridging"),
               startup[Operator].at \in {"creating", "bridging"}
        PROVE  SchemaInv'
    <2>1. schema' = [version |-> Unversioned, holds |-> holds]
      BY <1>1, <1>2 DEF SchemaTypes
    <2>2. /\ startup' \in [Backend \union {Operator} -> [at : Phase, seen : 0..Newest]]
          /\ startup'[Operator].at \in {"creating", "bridging"}
          /\ \A p \in Backend : startup'[p].at = "down"
      BY <1>1, <1>2, SchemaAssumption DEF Move, Phase
    <2>3. SchemaTypes' /\ RevisionsHold'
      <3>1. SchemaTypes'
        <4>1. schema' \in [version : 0..Newest \union {Unversioned},
                          holds : SUBSET (Structure \union Rows)]
          BY <2>1, SchemaRecord
        <4> QED BY <2>2, <4>1 DEF SchemaTypes
      <3>2. Current' = 0
        BY <2>1 DEF Current
      <3> QED BY <3>1, <3>2 DEF RevisionsHold
    <2>4. Refused'
      BY <1>1, <1>2, <2>1 DEF Refused
    <2>5. Adoptable'
      BY <1>1, <1>2, <2>1, <2>2, <2>4 DEF Adoptable, Adopting
    <2> QED BY <2>3, <2>5 DEF SchemaInv
  <1>3. CASE CreateTables
    <2>1. /\ CreatedAll(schema.holds) \subseteq Structure \union Rows
          /\ CreatedAll(schema.holds) \intersect Legacy = schema.holds \intersect Legacy
      BY <1>1 DEF CreatedAll, Structure, Metadata, Tables, Rows, Legacy
    <2>2. "payload" \in CreatedAll(schema.holds) =>
            "payload" \in schema.holds \/ "steps" \notin schema.holds
      BY DEF CreatedAll, Tables
    <2>3. "payload" \in CreatedAll(schema.holds) => Legacy \intersect schema.holds = {}
      BY <1>1, <2>2
    <2>4. schema.holds \subseteq CreatedAll(schema.holds)
      BY DEF CreatedAll
    <2> QED BY <1>2, <1>3, <2>1, <2>3, <2>4 DEF CreateTables
  <1>4. CASE BridgeColumn
    <2>1. PICK column \in Bridged : schema' = [schema EXCEPT !.holds = @ \union {column}]
      BY <1>4 DEF BridgeColumn
    <2>2. column \in Structure /\ column \notin Legacy /\ column # "payload"
      BY DEF Bridged, Structure, Metadata, Legacy
    <2> DEFINE holds == schema.holds \union {column}
    <2>3. /\ holds \in SUBSET (Structure \union Rows) /\ schema.holds \subseteq holds
          /\ holds \intersect Legacy = schema.holds \intersect Legacy
          /\ "payload" \in holds => "payload" \in schema.holds
      BY <1>1, <2>2
    <2> HIDE DEF holds
    <2>4. schema' = [schema EXCEPT !.holds = holds]
      BY <2>1 DEF holds
    <2> QED BY <1>1, <1>2, <1>4, <2>3, <2>4 DEF BridgeColumn
  <1>5. CASE Stamp
    <2>1. /\ schema' = [version |-> Newest, holds |-> schema.holds]
          /\ Validated(schema.holds) /\ Move(Operator, "down")
      BY <1>1, <1>5 DEF Stamp, SchemaInv, SchemaTypes, Adoptable
    <2>2. SchemaTypes'
      BY <1>1, <2>1, RevisionsAreDisjoint DEF SchemaTypes, Move, Phase
    <2>3. Legacy \intersect schema.holds = {}
      BY <1>1, <2>1 DEF Validated, Metadata
    <2>4. ASSUME NEW i \in 1..9
          PROVE  /\ Revisions[i].adds \ Unindexed \subseteq schema.holds
                 /\ Revisions[i].drops \intersect schema.holds = {}
      <3>1. Structure \ Unindexed \subseteq Metadata \ {"ownerIndex"}
        BY DEF Structure, Unindexed
      <3> QED BY <2>1, <2>3, <3>1, RevisionsAreDisjoint DEF Validated
    <2>5. RevisionsHold'
      BY <2>1, <2>4, RevisionsAreDisjoint, SchemaAssumption DEF RevisionsHold, Current
    <2>6. startup'[Operator].at = "down"
      BY <1>1, <2>1 DEF Move
    <2>7. Adoptable'
      BY <2>1, <2>6, RevisionsAreDisjoint, SchemaAssumption DEF Adoptable, Refused, Adopting
    <2> QED BY <2>2, <2>5, <2>7 DEF SchemaInv
  <1> QED BY <1>3, <1>4, <1>5

LEMMA CommandStep ==
  ASSUME SchemaInv, Adopt \/ EndBridge \/ Validate \/ EndCommand
  PROVE  SchemaInv'
  <1>1. {"down", "creating", "validating", "stamping"} \subseteq Phase
    BY DEF Phase
  <1>2. ASSUME NEW at \in {"down", "creating", "validating", "stamping"}, Move(Operator, at),
               schema' = schema, at # "down" => Refused,
               at = "stamping" => Validated(schema.holds)
        PROVE  SchemaInv'
    BY <1>1, <1>2, MoveMoves, ProcessMoves DEF Adopting
  <1>3. startup[Operator].at \in {"bridging", "validating"} => Refused
    BY DEF SchemaInv, Adoptable, Adopting
  <1> QED BY <1>2, <1>3 DEF Adopt, EndBridge, Validate, EndCommand

LEMMA MishapStep ==
  ASSUME SchemaInv,
         Downgrade \/ \E p \in Backend \union {Operator} : Kill(p)
  PROVE  SchemaInv'
  <1>1. "down" \in Phase \ Adopting
    BY DEF Phase, Adopting
  <1>2. CASE Downgrade
    <2>1. schema' = [version |-> 0, holds |-> {}] /\ startup' = startup
          /\ startup[Operator].at = "down"
      BY <1>2 DEF Downgrade
    <2>2. SchemaTypes' /\ RevisionsHold'
      BY <2>1, RevisionsAreDisjoint, SchemaAssumption
         DEF SchemaInv, SchemaTypes, RevisionsHold, Current
    <2>3. Adoptable'
      BY <2>1, <1>1 DEF Adoptable, Refused
    <2> QED BY <2>2, <2>3 DEF SchemaInv
  <1>3. ASSUME NEW p \in Backend \union {Operator}, Kill(p)
        PROVE  SchemaInv'
    BY <1>1, <1>3, MoveMoves, ProcessMoves DEF Kill, Adopting
  <1> QED BY <1>2, <1>3

LEMMA SchemaStep == SchemaInv /\ [SchemaNext]_schemaVars => SchemaInv'
  <1> SUFFICES ASSUME SchemaInv, [SchemaNext]_schemaVars PROVE SchemaInv'
    OBVIOUS
  <1>1. CASE UNCHANGED schemaVars
    BY <1>1 DEF schemaVars, SchemaInv, SchemaTypes, RevisionsHold, Adoptable, Refused, Current
  <1>2. ASSUME NEW p \in Backend \union {Operator}, StartUp(p)
        PROVE  SchemaInv'
    BY <1>2, UpgradeStep, TenantStep DEF StartUp
  <1> QED BY <1>1, <1>2, AdoptionStep, CommandStep, MishapStep DEF SchemaNext

\* A database at the newest revision has what the code of today uses and none of the rows
\* that revisions rewrite, for any number of backends that start beside an adoption, a
\* downgrade and processes that are killed (assert_versioned_or_empty, adopt_legacy_database).
THEOREM HeadIsTrue == SchemaSpec => []HeadIsComplete
  <1>1. SchemaInv => HeadIsComplete
    <2> SUFFICES ASSUME SchemaInv, schema.version = Newest
                 PROVE  /\ Metadata \ {"ownerIndex"} \subseteq schema.holds
                        /\ schema.holds \intersect Legacy = {}
      BY DEF HeadIsComplete
    <2>1. Current = 9
      BY RevisionsAreDisjoint, SchemaAssumption DEF Current
    <2> QED BY <2>1, RevisionsAreComplete DEF SchemaInv, RevisionsHold
  <1> QED BY <1>1, SchemaInitial, SchemaStep, PTL DEF SchemaSpec
=============================================================================
