------------------------------ MODULE DataStore ------------------------------
(***************************************************************************)
(* The tables of one AI-Verse Data database and what the record, relation, *)
(* catalog, idempotency and provenance engines do to them.                 *)
(*                                                                         *)
(* An image is the content of the database as one reader sees it: the      *)
(* schema versions of one entity, its records, the relation index, the     *)
(* idempotency ledger and the event log.  The module has no variables.     *)
(* RecordTransactions applies these operators to the private image of a    *)
(* write transaction.                                                      *)
(*                                                                         *)
(* One entity of one Data Space is modelled; its reference fields point to *)
(* records of the same entity.  A digest is an injective function of what  *)
(* it digests, so a fingerprint is the request itself.                     *)
(***************************************************************************)
EXTENDS Naturals, Sequences

CONSTANTS
  Ids,          \* record identifiers
  Fields,       \* field names a schema may declare or a record may hold
  Markers,      \* clientRef names; as a value, the object { $ref: name }
  Keys,         \* idempotency keys
  Actors,       \* trusted actors
  Blob,         \* any other JSON value that is neither a string nor null
  Null,         \* the JSON null
  Absent,       \* the field is not in the object
  Undeclared,   \* the field is not in the schema
  Nil,          \* no row, no target, no transaction
  AllowUnknown  \* the entity's allowUnknownFields

Values == Ids \cup Markers \cup {Blob, Null}

(***************************************************************************)
(* Schemas and record data.                                                *)
(***************************************************************************)
FieldDefinitions ==
  [type     : {"string", "reference"},
   required : BOOLEAN,
   nullable : BOOLEAN,
   default  : Ids \cup {Null, Absent}]

Schemas == [Fields -> FieldDefinitions \cup {Undeclared}]
Data    == [Fields -> Values \cup {Absent}]

\* A JSON null needs a nullable field; strings and references need a string.
ValidFieldValue(def, v) == IF v = Null THEN def.nullable ELSE v \in Ids

\* A default must itself be a value the field accepts.
ValidDefinition(def) == def.default # Absent => ValidFieldValue(def, def.default)

\* The field takes its default when the object does not hold it.
Defaulted(schema, data, f) ==
  /\ data[f] = Absent
  /\ schema[f] # Undeclared
  /\ schema[f].default # Absent

WithDefaults(schema, data) ==
  [f \in Fields |-> IF Defaulted(schema, data, f)
                      THEN schema[f].default ELSE data[f]]

\* normalizeRecordData without defaults accepts the object.
Validates(schema, data) ==
  \A f \in Fields :
    IF schema[f] = Undeclared
      THEN data[f] # Absent => AllowUnknown
      ELSE IF data[f] = Absent THEN ~schema[f].required
                               ELSE ValidFieldValue(schema[f], data[f])

\* A patch replaces the fields it holds.
Merge(current, patch) ==
  [f \in Fields |-> IF patch[f] = Absent THEN current[f] ELSE patch[f]]

IsReference(schema, f) == schema[f] # Undeclared /\ schema[f].type = "reference"

\* The row of the relation index a record's data asks for.
RefsOf(schema, data) ==
  [f \in Fields |-> IF IsReference(schema, f) /\ data[f] \in Ids
                      THEN data[f] ELSE Nil]

NoRefs == [f \in Fields |-> Nil]

(***************************************************************************)
(* Requests.  A mutation is one record operation; a request is what a      *)
(* caller submits: one mutation, a transaction of several, or a request to *)
(* make sure that the entity declares some fields.                         *)
(***************************************************************************)
MutationOps == {"data.record.create", "data.record.update", "data.record.delete"}

Mutations ==
  [op        : MutationOps,
   key       : Keys,
   rec       : Ids \cup {Nil},
   expected  : Nat,
   data      : Data,
   clientRef : Markers \cup {Nil}]

Requests ==
  [kind  : {"record", "transaction", "ensure"},
   key   : Keys,
   actor : Actors,
   ops   : Seq(Mutations),
   adds  : Schemas]

NoAdds == [f \in Fields |-> Undeclared]

\* DataTransactions.execute refuses, before it opens a transaction, a request
\* whose nested keys repeat or include the outer key.
WellKeyed(req) ==
  req.kind = "transaction" =>
    /\ \A i \in 1..Len(req.ops) : req.ops[i].key # req.key
    /\ \A i, j \in 1..Len(req.ops) : req.ops[i].key = req.ops[j].key => i = j

\* ensureStructure binds its key under the transaction operation.
OperationOf(req) ==
  IF req.kind = "record" THEN req.ops[1].op ELSE "data.transaction.execute"

\* The request a nested mutation is fingerprinted as.
AsRequest(m, actor) ==
  [kind |-> "record", key |-> m.key, actor |-> actor, ops |-> <<m>>,
   adds |-> NoAdds]

(***************************************************************************)
(* Images.                                                                 *)
(***************************************************************************)
Rows ==
  [version       : Nat \ {0},
   schemaVersion : Nat \ {0},
   data          : Data,
   deleted       : BOOLEAN,
   createdBy     : Actors,
   updatedBy     : Actors]

Snapshots == [rec : Ids, row : Rows]
Results   == [snapshots : Seq(Snapshots), schemaVersion : Nat]

Entries ==
  [op     : MutationOps \cup {"data.transaction.execute"},
   fp     : Requests,
   result : Results]

\* An event and its receipt: they are written together and hold the same
\* facts.  The position in the log is event_sequence; it also stands for the
\* event's and the receipt's identifiers.
Events ==
  [op       : MutationOps \cup {"data.transaction.execute"},
   tx       : Nat,
   key      : Keys,
   rec      : Ids \cup {Nil},
   before   : Nat,
   after    : Nat,
   actor    : Actors,
   children : Seq(Nat)]

Images ==
  [schemas   : Seq(Schemas) \ {<<>>},
   records   : [Ids -> Rows \cup {Nil}],
   relations : [Ids -> [Fields -> Ids \cup {Nil}]],
   idem      : [Keys -> Entries \cup {Nil}],
   events    : Seq(Events)]

ASSUME DistinctValues ==
  /\ Null \notin Ids \cup Markers \cup {Absent, Blob}
  /\ Absent \notin Values
  /\ Blob \notin Ids \cup Markers
  /\ Ids \cap Markers = {}
  /\ Nil \notin Ids \cup Markers \cup Rows \cup Entries
  /\ Undeclared \notin FieldDefinitions
  /\ AllowUnknown \in BOOLEAN

EmptyImage(schema) ==
  [schemas   |-> <<schema>>,
   records   |-> [r \in Ids |-> Nil],
   relations |-> [r \in Ids |-> NoRefs],
   idem      |-> [k \in Keys |-> Nil],
   events    |-> <<>>]

(***************************************************************************)
(* Reads.                                                                  *)
(***************************************************************************)
SchemaVersion(d) == Len(d.schemas)
CurrentSchema(d) == d.schemas[SchemaVersion(d)]

\* getRecord without includeDeleted; targetExists asks the same question.
Active(d, r) == d.records[r] # Nil /\ ~d.records[r].deleted

TargetsExist(d, refs) ==
  \A f \in Fields : refs[f] # Nil => Active(d, refs[f])

\* Mutant: the ledger is not consulted.
AlwaysFresh(d, key) == TRUE

\* DataIdempotency.prepare.
Fresh(d, key) == d.idem[key] = Nil

\* Mutant: the fingerprint is not compared.
ReplaysAnything(d, key, op, fp) == d.idem[key] # Nil /\ d.idem[key].op = op

Replays(d, key, op, fp) ==
  d.idem[key] # Nil /\ d.idem[key].op = op /\ d.idem[key].fp = fp

\* getReceiptByIdempotencyKey: the positions whose receipt has the key.
ReceiptsFor(d, key) ==
  {i \in 1..Len(d.events) : d.events[i].key = key}

(***************************************************************************)
(* Writing.  Every mutation ends in the same four writes: the record row,  *)
(* its relation rows, the event with its receipt, the idempotency entry.   *)
(***************************************************************************)
EventOf(r, row, m, actor, tx) ==
  [op |-> m.op, tx |-> tx, key |-> m.key, rec |-> r,
   before |-> row.version - 1, after |-> row.version,
   actor |-> actor, children |-> <<>>]

EntryOf(r, row, m, actor) ==
  [op     |-> m.op,
   fp     |-> AsRequest(m, actor),
   result |-> [snapshots     |-> <<[rec |-> r, row |-> row]>>,
               schemaVersion |-> row.schemaVersion]]

Written(d, r, row, refs, m, actor, tx) ==
  [schemas   |-> d.schemas,
   records   |-> [d.records EXCEPT ![r] = row],
   relations |-> [d.relations EXCEPT ![r] = refs],
   idem      |-> [d.idem EXCEPT ![m.key] = EntryOf(r, row, m, actor)],
   events    |-> Append(d.events, EventOf(r, row, m, actor, tx))]

(***************************************************************************)
(* DataRecords.create.                                                     *)
(***************************************************************************)
\* Mutant: versions start at 0.
CreatedRowAtZero(d, m, actor) ==
  [version       |-> 0,
   schemaVersion |-> SchemaVersion(d),
   data          |-> WithDefaults(CurrentSchema(d), m.data),
   deleted       |-> FALSE,
   createdBy     |-> actor,
   updatedBy     |-> actor]

CreatedRow(d, m, actor) ==
  [version       |-> 1,
   schemaVersion |-> SchemaVersion(d),
   data          |-> WithDefaults(CurrentSchema(d), m.data),
   deleted       |-> FALSE,
   createdBy     |-> actor,
   updatedBy     |-> actor]

\* A fresh identifier is one no row has: a taken one is drawn again.
MayCreate(d, m, r) ==
  LET data == WithDefaults(CurrentSchema(d), m.data)
  IN  /\ m.op = "data.record.create"
      /\ d.records[r] = Nil
      /\ Validates(CurrentSchema(d), data)
      /\ TargetsExist(d, RefsOf(CurrentSchema(d), data))

Created(d, m, r, actor, tx) ==
  LET row == CreatedRow(d, m, actor)
  IN  Written(d, r, row, RefsOf(CurrentSchema(d), row.data), m, actor, tx)

(***************************************************************************)
(* DataRecords.update.                                                     *)
(***************************************************************************)
\* Mutant: the actor of the update becomes the creator.
AdoptedRow(d, m, actor) ==
  LET old == d.records[m.rec]
  IN  [version       |-> old.version + 1,
       schemaVersion |-> SchemaVersion(d),
       data          |-> WithDefaults(CurrentSchema(d), Merge(old.data, m.data)),
       deleted       |-> FALSE,
       createdBy     |-> actor,
       updatedBy     |-> actor]

UpdatedRow(d, m, actor) ==
  LET old == d.records[m.rec]
  IN  [version       |-> old.version + 1,
       schemaVersion |-> SchemaVersion(d),
       data          |-> WithDefaults(CurrentSchema(d), Merge(old.data, m.data)),
       deleted       |-> FALSE,
       createdBy     |-> old.createdBy,
       updatedBy     |-> actor]

\* Mutant: last writer wins.
AnyVersion(d, m) == TRUE

\* The caller's expected version is the stored one.
VersionMatches(d, m) == d.records[m.rec].version = m.expected

MayUpdate(d, m) ==
  /\ m.op = "data.record.update"
  /\ Active(d, m.rec)
  /\ VersionMatches(d, m)
  /\ \E f \in Fields : m.data[f] # Absent
  /\ LET old  == d.records[m.rec]
         data == WithDefaults(CurrentSchema(d), Merge(old.data, m.data))
     IN  /\ Validates(d.schemas[old.schemaVersion], old.data)
         /\ Validates(CurrentSchema(d), data)
         /\ TargetsExist(d, RefsOf(CurrentSchema(d), data))

Updated(d, m, actor, tx) ==
  LET row == UpdatedRow(d, m, actor)
  IN  Written(d, m.rec, row, RefsOf(CurrentSchema(d), row.data), m, actor, tx)

(***************************************************************************)
(* DataRecords.softDelete.                                                 *)
(***************************************************************************)
\* Mutant: a tombstone is stamped with the current schema version.
RestampedRow(d, m, actor) ==
  LET old == d.records[m.rec]
  IN  [version       |-> old.version + 1,
       schemaVersion |-> SchemaVersion(d),
       data          |-> old.data,
       deleted       |-> TRUE,
       createdBy     |-> old.createdBy,
       updatedBy     |-> actor]

DeletedRow(d, m, actor) ==
  LET old == d.records[m.rec]
  IN  [version       |-> old.version + 1,
       schemaVersion |-> old.schemaVersion,
       data          |-> old.data,
       deleted       |-> TRUE,
       createdBy     |-> old.createdBy,
       updatedBy     |-> actor]

\* Mutant: a delete does not look at the index.
AnyInbound(d, r) == TRUE

\* Nothing refers to the record: assertRecordMayBeDeleted.
Unreferenced(d, r) == \A s \in Ids, f \in Fields : d.relations[s][f] # r

MayDelete(d, m) ==
  /\ m.op = "data.record.delete"
  /\ Active(d, m.rec)
  /\ VersionMatches(d, m)
  /\ Unreferenced(d, m.rec)
  /\ LET old == d.records[m.rec]
     IN  Validates(d.schemas[old.schemaVersion], old.data)

Deleted(d, m, actor, tx) ==
  Written(d, m.rec, DeletedRow(d, m, actor), NoRefs, m, actor, tx)

(***************************************************************************)
(* One record mutation under a fresh key, and the record it lands on.      *)
(***************************************************************************)
MayMutate(d, m, r) ==
  /\ Fresh(d, m.key)
  /\ \/ MayCreate(d, m, r)
     \/ r = m.rec /\ MayUpdate(d, m)
     \/ r = m.rec /\ MayDelete(d, m)

Mutated(d, m, r, actor, tx) ==
  CASE m.op = "data.record.create" -> Created(d, m, r, actor, tx)
    [] m.op = "data.record.update" -> Updated(d, m, actor, tx)
    [] m.op = "data.record.delete" -> Deleted(d, m, actor, tx)

(***************************************************************************)
(* DataTransactions: clientRef resolution and the closing event.           *)
(***************************************************************************)
IsMarked(schema, m, f) == IsReference(schema, f) /\ m.data[f] \in Markers

\* Only names of earlier creates of the same transaction resolve.
Resolvable(d, m, refs) ==
  \A f \in Fields :
    IsMarked(CurrentSchema(d), m, f) => refs[m.data[f]] # Nil

Resolved(d, m, refs) ==
  [m EXCEPT !.data = [f \in Fields |-> IF IsMarked(CurrentSchema(d), m, f)
                                         THEN refs[m.data[f]] ELSE m.data[f]]]

\* A name is bound once in a transaction.
ClientRefFree(m, refs) ==
  m.op = "data.record.create" /\ m.clientRef # Nil => refs[m.clientRef] = Nil

Bind(refs, m, r) ==
  IF m.op = "data.record.create" /\ m.clientRef # Nil
    THEN [refs EXCEPT ![m.clientRef] = r] ELSE refs

\* The transaction's own event, after those of its children, and its entry.
ClosingEvent(req, tx, children) ==
  [op |-> "data.transaction.execute", tx |-> tx, key |-> req.key, rec |-> Nil,
   before |-> 0, after |-> 0, actor |-> req.actor, children |-> children]

ClosingEntry(req, snapshots, version) ==
  [op     |-> "data.transaction.execute",
   fp     |-> req,
   result |-> [snapshots |-> snapshots, schemaVersion |-> version]]

Closed(d, req, tx, children, snapshots) ==
  [schemas   |-> d.schemas,
   records   |-> d.records,
   relations |-> d.relations,
   idem      |-> [d.idem EXCEPT
                   ![req.key] = ClosingEntry(req, snapshots, SchemaVersion(d))],
   events    |-> Append(d.events, ClosingEvent(req, tx, children))]

(***************************************************************************)
(* The catalog: additive evolution only.                                   *)
(***************************************************************************)
\* safeAddField: a field not declared yet, with a default when required.
MayAddField(schema, f, def) ==
  /\ schema[f] = Undeclared
  /\ ValidDefinition(def)
  /\ def.required => def.default # Absent

MayAddFields(schema, adds) ==
  \A f \in Fields : adds[f] # Undeclared => MayAddField(schema, f, adds[f])

WithFields(schema, adds) ==
  [f \in Fields |-> IF adds[f] # Undeclared THEN adds[f] ELSE schema[f]]

\* SqliteCatalogStorage.updateSchema, after its version comparison.
Evolved(d, schema) ==
  [schemas   |-> Append(d.schemas, schema),
   records   |-> d.records,
   relations |-> d.relations,
   idem      |-> d.idem,
   events    |-> d.events]

\* ensureStructure: the declared fields it asks for are as it asks.
Compatible(schema, adds) ==
  \A f \in Fields :
    adds[f] # Undeclared /\ schema[f] # Undeclared => adds[f] = schema[f]

Missing(schema, adds) ==
  [f \in Fields |-> IF schema[f] = Undeclared THEN adds[f] ELSE Undeclared]

MayEnsure(d, req) ==
  /\ Compatible(CurrentSchema(d), req.adds)
  /\ MayAddFields(CurrentSchema(d), Missing(CurrentSchema(d), req.adds))

Ensured(d, req, tx) ==
  LET missing == Missing(CurrentSchema(d), req.adds)
      evolved == IF missing = NoAdds THEN d
                 ELSE Evolved(d, WithFields(CurrentSchema(d), missing))
  IN  Closed(evolved, req, tx, <<>>, <<>>)

(***************************************************************************)
(* Whole requests.  The outcome of a request's mutations: what they made   *)
(* of the image, or that one of them failed and nothing came of any.       *)
(***************************************************************************)
Begun(d) ==
  [ok |-> TRUE, image |-> d, refs |-> [c \in Markers |-> Nil],
   children |-> <<>>, snapshots |-> <<>>]

\* The next mutation m, on record r, after the outcome o of those before it.
Continued(o, m, r, actor, tx) ==
  LET resolved == Resolved(o.image, m, o.refs)
      image    == Mutated(o.image, resolved, r, actor, tx)
  IN  IF /\ o.ok
         /\ Resolvable(o.image, m, o.refs)
         /\ ClientRefFree(m, o.refs)
         /\ MayMutate(o.image, resolved, r)
      THEN [ok        |-> TRUE,
            image     |-> image,
            refs      |-> Bind(o.refs, m, r),
            children  |-> Append(o.children, Len(image.events)),
            snapshots |-> Append(o.snapshots, [rec |-> r, row |-> image.records[r]])]
      ELSE [o EXCEPT !.ok = FALSE]

\* All mutations of a request, the n-th on record recs[n].
Outcome(d, req, recs, tx) ==
  LET after[n \in 0..Len(req.ops)] ==
        IF n = 0 THEN Begun(d)
        ELSE Continued(after[n - 1], req.ops[n], recs[n], req.actor, tx)
  IN  after[Len(req.ops)]

\* The outcomes in which no mutation failed, one for each choice of records.
Outcomes(d, req, tx) ==
  {o \in {Outcome(d, req, recs, tx) : recs \in [1..Len(req.ops) -> Ids]} : o.ok}

\* A key takes effect once; what the transaction engine and ensureStructure ask
\* of the request as a whole.
MayPerform(d, req) ==
  /\ Fresh(d, req.key)
  /\ WellKeyed(req)
  /\ req.kind = "ensure" => MayEnsure(d, req)

\* The images a request can make of image d.
Performed(d, req) ==
  LET tx == Len(d.events) + 1
  IN  CASE req.kind = "record" -> {o.image : o \in Outcomes(d, req, 0)}
        [] req.kind = "transaction" ->
             {Closed(o.image, req, tx, o.children, o.snapshots) :
                o \in Outcomes(d, req, tx)}
        [] req.kind = "ensure" -> {Ensured(d, req, tx)}

\* The images that one of the requests, or one of the additions of fields, can
\* make of image d.
Requested(d, requests, additions) ==
  (UNION {Performed(d, req) : req \in {r \in requests : MayPerform(d, r)}})
    \cup {Evolved(d, WithFields(CurrentSchema(d), adds)) :
            adds \in {a \in additions : MayAddFields(CurrentSchema(d), a)}}

\* What validation lets through: a mutation by itself is its own request, only
\* transactions hold several, and a create names no version.
Acceptable(req) ==
  /\ req \in Requests
  /\ req.kind = "record" => Len(req.ops) = 1 /\ req = AsRequest(req.ops[1], req.actor)
  /\ req.kind = "transaction" => req.ops # <<>>
  /\ req.kind = "ensure" => req.ops = <<>>
  /\ \A n \in 1..Len(req.ops) :
       req.ops[n].op = "data.record.create" => req.ops[n].expected = 0

\* What callers submit to a database that begins with the given schema.
AcceptableCalls(requests, additions, schema) ==
  /\ \A req \in requests : Acceptable(req)
  /\ additions \subseteq Schemas \ {NoAdds}
  /\ schema \in Schemas
  /\ \A f \in Fields : schema[f] # Undeclared => ValidDefinition(schema[f])

(***************************************************************************)
(* What holds of an image.                                                 *)
(***************************************************************************)
\* The index row of an active record is what its data ask for; that of any
\* other is empty.
RelationsExact(d) ==
  \A r \in Ids :
    d.relations[r] = IF Active(d, r)
                       THEN RefsOf(d.schemas[d.records[r].schemaVersion],
                                   d.records[r].data)
                       ELSE NoRefs

\* Every indexed reference is between records that are not deleted.
NoDangling(d) ==
  \A s \in Ids, f \in Fields :
    d.relations[s][f] # Nil => Active(d, s) /\ Active(d, d.relations[s][f])

\* A record reads back under the schema version it was written with.
Hydrates(d) ==
  \A r \in Ids : d.records[r] # Nil =>
    /\ d.records[r].schemaVersion \in 1..SchemaVersion(d)
    /\ Validates(d.schemas[d.records[r].schemaVersion], d.records[r].data)

\* The positions of a record's events.
EventsOf(d, r) == {i \in 1..Len(d.events) : d.events[i].rec = r}

\* The event's caller had named the version the mutation replaced.
FromExpectedVersion(d, event) ==
  /\ d.idem[event.key] # Nil
  /\ d.idem[event.key].fp.ops[1].expected = event.before

\* The events of record r are its versions, in order, each written by a caller
\* that had named the version before it.
HistoryLogged(d, r) ==
  /\ d.records[r] = Nil => EventsOf(d, r) = {}
  /\ d.records[r] # Nil =>
       /\ \A v \in 1..d.records[r].version :
            \E i \in EventsOf(d, r) : d.events[i].after = v
       /\ \A i \in EventsOf(d, r) :
            /\ d.events[i].after \in 1..d.records[r].version
            /\ d.events[i].before = d.events[i].after - 1
            /\ FromExpectedVersion(d, d.events[i])
            /\ d.events[i].op = "data.record.delete" <=>
                 /\ d.records[r].deleted
                 /\ d.events[i].after = d.records[r].version
       /\ \A i, j \in EventsOf(d, r) :
            i < j => d.events[i].after < d.events[j].after

VersionsLogged(d) == \A r \in Ids : HistoryLogged(d, r)

\* What a key's entry and its one event say to each other.
EntryMatchesEvent(d, k, i) ==
  LET entry == d.idem[k]
      event == d.events[i]
  IN  /\ entry.op = event.op
      /\ entry.fp.actor = event.actor
      /\ event.rec # Nil =>
           /\ entry.result.snapshots[1].rec = event.rec
           /\ entry.result.snapshots[1].row.version = event.after

LedgerMatchesLog(d) ==
  \A k \in Keys :
    IF d.idem[k] = Nil
      THEN ReceiptsFor(d, k) = {}
      ELSE \E i \in ReceiptsFor(d, k) :
             /\ ReceiptsFor(d, k) = {i}
             /\ EntryMatchesEvent(d, k, i)

\* The block of transaction t ends at position j.
ClosesBlock(d, t, j) ==
  /\ d.events[j].op = "data.transaction.execute"
  /\ d.events[j].children = [n \in 1..(j - t) |-> t + n - 1]
  /\ \A i \in t..j : d.events[i].tx = t
  /\ \A i \in t..(j - 1) : d.events[i].op # "data.transaction.execute"

BlocksWhole(d) ==
  \A i \in 1..Len(d.events) : d.events[i].tx # 0 =>
    \E j \in i..Len(d.events) :
      /\ d.events[i].tx <= i
      /\ ClosesBlock(d, d.events[i].tx, j)

AdditiveSchemas(d) ==
  \A i, j \in 1..SchemaVersion(d), f \in Fields :
    i < j /\ d.schemas[i][f] # Undeclared => d.schemas[j][f] = d.schemas[i][f]

\* Image e is a later state of image d.
Extends(d, e) ==
  /\ Len(d.schemas) <= Len(e.schemas)
  /\ \A i \in 1..Len(d.schemas) : e.schemas[i] = d.schemas[i]
  /\ Len(d.events) <= Len(e.events)
  /\ \A i \in 1..Len(d.events) : e.events[i] = d.events[i]
  /\ \A k \in Keys : d.idem[k] # Nil => e.idem[k] = d.idem[k]
  /\ \A r \in Ids : d.records[r] # Nil =>
       /\ e.records[r] # Nil
       /\ e.records[r].version >= d.records[r].version
       /\ d.records[r].deleted => e.records[r] = d.records[r]
       /\ e.records[r].createdBy = d.records[r].createdBy
==============================================================================
