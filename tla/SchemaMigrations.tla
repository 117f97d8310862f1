--------------------------- MODULE SchemaMigrations ---------------------------
(***************************************************************************)
(* DataSchemaMigrations: field changes that the catalog's own updates      *)
(* refuse (fields removed, replaced, renamed, filled in), reviewed by a    *)
(* digest of everything they will do, and carried out with a rewrite of    *)
(* every active record.                                                    *)
(*                                                                         *)
(* preview is one read transaction and execute one immediate transaction   *)
(* that plans again, so each is one step.  The other callers of the engine *)
(* are the atomic store: RecordTransactions shows that it is one.  Nobody  *)
(* else uses the keys of record rewrites: they are drawn with the          *)
(* migration's identifier.                                                 *)
(***************************************************************************)
EXTENDS ReviewedChanges, FiniteSets

CONSTANTS
  Proposals,     \* the migrations the processes review
  MigrationKeys, \* the keys they execute them under
  ChildKey(_, _) \* childIdempotencyKey of a migration's key and a record

ChangeOps == {"add_field", "remove_field", "replace_field", "rename_field"}

Changes ==
  [op : ChangeOps, field : Fields, newField : Fields,
   def : FieldDefinitions \cup {Undeclared}]

Backfills == [field : Fields, mode : {"set", "set_if_missing"}, value : Values]

\* What a digest is made of: the schemas, and each active record as it is and
\* as it will be.
PlannedRecords == [rec : Ids, row : Rows, after : Data]

PlanDigests ==
  [proposal : Proposals, from : Schemas, to : Schemas,
   records  : SUBSET PlannedRecords]

MigrationResults ==
  [proposal : Proposals, digest : PlanDigests, approved : BOOLEAN,
   version  : Nat, receipt : Nat]

ASSUME MigrationAssumption ==
  /\ Proposals \subseteq [actor : Actors, expected : Nat, changes : Seq(Changes),
                          backfills : Seq(Backfills)]
  /\ MigrationKeys \subseteq Keys
  /\ \A k \in MigrationKeys, r \in Ids : ChildKey(k, r) \in Keys \ MigrationKeys
  /\ \A k, l \in MigrationKeys, r, s \in Ids :
       ChildKey(k, r) = ChildKey(l, s) => k = l /\ r = s
  /\ \A s \in Submissions, k \in MigrationKeys, r \in Ids :
       ChildKey(k, r) \notin {s.key} \cup {s.ops[n].key : n \in 1..Len(s.ops)}
  /\ Nil \notin MigrationResults

VARIABLES
  migrated,  \* the results of migrations, by their keys
  reviewed   \* the preview each process last received, with its proposal

migrationVars == <<store, migrated, reviewed>>

(***************************************************************************)
(* The proposed schema.                                                    *)
(***************************************************************************)
MayChange(schema, c) ==
  /\ c.op = "add_field" => schema[c.field] = Undeclared
  /\ c.op # "add_field" => schema[c.field] # Undeclared
  /\ c.op = "rename_field" => schema[c.newField] = Undeclared
  /\ c.op \in {"add_field", "replace_field"} => ValidDefinition(c.def)

Changed(schema, c) ==
  CASE c.op \in {"add_field", "replace_field"} -> [schema EXCEPT ![c.field] = c.def]
    [] c.op = "remove_field" -> [schema EXCEPT ![c.field] = Undeclared]
    [] c.op = "rename_field" ->
         [schema EXCEPT ![c.newField] = schema[c.field], ![c.field] = Undeclared]

\* applySchemaChanges: the schemas the changes pass through, in order.
Stages(schema, changes) ==
  LET stage[n \in 0..Len(changes)] ==
        IF n = 0 THEN schema ELSE Changed(stage[n - 1], changes[n])
  IN  stage

Proposed(schema, m) == Stages(schema, m.changes)[Len(m.changes)]

Destructive(m) ==
  \/ \E n \in 1..Len(m.changes) : m.changes[n].op # "add_field"
  \/ \E n \in 1..Len(m.backfills) : m.backfills[n].mode = "set"

\* Some field work, on a schema that allows it, that leaves another schema
\* with a field.
Applicable(schema, m) ==
  /\ \A n \in 1..Len(m.changes) :
       MayChange(Stages(schema, m.changes)[n - 1], m.changes[n])
  /\ \A n \in 1..Len(m.backfills) :
       Proposed(schema, m)[m.backfills[n].field] # Undeclared
  /\ Proposed(schema, m) # schema
  /\ \E f \in Fields : Proposed(schema, m)[f] # Undeclared

(***************************************************************************)
(* A record's data under it.                                               *)
(***************************************************************************)
Moved(data, c) ==
  CASE c.op = "remove_field" -> [data EXCEPT ![c.field] = Absent]
    [] c.op = "rename_field" /\ data[c.field] # Absent ->
         [data EXCEPT ![c.newField] = data[c.field], ![c.field] = Absent]
    [] OTHER -> data

\* A record that holds both fields cannot be renamed.
Ambiguous(data, c) ==
  c.op = "rename_field" /\ data[c.field] # Absent /\ data[c.newField] # Absent

DataMoves(data, changes) ==
  LET moved[n \in 0..Len(changes)] ==
        IF n = 0 THEN data ELSE Moved(moved[n - 1], changes[n])
  IN  moved

Filled(data, backfill) ==
  IF backfill.mode = "set" \/ data[backfill.field] = Absent
    THEN [data EXCEPT ![backfill.field] = backfill.value] ELSE data

Fillings(data, backfills) ==
  LET filled[n \in 0..Len(backfills)] ==
        IF n = 0 THEN data ELSE Filled(filled[n - 1], backfills[n])
  IN  filled

\* transformRecordData, then normalizeRecordData with defaults.
Transformed(schema, data, m) ==
  LET moved == DataMoves(data, m.changes)[Len(m.changes)]
  IN  WithDefaults(Proposed(schema, m),
                   Fillings(moved, m.backfills)[Len(m.backfills)])

RowData(d, r, m) == Transformed(CurrentSchema(d), d.records[r].data, m)

\* Mutant: references of the migrated data are not looked up.
MigratesUnreferenced(d, r, m) ==
  LET old == d.records[r]
  IN  /\ Validates(d.schemas[old.schemaVersion], old.data)
      /\ \A n \in 1..Len(m.changes) :
           ~Ambiguous(DataMoves(old.data, m.changes)[n - 1], m.changes[n])
      /\ Validates(Proposed(CurrentSchema(d), m), RowData(d, r, m))

Migrates(d, r, m) ==
  LET old    == d.records[r]
      schema == Proposed(CurrentSchema(d), m)
  IN  /\ Validates(d.schemas[old.schemaVersion], old.data)
      /\ \A n \in 1..Len(m.changes) :
           ~Ambiguous(DataMoves(old.data, m.changes)[n - 1], m.changes[n])
      /\ Validates(schema, RowData(d, r, m))
      /\ TargetsExist(d, RefsOf(schema, RowData(d, r, m)))

(***************************************************************************)
(* buildPlan: what the migration would do to the image, and its digest.    *)
(***************************************************************************)
ActiveRecords(d) == {r \in Ids : Active(d, r)}

Plannable(d, m) ==
  /\ m.expected = SchemaVersion(d)
  /\ Applicable(CurrentSchema(d), m)
  /\ \A r \in ActiveRecords(d) : Migrates(d, r, m)

PlanDigest(d, m) ==
  [proposal |-> m,
   from     |-> CurrentSchema(d),
   to       |-> Proposed(CurrentSchema(d), m),
   records  |-> {[rec |-> r, row |-> d.records[r], after |-> RowData(d, r, m)] :
                   r \in ActiveRecords(d)}]

(***************************************************************************)
(* The rewrite of the active records, in the order of their creation.      *)
(***************************************************************************)
CreatedAt(d, r) ==
  CHOOSE i \in EventsOf(d, r) : \A j \in EventsOf(d, r) : i <= j

InOrder(d) ==
  LET upTo(r) == {s \in ActiveRecords(d) : CreatedAt(d, s) <= CreatedAt(d, r)}
  IN  [n \in 1..Cardinality(ActiveRecords(d)) |->
         CHOOSE r \in ActiveRecords(d) : Cardinality(upTo(r)) = n]

Rewrite(d, k, m, r) ==
  [op |-> "data.record.update", key |-> ChildKey(k, r), rec |-> r,
   expected |-> d.records[r].version, data |-> RowData(d, r, m), clientRef |-> Nil]

\* Mutant: a rewrite does not make a new version.
RewrittenRowInPlace(d, m, r) ==
  [d.records[r] EXCEPT !.schemaVersion = SchemaVersion(d) + 1,
                       !.data = RowData(d, r, m), !.updatedBy = m.actor]

RewrittenRow(d, m, r) ==
  [d.records[r] EXCEPT !.version = @ + 1, !.schemaVersion = SchemaVersion(d) + 1,
                       !.data = RowData(d, r, m), !.updatedBy = m.actor]

RewrittenRefs(d, m, r) ==
  RefsOf(Proposed(CurrentSchema(d), m), RowData(d, r, m))

\* The image after the first n rewrites of the plan made on image d.
Rewrites(d, k, m, tx) ==
  LET order == InOrder(d)
      after[n \in 0..Len(order)] ==
        IF n = 0 THEN Evolved(d, Proposed(CurrentSchema(d), m))
        ELSE Written(after[n - 1], order[n], RewrittenRow(d, m, order[n]),
                     RewrittenRefs(d, m, order[n]), Rewrite(d, k, m, order[n]),
                     m.actor, tx)
  IN  after[Len(order)]

\* The request of a migration, as it is fingerprinted: it is not the
\* transaction of any other caller, which has mutations.
MigrationRequest(k, m) ==
  [kind |-> "transaction", key |-> k, actor |-> m.actor, ops |-> <<>>, adds |-> NoAdds]

\* The transaction ends as every other does; what else its result says is in
\* migrated.
Finished(d, k, m) ==
  LET before == Len(d.events)
      image  == Rewrites(d, k, m, before + 1)
  IN  Closed(image, MigrationRequest(k, m), before + 1,
             [n \in 1..(Len(image.events) - before) |-> before + n], <<>>)

(***************************************************************************)
(* preview and execute.                                                    *)
(***************************************************************************)
NoReview == [proposal |-> Nil, digest |-> Nil]

MigrationTypeOK ==
  /\ store \in Images
  /\ migrated \in [Keys -> MigrationResults \cup {Nil}]
  /\ \A k \in Keys : migrated[k] # Nil =>
       /\ k \in MigrationKeys
       /\ migrated[k].version \in 2..SchemaVersion(store)
       /\ migrated[k].receipt \in 1..Len(store.events)
  /\ reviewed \in [Procs -> [proposal : Proposals \cup {Nil},
                            digest   : PlanDigests \cup {Nil}]]

MigrationInit ==
  /\ store = EmptyImage(BaseSchema)
  /\ migrated = [k \in Keys |-> Nil]
  /\ reviewed = [p \in Procs |-> NoReview]

PreviewMigration(p) ==
  /\ \E m \in Proposals :
       /\ Plannable(store, m)
       /\ reviewed' = [reviewed EXCEPT ![p] = [proposal |-> m, digest |-> PlanDigest(store, m)]]
  /\ UNCHANGED <<store, migrated>>

\* Mutant: the digest is not compared.
AnyPlan(p, m) == TRUE

\* The digest of the plan made in the transaction is the one reviewed.
PlanAsReviewed(p, m) == PlanDigest(store, m) = reviewed[p].digest

Approved(m, approved) == Destructive(m) => approved

MigrationResult(p, m, approved) ==
  [proposal |-> m,
   digest   |-> reviewed[p].digest,
   approved |-> approved,
   version  |-> SchemaVersion(store) + 1,
   receipt  |-> Len(store'.events)]

\* A digest of another proposal, a stale one, a missing approval and a bound
\* key leave everything as it is; so does the replay of a bound key.
ExecuteMigration(p) ==
  LET m == reviewed[p].proposal
  IN  /\ m # Nil
      /\ \E k \in MigrationKeys, approved \in BOOLEAN :
           /\ Fresh(store, k)
           /\ Plannable(store, m)
           /\ PlanAsReviewed(p, m)
           /\ Approved(m, approved)
           /\ store' = Finished(store, k, m)
           /\ migrated' = [migrated EXCEPT ![k] = MigrationResult(p, m, approved)]
      /\ UNCHANGED reviewed

OthersWrite ==
  /\ store' \in Requested(store, Submissions, Evolutions)
  /\ UNCHANGED <<migrated, reviewed>>

MigrationNext ==
  \/ \E p \in Procs : PreviewMigration(p) \/ ExecuteMigration(p)
  \/ OthersWrite

MigrationSpec == MigrationInit /\ [][MigrationNext]_migrationVars

(***************************************************************************)
(* Properties.                                                             *)
(***************************************************************************)
Executed == {k \in MigrationKeys : migrated[k] # Nil}

\* Under schema versions that take fields away, give them other types and move
\* them, every record (deleted ones, which no migration rewrites, too) still
\* reads back under its own version, the index is what the data ask for, and
\* no reference dangles.  No active record is left behind the last migration:
\* under an older version it would be read with fields that are gone.
ImagesStaySound ==
  /\ MigrationTypeOK
  /\ Hydrates(store)
  /\ RelationsExact(store)
  /\ NoDangling(store)
  /\ \A k \in Executed, r \in ActiveRecords(store) :
       store.records[r].schemaVersion >= migrated[k].version

\* The positions of a migration's rewrites.
BlockOf(k) ==
  LET j == migrated[k].receipt
  IN  {store.events[j].children[n] : n \in 1..Len(store.events[j].children)}

\* A schema version that takes a declared field away or changes it.
LosesField(n) ==
  \E f \in Fields :
    /\ store.schemas[n - 1][f] # Undeclared
    /\ store.schemas[n][f] # store.schemas[n - 1][f]

\* What a migration committed is what its digest said: exactly the reviewed
\* records, from the reviewed versions, to the reviewed data, under the
\* reviewed schema.  And a schema version without a field of the one before is
\* always that of a migration that was approved.
MigratedAsReviewed ==
  /\ \A k \in Executed :
       LET digest == migrated[k].digest
           done   == BlockOf(k)
       IN  /\ digest.proposal = migrated[k].proposal
           /\ store.schemas[migrated[k].version - 1] = digest.from
           /\ store.schemas[migrated[k].version] = digest.to
           /\ {store.events[i].rec : i \in done} = {x.rec : x \in digest.records}
           /\ \A i \in done, x \in digest.records :
                LET event == store.events[i]
                    child == store.idem[event.key]
                IN  event.rec = x.rec =>
                      /\ event.before = x.row.version
                      /\ child.result.snapshots[1].row.data = x.after
  /\ \A n \in 2..SchemaVersion(store) : LosesField(n) =>
       \E k \in Executed : migrated[k].version = n /\ migrated[k].approved

\* Migrations keep the history whole: versions follow one another from what
\* the caller of each change had read, each key has its one receipt, a
\* migration's own too, and transactions are contiguous blocks.
HistoryStaysWhole ==
  /\ VersionsLogged(store)
  /\ LedgerMatchesLog(store)
  /\ BlocksWhole(store)
  /\ \A k \in Executed : ReceiptsFor(store, k) = {migrated[k].receipt}
===============================================================================
