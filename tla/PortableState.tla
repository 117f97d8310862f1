---------------------------- MODULE PortableState ----------------------------
(***************************************************************************)
(* The logical content of a database, as backups compare it, exports carry *)
(* it and inspections judge it: the rows of every table, collected under   *)
(* the checks of collectPortableState, and the database materialised from  *)
(* such rows.                                                              *)
(*                                                                         *)
(* A summary holds the digest of the whole state, so a summary is the      *)
(* state itself.                                                           *)
(***************************************************************************)
EXTENDS DataStore, FiniteSets

(***************************************************************************)
(* collectPortableState: what it reads.                                    *)
(***************************************************************************)
Stored(d) == {r \in Ids : d.records[r] # Nil}

SchemaRows(d) ==
  {[version |-> n, schema |-> d.schemas[n]] : n \in 1..SchemaVersion(d)}

RecordRows(d) == {[rec |-> r, row |-> d.records[r]] : r \in Stored(d)}

RelationRows(d) ==
  {[source |-> x[1], field |-> x[2], target |-> d.relations[x[1]][x[2]]] :
     x \in {y \in Stored(d) \X Fields : d.relations[y[1]][y[2]] # Nil}}

IdempotencyRows(d) ==
  {[key |-> k, entry |-> d.idem[k]] : k \in {l \in Keys : d.idem[l] # Nil}}

ProvenanceRows(d) ==
  {[sequence |-> i, event |-> d.events[i]] : i \in 1..Len(d.events)}

Collected(d) ==
  [schemas     |-> SchemaRows(d),
   records     |-> RecordRows(d),
   relations   |-> RelationRows(d),
   idempotency |-> IdempotencyRows(d),
   provenance  |-> ProvenanceRows(d)]

(***************************************************************************)
(* collectPortableState: what it insists on.                               *)
(***************************************************************************)
\* The row reads back under the schema version it names.
RecordReadsBack(d, r) ==
  LET row == d.records[r]
  IN  /\ row.schemaVersion \in 1..SchemaVersion(d)
      /\ Validates(d.schemas[row.schemaVersion], row.data)

\* Mutant: the index is judged by the current schema.
SourceRelationsNow(d, r) ==
  IF Active(d, r)
    THEN LET refs == RefsOf(CurrentSchema(d), d.records[r].data)
         IN  TargetsExist(d, refs) /\ d.relations[r] = refs
    ELSE d.relations[r] = NoRefs

\* assertSourceRelations.
SourceRelationsMatch(d, r) ==
  IF Active(d, r)
    THEN LET refs == RefsOf(d.schemas[d.records[r].schemaVersion], d.records[r].data)
         IN  TargetsExist(d, refs) /\ d.relations[r] = refs
    ELSE d.relations[r] = NoRefs

\* assertCommittedRecordReferences: what was committed has its records.
CommittedRecordsExist(d) ==
  /\ \A i \in 1..Len(d.events) :
       d.events[i].rec # Nil => d.events[i].rec \in Stored(d)
  /\ \A k \in Keys : d.idem[k] # Nil =>
       \A n \in 1..Len(d.idem[k].result.snapshots) :
         d.idem[k].result.snapshots[n].rec \in Stored(d)

EventsHaveEntries(d) ==
  \A i \in 1..Len(d.events) : d.idem[d.events[i].key] # Nil

\* An event has the shape its operation gives it.
EventReadsBack(e) ==
  IF e.op = "data.transaction.execute"
    THEN e.tx # 0 /\ e.rec = Nil /\ e.before = 0 /\ e.after = 0
    ELSE /\ e.rec # Nil
         /\ IF e.op = "data.record.create"
              THEN e.before = 0 /\ e.after = 1
              ELSE e.before # 0 /\ e.after = e.before + 1

Collectable(d) ==
  /\ \A r \in Stored(d) : RecordReadsBack(d, r) /\ SourceRelationsMatch(d, r)
  /\ \A i \in 1..Len(d.events) : EventReadsBack(d.events[i])
  /\ CommittedRecordsExist(d)
  /\ EventsHaveEntries(d)

(***************************************************************************)
(* materializePortableState.                                               *)
(***************************************************************************)
\* Every insert of a row finds its place free, and versions and sequences are
\* drawn again as they were.
Materializable(s) ==
  /\ {x.version : x \in s.schemas} = 1..Cardinality(s.schemas)
  /\ s.schemas # {}
  /\ {x.sequence : x \in s.provenance} = 1..Cardinality(s.provenance)
  /\ \A x, y \in s.records : x.rec = y.rec => x = y
  /\ \A x, y \in s.idempotency : x.key = y.key => x = y

Materialized(s) ==
  [schemas   |-> [n \in 1..Cardinality(s.schemas) |->
                    (CHOOSE x \in s.schemas : x.version = n).schema],
   records   |-> [r \in Ids |->
                    IF \E x \in s.records : x.rec = r
                      THEN (CHOOSE x \in s.records : x.rec = r).row ELSE Nil],
   relations |-> [r \in Ids |-> [f \in Fields |->
                    IF \E x \in s.relations : x.source = r /\ x.field = f
                      THEN (CHOOSE x \in s.relations : x.source = r /\ x.field = f).target
                      ELSE Nil]],
   idem      |-> [k \in Keys |->
                    IF \E x \in s.idempotency : x.key = k
                      THEN (CHOOSE x \in s.idempotency : x.key = k).entry ELSE Nil],
   events    |-> [i \in 1..Cardinality(s.provenance) |->
                    (CHOOSE x \in s.provenance : x.sequence = i).event]]

\* The materialised database collects to the state it was made from.
Imports(s) ==
  /\ Materializable(s)
  /\ Collectable(Materialized(s))
  /\ Collected(Materialized(s)) = s

\* The deep verification finds nothing to object to, and the rows it collects
\* make the same database again.
Portable(d) ==
  /\ Collectable(d)
  /\ Imports(Collected(d))
  /\ Materialized(Collected(d)) = d
==============================================================================
