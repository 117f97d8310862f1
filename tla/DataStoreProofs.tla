--------------------------- MODULE DataStoreProofs ---------------------------
(***************************************************************************)
(* Lemmas about the operators of DataStore: what each of them makes of an  *)
(* image in which references, records and history are as they should be.   *)
(***************************************************************************)
EXTENDS PortableState, FiniteSetTheorems, WellFoundedInduction, TLAPS

(***************************************************************************)
(* Schemas and data.                                                       *)
(***************************************************************************)
\* The current schema is one of the schemas.
LEMMA CurrentSchemaType ==
  ASSUME NEW d \in Images
  PROVE  /\ SchemaVersion(d) \in Nat \ {0}
         /\ SchemaVersion(d) \in 1..Len(d.schemas)
         /\ CurrentSchema(d) \in Schemas
  BY DEF Images, SchemaVersion, CurrentSchema

\* Defaults are values.
LEMMA WithDefaultsType ==
  ASSUME NEW schema \in Schemas, NEW data \in Data
  PROVE  WithDefaults(schema, data) \in Data
<1> SUFFICES ASSUME NEW f \in Fields
             PROVE  (IF Defaulted(schema, data, f)
                       THEN schema[f].default ELSE data[f]) \in Values \cup {Absent}
  BY DEF WithDefaults, Data
<1>1. CASE Defaulted(schema, data, f)
  <2>1. schema[f] \in FieldDefinitions
    BY <1>1 DEF Defaulted, Schemas
  <2> QED
    BY <1>1, <2>1 DEF FieldDefinitions, Values
<1>2. CASE ~Defaulted(schema, data, f)
  BY <1>2 DEF Data
<1> QED
  BY <1>1, <1>2

LEMMA MergeType ==
  ASSUME NEW current \in Data, NEW patch \in Data
  PROVE  Merge(current, patch) \in Data
  BY DEF Merge, Data

LEMMA RefsOfType ==
  ASSUME NEW schema \in Schemas, NEW data \in Data
  PROVE  RefsOf(schema, data) \in [Fields -> Ids \cup {Nil}]
  BY DEF RefsOf

LEMMA NoRefsType == NoRefs \in [Fields -> Ids \cup {Nil}]
  BY DEF NoRefs

(***************************************************************************)
(* Written, field by field.                                                *)
(***************************************************************************)
LEMMA EntryType ==
  ASSUME NEW r \in Ids, NEW row \in Rows, NEW m \in Mutations, NEW actor \in Actors
  PROVE  EntryOf(r, row, m, actor) \in Entries
<1>1. AsRequest(m, actor) \in Requests
  BY DEF AsRequest, Requests, NoAdds, Schemas, Mutations
<1>2. [snapshots |-> <<[rec |-> r, row |-> row]>>,
       schemaVersion |-> row.schemaVersion] \in Results
  BY DEF Results, Snapshots, Rows
<1> QED
  BY <1>1, <1>2 DEF EntryOf, Entries, Mutations

LEMMA WrittenType ==
  ASSUME NEW d \in Images, NEW r \in Ids, NEW row \in Rows,
         NEW refs \in [Fields -> Ids \cup {Nil}], NEW m \in Mutations,
         NEW actor \in Actors, NEW tx \in Nat
  PROVE  Written(d, r, row, refs, m, actor, tx) \in Images
<1>1. EventOf(r, row, m, actor, tx) \in Events
  BY DEF EventOf, Events, Mutations, Rows
<1>4. EntryOf(r, row, m, actor) \in Entries
  BY EntryType
<1>5. m.key \in Keys
  BY DEF Mutations
<1>6. [d.records EXCEPT ![r] = row] \in [Ids -> Rows \cup {Nil}]
  BY DEF Images
<1>7. [d.relations EXCEPT ![r] = refs] \in [Ids -> [Fields -> Ids \cup {Nil}]]
  BY DEF Images
<1>8. [d.idem EXCEPT ![m.key] = EntryOf(r, row, m, actor)]
        \in [Keys -> Entries \cup {Nil}]
  BY <1>4, <1>5 DEF Images
<1>9. Append(d.events, EventOf(r, row, m, actor, tx)) \in Seq(Events)
  BY <1>1 DEF Images
<1> QED
  BY <1>6, <1>7, <1>8, <1>9 DEF Written, Images

(***************************************************************************)
(* An image only ever grows.                                               *)
(***************************************************************************)
LEMMA ExtendsReflexive ==
  ASSUME NEW d \in Images
  PROVE  Extends(d, d)
<1>1. \A r \in Ids : d.records[r] # Nil => d.records[r].version \in Nat
  BY DEF Images, Rows
<1>2. Len(d.schemas) \in Nat /\ Len(d.events) \in Nat
  BY DEF Images
<1> QED
  BY <1>1, <1>2 DEF Extends

LEMMA ExtendsTransitive ==
  ASSUME NEW d \in Images, NEW e \in Images, NEW g \in Images,
         Extends(d, e), Extends(e, g)
  PROVE  Extends(d, g)
<1>1. /\ Len(d.schemas) \in Nat /\ Len(e.schemas) \in Nat /\ Len(g.schemas) \in Nat
      /\ Len(d.events) \in Nat /\ Len(e.events) \in Nat /\ Len(g.events) \in Nat
  BY DEF Images
<1>2. /\ Len(d.schemas) <= Len(g.schemas)
      /\ \A i \in 1..Len(d.schemas) : g.schemas[i] = d.schemas[i]
  BY <1>1 DEF Extends
<1>3. /\ Len(d.events) <= Len(g.events)
      /\ \A i \in 1..Len(d.events) : g.events[i] = d.events[i]
  BY <1>1 DEF Extends
<1>4. \A k \in Keys : d.idem[k] # Nil => g.idem[k] = d.idem[k]
  BY DEF Extends
<1>5. ASSUME NEW r \in Ids, d.records[r] # Nil
      PROVE  /\ g.records[r] # Nil
             /\ g.records[r].version >= d.records[r].version
             /\ d.records[r].deleted => g.records[r] = d.records[r]
             /\ g.records[r].createdBy = d.records[r].createdBy
  <2>1. e.records[r] # Nil /\ g.records[r] # Nil
    BY <1>5 DEF Extends
  <2>2. /\ d.records[r].version \in Nat
        /\ e.records[r].version \in Nat
        /\ g.records[r].version \in Nat
    BY <1>5, <2>1 DEF Images, Rows
  <2> QED
    BY <1>5, <2>1, <2>2 DEF Extends
<1> QED
  BY <1>2, <1>3, <1>4, <1>5 DEF Extends

\* A mutation under a fresh key that makes a new row, or moves an active one
\* forward.
LEMMA WrittenExtends ==
  ASSUME NEW d \in Images, NEW r \in Ids, NEW row \in Rows, NEW refs,
         NEW m \in Mutations, NEW actor, NEW tx, Fresh(d, m.key),
         d.records[r] # Nil =>
           /\ ~d.records[r].deleted
           /\ row.version = d.records[r].version + 1
           /\ row.createdBy = d.records[r].createdBy
  PROVE  Extends(d, Written(d, r, row, refs, m, actor, tx))
<1> DEFINE e == Written(d, r, row, refs, m, actor, tx)
           event == EventOf(r, row, m, actor, tx)
           entry == EntryOf(r, row, m, actor)
<1>1. /\ e.schemas = d.schemas
      /\ e.records = [d.records EXCEPT ![r] = row]
      /\ e.idem = [d.idem EXCEPT ![m.key] = entry]
      /\ e.events = Append(d.events, event)
  BY DEF Written
<1> HIDE DEF e, event, entry
<1>2. /\ d.records \in [Ids -> Rows \cup {Nil}]
      /\ d.idem \in [Keys -> Entries \cup {Nil}]
      /\ d.events \in Seq(Events)
      /\ Len(d.schemas) \in Nat
  BY DEF Images
<1>3. /\ Len(d.events) <= Len(e.events)
      /\ \A i \in 1..Len(d.events) : e.events[i] = d.events[i]
  BY <1>1, <1>2
<1>4. \A k \in Keys : d.idem[k] # Nil => e.idem[k] = d.idem[k]
  BY <1>1, <1>2 DEF Fresh
<1>5. ASSUME NEW s \in Ids, d.records[s] # Nil
      PROVE  /\ e.records[s] # Nil
             /\ e.records[s].version >= d.records[s].version
             /\ d.records[s].deleted => e.records[s] = d.records[s]
             /\ e.records[s].createdBy = d.records[s].createdBy
  <2>1. d.records[s].version \in Nat
    BY <1>2, <1>5 DEF Rows
  <2> QED
    BY <2>1, <1>1, <1>2, <1>5, DistinctValues
<1>6. Extends(d, e)
  BY <1>1, <1>2, <1>3, <1>4, <1>5 DEF Extends
<1> QED
  BY <1>6 DEF e

(***************************************************************************)
(* What the engines keep true of an image, and rely on.                    *)
(***************************************************************************)
Sound(d) == RelationsExact(d) /\ NoDangling(d) /\ Hydrates(d)

\* Creating a record: its identifier is new, so nothing refers to it yet, and
\* what it refers to was there before.
LEMMA CreatedRowType ==
  ASSUME NEW d \in Images, NEW m \in Mutations, NEW actor \in Actors
  PROVE  CreatedRow(d, m, actor) \in Rows
<1>1. WithDefaults(CurrentSchema(d), m.data) \in Data
  BY CurrentSchemaType, WithDefaultsType DEF Mutations
<1> QED
  BY <1>1, CurrentSchemaType DEF CreatedRow, Rows

LEMMA CreatedSound ==
  ASSUME NEW d \in Images, Sound(d), NEW m \in Mutations, NEW r \in Ids,
         NEW actor \in Actors, NEW tx \in Nat, MayCreate(d, m, r)
  PROVE  Created(d, m, r, actor, tx) \in Images /\ Sound(Created(d, m, r, actor, tx))
<1> DEFINE row  == CreatedRow(d, m, actor)
           refs == RefsOf(CurrentSchema(d), row.data)
           e    == Created(d, m, r, actor, tx)
<1>1. row \in Rows
  BY CreatedRowType
<1>2. refs \in [Fields -> Ids \cup {Nil}]
  BY <1>1, CurrentSchemaType, RefsOfType DEF Rows
<1>3. e \in Images
  BY <1>1, <1>2, WrittenType DEF Created
<1>4. /\ e.schemas = d.schemas
      /\ e.records = [d.records EXCEPT ![r] = row]
      /\ e.relations = [d.relations EXCEPT ![r] = refs]
  BY DEF Created, Written
<1>5. /\ row.data = WithDefaults(CurrentSchema(d), m.data)
      /\ row.schemaVersion = SchemaVersion(d)
      /\ ~row.deleted
  BY DEF CreatedRow
<1>6. /\ d.records[r] = Nil
      /\ Validates(CurrentSchema(d), row.data)
      /\ TargetsExist(d, refs)
  BY <1>5 DEF MayCreate
<1>7. row # Nil
  BY <1>1, DistinctValues
<1>8. /\ d.records \in [Ids -> Rows \cup {Nil}]
      /\ d.relations \in [Ids -> [Fields -> Ids \cup {Nil}]]
  BY DEF Images
<1> HIDE DEF row, refs, e
<1>9. /\ Active(e, r)
      /\ \A s \in Ids \ {r} : Active(e, s) <=> Active(d, s)
  BY <1>4, <1>5, <1>7, <1>8 DEF Active
<1>10. RelationsExact(e)
  <2> SUFFICES ASSUME NEW s \in Ids
               PROVE  e.relations[s] =
                        IF Active(e, s)
                          THEN RefsOf(e.schemas[e.records[s].schemaVersion],
                                      e.records[s].data)
                          ELSE NoRefs
    BY DEF RelationsExact
  <2>1. CASE s = r
    BY <2>1, <1>4, <1>5, <1>8, <1>9 DEF CurrentSchema, refs
  <2>2. CASE s # r
    BY <2>2, <1>4, <1>8, <1>9 DEF Sound, RelationsExact
  <2> QED
    BY <2>1, <2>2
<1>11. NoDangling(e)
  <2> SUFFICES ASSUME NEW s \in Ids, NEW f \in Fields, e.relations[s][f] # Nil
               PROVE  Active(e, s) /\ Active(e, e.relations[s][f])
    BY DEF NoDangling
  <2>1. CASE s = r
    BY <2>1, <1>2, <1>4, <1>6, <1>8, <1>9 DEF TargetsExist
  <2>2. CASE s # r
    BY <2>2, <1>4, <1>8, <1>9 DEF Sound, NoDangling
  <2> QED
    BY <2>1, <2>2
<1>12. Hydrates(e)
  <2> SUFFICES ASSUME NEW s \in Ids, e.records[s] # Nil
               PROVE  /\ e.records[s].schemaVersion \in 1..SchemaVersion(e)
                      /\ Validates(e.schemas[e.records[s].schemaVersion],
                                   e.records[s].data)
    BY DEF Hydrates
  <2>1. CASE s = r
    BY <2>1, <1>4, <1>5, <1>6, <1>8, CurrentSchemaType DEF CurrentSchema, SchemaVersion
  <2>2. CASE s # r
    BY <2>2, <1>4, <1>8 DEF Sound, Hydrates, SchemaVersion
  <2> QED
    BY <2>1, <2>2
<1> QED
  BY <1>3, <1>10, <1>11, <1>12 DEF Sound, e

\* A new version of an active record: it stays, so what refers to it may, and
\* its own row of the index is replaced by what its new data ask for.
LEMMA WrittenSound ==
  ASSUME NEW d \in Images, Sound(d), NEW r \in Ids, Active(d, r), NEW row \in Rows,
         row.schemaVersion = SchemaVersion(d), ~row.deleted,
         Validates(CurrentSchema(d), row.data),
         NEW refs, refs = RefsOf(CurrentSchema(d), row.data), TargetsExist(d, refs),
         NEW m \in Mutations, NEW actor \in Actors, NEW tx \in Nat
  PROVE  /\ Written(d, r, row, refs, m, actor, tx) \in Images
         /\ Sound(Written(d, r, row, refs, m, actor, tx))
<1> DEFINE e == Written(d, r, row, refs, m, actor, tx)
<1>1. refs \in [Fields -> Ids \cup {Nil}]
  BY CurrentSchemaType, RefsOfType DEF Rows
<1>2. e \in Images
  BY <1>1, WrittenType
<1>3. /\ e.schemas = d.schemas
      /\ e.records = [d.records EXCEPT ![r] = row]
      /\ e.relations = [d.relations EXCEPT ![r] = refs]
  BY DEF Written
<1>4. row # Nil
  BY DistinctValues
<1>5. /\ d.records \in [Ids -> Rows \cup {Nil}]
      /\ d.relations \in [Ids -> [Fields -> Ids \cup {Nil}]]
  BY DEF Images
<1> HIDE DEF e
<1>6. \A s \in Ids : Active(e, s) <=> Active(d, s)
  BY <1>3, <1>4, <1>5 DEF Active
<1>7. RelationsExact(e)
  <2> SUFFICES ASSUME NEW s \in Ids
               PROVE  e.relations[s] =
                        IF Active(e, s)
                          THEN RefsOf(e.schemas[e.records[s].schemaVersion],
                                      e.records[s].data)
                          ELSE NoRefs
    BY DEF RelationsExact
  <2>1. CASE s = r
    BY <2>1, <1>3, <1>5, <1>6 DEF CurrentSchema
  <2>2. CASE s # r
    BY <2>2, <1>3, <1>5, <1>6 DEF Sound, RelationsExact
  <2> QED
    BY <2>1, <2>2
<1>8. NoDangling(e)
  <2> SUFFICES ASSUME NEW s \in Ids, NEW f \in Fields, e.relations[s][f] # Nil
               PROVE  Active(e, s) /\ Active(e, e.relations[s][f])
    BY DEF NoDangling
  <2>1. CASE s = r
    BY <2>1, <1>1, <1>3, <1>5, <1>6 DEF TargetsExist
  <2>2. CASE s # r
    BY <2>2, <1>3, <1>5, <1>6 DEF Sound, NoDangling
  <2> QED
    BY <2>1, <2>2
<1>9. Hydrates(e)
  <2> SUFFICES ASSUME NEW s \in Ids, e.records[s] # Nil
               PROVE  /\ e.records[s].schemaVersion \in 1..SchemaVersion(e)
                      /\ Validates(e.schemas[e.records[s].schemaVersion],
                                   e.records[s].data)
    BY DEF Hydrates
  <2>1. CASE s = r
    BY <2>1, <1>3, <1>5, CurrentSchemaType DEF CurrentSchema, SchemaVersion
  <2>2. CASE s # r
    BY <2>2, <1>3, <1>5 DEF Sound, Hydrates, SchemaVersion
  <2> QED
    BY <2>1, <2>2
<1> QED
  BY <1>2, <1>7, <1>8, <1>9 DEF Sound, e

\* Updating a record.
LEMMA UpdatedRowType ==
  ASSUME NEW d \in Images, NEW m \in Mutations, NEW actor \in Actors,
         MayUpdate(d, m), m.rec \in Ids
  PROVE  UpdatedRow(d, m, actor) \in Rows
<1>1. d.records[m.rec] \in Rows
  BY DEF MayUpdate, Active, Images
<1>2. WithDefaults(CurrentSchema(d), Merge(d.records[m.rec].data, m.data)) \in Data
  BY <1>1, CurrentSchemaType, MergeType, WithDefaultsType DEF Mutations, Rows
<1> QED
  BY <1>1, <1>2, CurrentSchemaType DEF UpdatedRow, Rows

LEMMA UpdatedSound ==
  ASSUME NEW d \in Images, Sound(d), NEW m \in Mutations,
         NEW actor \in Actors, NEW tx \in Nat, MayUpdate(d, m), m.rec \in Ids
  PROVE  Updated(d, m, actor, tx) \in Images /\ Sound(Updated(d, m, actor, tx))
<1> DEFINE old  == d.records[m.rec]
           row  == UpdatedRow(d, m, actor)
           refs == RefsOf(CurrentSchema(d), row.data)
<1>1. row \in Rows
  BY UpdatedRowType
<1>2. old \in Rows
  BY DEF MayUpdate, Active, Images
<1>3. /\ row.data = WithDefaults(CurrentSchema(d), Merge(old.data, m.data))
      /\ row.schemaVersion = SchemaVersion(d)
      /\ ~row.deleted
  BY <1>2 DEF UpdatedRow, Rows
<1>4. /\ Active(d, m.rec)
      /\ Validates(CurrentSchema(d), row.data)
      /\ TargetsExist(d, refs)
  BY <1>3 DEF MayUpdate
<1>5. Updated(d, m, actor, tx) = Written(d, m.rec, row, refs, m, actor, tx)
  BY DEF Updated
<1> HIDE DEF row, refs
<1>6. refs = RefsOf(CurrentSchema(d), row.data)
  BY DEF refs
<1> QED
  BY <1>1, <1>3, <1>4, <1>5, <1>6, WrittenSound

\* Deleting a record: nothing refers to it, and its own references go with it.
LEMMA DeletedSound ==
  ASSUME NEW d \in Images, Sound(d), NEW m \in Mutations,
         NEW actor \in Actors, NEW tx \in Nat, MayDelete(d, m), m.rec \in Ids
  PROVE  Deleted(d, m, actor, tx) \in Images /\ Sound(Deleted(d, m, actor, tx))
<1> DEFINE r   == m.rec
           old == d.records[r]
           row == DeletedRow(d, m, actor)
           e   == Deleted(d, m, actor, tx)
<1>1. old \in Rows /\ ~old.deleted
  BY DEF MayDelete, Active, Images
<1>2. row \in Rows
  BY <1>1 DEF DeletedRow, Rows
<1>3. e \in Images
  BY <1>2, NoRefsType, WrittenType DEF Deleted
<1>4. /\ e.schemas = d.schemas
      /\ e.records = [d.records EXCEPT ![r] = row]
      /\ e.relations = [d.relations EXCEPT ![r] = NoRefs]
  BY DEF Deleted, Written
<1>5. /\ row.data = old.data
      /\ row.schemaVersion = old.schemaVersion
      /\ row.deleted
  BY <1>1 DEF DeletedRow, Rows
<1>6. Unreferenced(d, r) /\ old # Nil
  BY DEF MayDelete, Active
<1>7. /\ d.records \in [Ids -> Rows \cup {Nil}]
      /\ d.relations \in [Ids -> [Fields -> Ids \cup {Nil}]]
      /\ r \in Ids
  BY DEF Images
<1>8. d.records[r] = old
  OBVIOUS
<1> HIDE DEF row, e, r, old
<1>9. /\ ~Active(e, r)
      /\ \A s \in Ids \ {r} : Active(e, s) <=> Active(d, s)
  BY <1>4, <1>5, <1>7 DEF Active
<1>10. RelationsExact(e)
  <2> SUFFICES ASSUME NEW s \in Ids
               PROVE  e.relations[s] =
                        IF Active(e, s)
                          THEN RefsOf(e.schemas[e.records[s].schemaVersion],
                                      e.records[s].data)
                          ELSE NoRefs
    BY DEF RelationsExact
  <2>1. CASE s = r
    BY <2>1, <1>4, <1>7, <1>9
  <2>2. CASE s # r
    BY <2>2, <1>4, <1>7, <1>9 DEF Sound, RelationsExact
  <2> QED
    BY <2>1, <2>2
<1>11. NoDangling(e)
  <2> SUFFICES ASSUME NEW s \in Ids, NEW f \in Fields, e.relations[s][f] # Nil
               PROVE  Active(e, s) /\ Active(e, e.relations[s][f])
    BY DEF NoDangling
  <2>1. s # r
    BY <1>4, <1>7 DEF NoRefs
  <2>2. e.relations[s] = d.relations[s]
    BY <2>1, <1>4, <1>7
  <2>3. d.relations[s][f] # r /\ d.relations[s][f] \in Ids
    BY <2>2, <1>6, <1>7 DEF Unreferenced
  <2> QED
    BY <2>1, <2>2, <2>3, <1>9 DEF Sound, NoDangling
<1>12. Hydrates(e)
  <2> SUFFICES ASSUME NEW s \in Ids, e.records[s] # Nil
               PROVE  /\ e.records[s].schemaVersion \in 1..SchemaVersion(e)
                      /\ Validates(e.schemas[e.records[s].schemaVersion],
                                   e.records[s].data)
    BY DEF Hydrates
  <2>1. CASE s = r
    BY <2>1, <1>4, <1>5, <1>6, <1>7, <1>8 DEF Sound, Hydrates, SchemaVersion
  <2>2. CASE s # r
    BY <2>2, <1>4, <1>7 DEF Sound, Hydrates, SchemaVersion
  <2> QED
    BY <2>1, <2>2
<1> QED
  BY <1>3, <1>10, <1>11, <1>12 DEF Sound, e

\* Whatever the mutation.
LEMMA MutatedSound ==
  ASSUME NEW d \in Images, Sound(d), NEW m \in Mutations, NEW r \in Ids,
         NEW actor \in Actors, NEW tx \in Nat, MayMutate(d, m, r)
  PROVE  /\ Mutated(d, m, r, actor, tx) \in Images
         /\ Sound(Mutated(d, m, r, actor, tx))
         /\ Extends(d, Mutated(d, m, r, actor, tx))
         /\ Mutated(d, m, r, actor, tx).records[r] \in Rows
         /\ ~Fresh(Mutated(d, m, r, actor, tx), m.key)
<1>0. /\ Fresh(d, m.key)
      /\ m.key \in Keys
      /\ d.records \in [Ids -> Rows \cup {Nil}]
      /\ d.idem \in [Keys -> Entries \cup {Nil}]
  BY DEF MayMutate, Images, Mutations
<1>1. CASE MayCreate(d, m, r)
  <2>1. Mutated(d, m, r, actor, tx) = Created(d, m, r, actor, tx)
    BY <1>1 DEF Mutated, MayCreate
  <2>2. CreatedRow(d, m, actor) \in Rows
    BY CreatedRowType
  <2>3. d.records[r] # Nil =>
          /\ ~d.records[r].deleted
          /\ CreatedRow(d, m, actor).version = d.records[r].version + 1
          /\ CreatedRow(d, m, actor).createdBy = d.records[r].createdBy
    BY <1>1 DEF CreatedRow, MayCreate, Active
  <2>4. Extends(d, Created(d, m, r, actor, tx))
    BY <1>0, <1>1, <2>2, <2>3, WrittenExtends DEF Created
  <2>5. /\ Created(d, m, r, actor, tx).records[r] = CreatedRow(d, m, actor)
        /\ Created(d, m, r, actor, tx).idem[m.key] = EntryOf(r, CreatedRow(d, m, actor), m, actor)
    BY <1>0, <1>1 DEF Created, Written
  <2>6. EntryOf(r, CreatedRow(d, m, actor), m, actor) # Nil
    BY <2>2, EntryType, DistinctValues
  <2> QED
    BY <2>1, <2>2, <2>4, <2>5, <2>6, <1>1, CreatedSound DEF Fresh
<1>2. CASE r = m.rec /\ MayUpdate(d, m)
  <2>1. Mutated(d, m, r, actor, tx) = Updated(d, m, actor, tx)
    BY <1>2 DEF Mutated, MayUpdate
  <2>2. UpdatedRow(d, m, actor) \in Rows
    BY <1>2, UpdatedRowType
  <2>3. d.records[r] # Nil =>
          /\ ~d.records[r].deleted
          /\ UpdatedRow(d, m, actor).version = d.records[r].version + 1
          /\ UpdatedRow(d, m, actor).createdBy = d.records[r].createdBy
    BY <1>2 DEF UpdatedRow, MayUpdate, Active
  <2>4. Extends(d, Updated(d, m, actor, tx))
    BY <1>0, <1>2, <2>2, <2>3, WrittenExtends DEF Updated
  <2>5. /\ Updated(d, m, actor, tx).records[r] = UpdatedRow(d, m, actor)
        /\ Updated(d, m, actor, tx).idem[m.key] = EntryOf(r, UpdatedRow(d, m, actor), m, actor)
    BY <1>0, <1>2 DEF Updated, Written
  <2>6. EntryOf(r, UpdatedRow(d, m, actor), m, actor) # Nil
    BY <2>2, EntryType, DistinctValues
  <2> QED
    BY <2>1, <2>2, <2>4, <2>5, <2>6, <1>2, UpdatedSound DEF Fresh
<1>3. CASE r = m.rec /\ MayDelete(d, m)
  <2>1. Mutated(d, m, r, actor, tx) = Deleted(d, m, actor, tx)
    BY <1>3 DEF Mutated, MayDelete
  <2>2. DeletedRow(d, m, actor) \in Rows
    BY <1>3 DEF DeletedRow, Rows, MayDelete, Active, Images
  <2>3. d.records[r] # Nil =>
          /\ ~d.records[r].deleted
          /\ DeletedRow(d, m, actor).version = d.records[r].version + 1
          /\ DeletedRow(d, m, actor).createdBy = d.records[r].createdBy
    BY <1>3 DEF DeletedRow, MayDelete, Active
  <2>4. Extends(d, Deleted(d, m, actor, tx))
    BY <1>0, <1>3, <2>2, <2>3, WrittenExtends DEF Deleted
  <2>5. /\ Deleted(d, m, actor, tx).records[r] = DeletedRow(d, m, actor)
        /\ Deleted(d, m, actor, tx).idem[m.key] = EntryOf(r, DeletedRow(d, m, actor), m, actor)
    BY <1>0, <1>3 DEF Deleted, Written
  <2>6. EntryOf(r, DeletedRow(d, m, actor), m, actor) # Nil
    BY <2>2, EntryType, DistinctValues
  <2> QED
    BY <2>1, <2>2, <2>4, <2>5, <2>6, <1>3, DeletedSound DEF Fresh
<1> QED
  BY <1>1, <1>2, <1>3 DEF MayMutate

\* The closing event of a transaction touches no record.
LEMMA ClosedSound ==
  ASSUME NEW d \in Images, Sound(d), NEW req \in Requests, NEW tx \in Nat,
         NEW children \in Seq(Nat), NEW snapshots \in Seq(Snapshots)
  PROVE  /\ Closed(d, req, tx, children, snapshots) \in Images
         /\ Sound(Closed(d, req, tx, children, snapshots))
<1> DEFINE e == Closed(d, req, tx, children, snapshots)
<1>1. ClosingEvent(req, tx, children) \in Events
  BY DEF ClosingEvent, Events, Requests
<1>2. ClosingEntry(req, snapshots, SchemaVersion(d)) \in Entries
  BY CurrentSchemaType DEF ClosingEntry, Entries, Results
<1>3. req.key \in Keys
  BY DEF Requests
<1>4. [d.idem EXCEPT ![req.key] = ClosingEntry(req, snapshots, SchemaVersion(d))]
        \in [Keys -> Entries \cup {Nil}]
  BY <1>2, <1>3 DEF Images
<1>5. Append(d.events, ClosingEvent(req, tx, children)) \in Seq(Events)
  BY <1>1 DEF Images
<1>6. e \in Images
  BY <1>4, <1>5 DEF Closed, Images
<1>7. e.schemas = d.schemas /\ e.records = d.records /\ e.relations = d.relations
  BY DEF Closed
<1> HIDE DEF e
<1>8. Sound(e)
  BY <1>7 DEF Sound, RelationsExact, NoDangling, Hydrates, Active, SchemaVersion
<1> QED
  BY <1>6, <1>8 DEF e

\* A later schema version leaves the earlier ones, and so the records, alone.
LEMMA EvolvedSound ==
  ASSUME NEW d \in Images, Sound(d), NEW schema \in Schemas
  PROVE  Evolved(d, schema) \in Images /\ Sound(Evolved(d, schema))
<1> DEFINE e == Evolved(d, schema)
<1>1. /\ e.schemas = Append(d.schemas, schema)
      /\ e.records = d.records /\ e.relations = d.relations
  BY DEF Evolved
<1>2. /\ d.schemas \in Seq(Schemas)
      /\ Append(d.schemas, schema) \in Seq(Schemas) \ {<<>>}
  BY SMTT(60) DEF Images
<1>3. e \in Images
  BY <1>2 DEF Evolved, Images
<1> HIDE DEF e
<1>4. /\ SchemaVersion(e) = SchemaVersion(d) + 1
      /\ \A i \in 1..SchemaVersion(d) : e.schemas[i] = d.schemas[i]
  BY <1>1, <1>2 DEF SchemaVersion
<1>5. \A r \in Ids : Active(e, r) <=> Active(d, r)
  BY <1>1 DEF Active
<1>6. \A r \in Ids : d.records[r] # Nil =>
        /\ d.records[r].schemaVersion \in 1..SchemaVersion(d)
        /\ e.schemas[d.records[r].schemaVersion] = d.schemas[d.records[r].schemaVersion]
  BY <1>4 DEF Sound, Hydrates
<1>7. RelationsExact(e)
  BY <1>1, <1>5, <1>6 DEF Sound, RelationsExact, Active
<1>8. NoDangling(e)
  BY <1>1, <1>5, DistinctValues DEF Sound, NoDangling, Active
<1>9. Hydrates(e)
  BY <1>1, <1>4, <1>6, CurrentSchemaType DEF Sound, Hydrates
<1> QED
  BY <1>3, <1>7, <1>8, <1>9 DEF Sound, e

LEMMA ClosedExtends ==
  ASSUME NEW d \in Images, NEW req \in Requests, NEW tx, NEW children,
         NEW snapshots, Fresh(d, req.key)
  PROVE  Extends(d, Closed(d, req, tx, children, snapshots))
<1> DEFINE e == Closed(d, req, tx, children, snapshots)
           event == ClosingEvent(req, tx, children)
           entry == ClosingEntry(req, snapshots, SchemaVersion(d))
<1>1. /\ e.schemas = d.schemas
      /\ e.records = d.records
      /\ e.idem = [d.idem EXCEPT ![req.key] = entry]
      /\ e.events = Append(d.events, event)
  BY DEF Closed
<1> HIDE DEF e, event, entry
<1>2. /\ d.idem \in [Keys -> Entries \cup {Nil}]
      /\ d.events \in Seq(Events)
      /\ Len(d.schemas) \in Nat
  BY DEF Images
<1>3. /\ Len(d.events) <= Len(e.events)
      /\ \A i \in 1..Len(d.events) : e.events[i] = d.events[i]
  BY <1>1, <1>2
<1>4. \A k \in Keys : d.idem[k] # Nil => e.idem[k] = d.idem[k]
  BY <1>1, <1>2 DEF Fresh
<1>5. \A r \in Ids : d.records[r] # Nil => d.records[r].version \in Nat
  BY DEF Images, Rows
<1>6. Extends(d, e)
  BY <1>1, <1>2, <1>3, <1>4, <1>5 DEF Extends
<1> QED
  BY <1>6 DEF e

\* A closed transaction has bound its key.
LEMMA ClosedBinds ==
  ASSUME NEW d \in Images, NEW req \in Requests, NEW tx, NEW children,
         NEW snapshots \in Seq(Snapshots)
  PROVE  ~Fresh(Closed(d, req, tx, children, snapshots), req.key)
<1>1. ClosingEntry(req, snapshots, SchemaVersion(d)) \in Entries
  BY CurrentSchemaType DEF ClosingEntry, Entries, Results
<1>2. req.key \in Keys /\ d.idem \in [Keys -> Entries \cup {Nil}]
  BY DEF Requests, Images
<1> QED
  BY <1>1, <1>2, DistinctValues DEF Closed, Fresh

LEMMA EvolvedExtends ==
  ASSUME NEW d \in Images, NEW schema \in Schemas
  PROVE  Extends(d, Evolved(d, schema))
<1> DEFINE e == Evolved(d, schema)
<1>1. /\ e.schemas = Append(d.schemas, schema)
      /\ e.records = d.records /\ e.idem = d.idem /\ e.events = d.events
  BY DEF Evolved
<1> HIDE DEF e
<1>2. d.schemas \in Seq(Schemas) /\ Len(d.events) \in Nat
  BY DEF Images
<1>3. /\ Len(d.schemas) <= Len(e.schemas)
      /\ \A i \in 1..Len(d.schemas) : e.schemas[i] = d.schemas[i]
  BY <1>1, <1>2
<1>4. \A r \in Ids : d.records[r] # Nil => d.records[r].version \in Nat
  BY DEF Images, Rows
<1>5. Extends(d, e)
  BY <1>1, <1>2, <1>3, <1>4 DEF Extends
<1> QED
  BY <1>5 DEF e

LEMMA WithFieldsType ==
  ASSUME NEW schema \in Schemas, NEW adds \in Schemas
  PROVE  WithFields(schema, adds) \in Schemas
  BY DEF WithFields, Schemas

LEMMA MissingType ==
  ASSUME NEW schema \in Schemas, NEW adds \in Schemas
  PROVE  Missing(schema, adds) \in Schemas
  BY DEF Missing, Schemas

\* Ensuring a structure is an evolution, or none, and a closing event.
LEMMA EnsuredSound ==
  ASSUME NEW d \in Images, Sound(d), NEW req \in Requests, NEW tx \in Nat,
         Fresh(d, req.key)
  PROVE  /\ Ensured(d, req, tx) \in Images
         /\ Sound(Ensured(d, req, tx))
         /\ Extends(d, Ensured(d, req, tx))
         /\ ~Fresh(Ensured(d, req, tx), req.key)
<1> DEFINE missing == Missing(CurrentSchema(d), req.adds)
           evolved == IF missing = NoAdds THEN d
                      ELSE Evolved(d, WithFields(CurrentSchema(d), missing))
<1>1. WithFields(CurrentSchema(d), missing) \in Schemas
  BY CurrentSchemaType, MissingType, WithFieldsType DEF Requests
<1>2. /\ evolved \in Images
      /\ Sound(evolved)
      /\ Extends(d, evolved)
  BY <1>1, EvolvedSound, EvolvedExtends, ExtendsReflexive
<1>3. evolved.idem = d.idem
  BY DEF Evolved
<1>4. Ensured(d, req, tx) = Closed(evolved, req, tx, <<>>, <<>>)
  BY DEF Ensured
<1> HIDE DEF evolved
<1>5. Fresh(evolved, req.key)
  BY <1>3 DEF Fresh
<1>6. <<>> \in Seq(Nat) /\ <<>> \in Seq(Snapshots)
  OBVIOUS
<1>7. /\ Closed(evolved, req, tx, <<>>, <<>>) \in Images
      /\ Sound(Closed(evolved, req, tx, <<>>, <<>>))
  BY <1>2, <1>6, ClosedSound
<1>8. Extends(evolved, Closed(evolved, req, tx, <<>>, <<>>))
  BY <1>2, <1>5, ClosedExtends
<1>9. ~Fresh(Closed(evolved, req, tx, <<>>, <<>>), req.key)
  BY <1>2, <1>6, ClosedBinds
<1> QED
  BY <1>2, <1>4, <1>7, <1>8, <1>9, ExtendsTransitive

(***************************************************************************)
(* Transactions: resolved mutations and bound names.                       *)
(***************************************************************************)
LEMMA ResolvedType ==
  ASSUME NEW d \in Images, NEW m \in Mutations,
         NEW refs \in [Markers -> Ids \cup {Nil}], Resolvable(d, m, refs)
  PROVE  Resolved(d, m, refs) \in Mutations /\ Resolved(d, m, refs).key = m.key
<1> DEFINE data == [f \in Fields |-> IF IsMarked(CurrentSchema(d), m, f)
                                       THEN refs[m.data[f]] ELSE m.data[f]]
<1>1. data \in Data
  <2> SUFFICES ASSUME NEW f \in Fields
               PROVE  data[f] \in Values \cup {Absent}
    BY DEF Data
  <2>1. CASE IsMarked(CurrentSchema(d), m, f)
    BY <2>1 DEF IsMarked, Resolvable, Values
  <2>2. CASE ~IsMarked(CurrentSchema(d), m, f)
    BY <2>2 DEF Mutations, Data
  <2> QED
    BY <2>1, <2>2
<1> HIDE DEF data
<1>2. [m EXCEPT !.data = data] \in Mutations /\ [m EXCEPT !.data = data].key = m.key
  BY <1>1 DEF Mutations
<1> QED
  BY <1>2 DEF Resolved, data

LEMMA BindType ==
  ASSUME NEW refs \in [Markers -> Ids \cup {Nil}], NEW m \in Mutations, NEW r \in Ids
  PROVE  Bind(refs, m, r) \in [Markers -> Ids \cup {Nil}]
  BY DEF Bind, Mutations

(***************************************************************************)
(* The event log.  An image's records, ledger and log tell the same story. *)
(***************************************************************************)
LogSound(d) == VersionsLogged(d) /\ LedgerMatchesLog(d)

\* A key that no entry has bound is in no event.
LEMMA FreshKeyUnused ==
  ASSUME NEW d \in Images, LedgerMatchesLog(d), NEW k \in Keys, Fresh(d, k)
  PROVE  \A i \in 1..Len(d.events) : d.events[i].key # k
  BY DEF LedgerMatchesLog, Fresh, ReceiptsFor

\* What the log's and the ledger's invariants ask of one more event under a
\* fresh key, whatever else changes.
LEMMA AppendedLedger ==
  ASSUME NEW d \in Images, LedgerMatchesLog(d), NEW e, NEW event \in Events,
         NEW entry \in Entries, Fresh(d, event.key),
         e.events = Append(d.events, event),
         e.idem = [d.idem EXCEPT ![event.key] = entry],
         entry.op = event.op, entry.fp.actor = event.actor,
         event.rec # Nil =>
           /\ entry.result.snapshots[1].rec = event.rec
           /\ entry.result.snapshots[1].row.version = event.after
  PROVE  LedgerMatchesLog(e)
<1> DEFINE n == Len(d.events)
<1>1. /\ d.events \in Seq(Events)
      /\ d.idem \in [Keys -> Entries \cup {Nil}]
      /\ event.key \in Keys
      /\ n \in Nat
  BY DEF Images, Events
<1>2. /\ Len(e.events) = n + 1
      /\ e.events[n + 1] = event
      /\ \A i \in 1..n : e.events[i] = d.events[i]
  BY <1>1
<1>3. \A i \in 1..n : d.events[i].key # event.key
  BY <1>1, FreshKeyUnused
<1> SUFFICES ASSUME NEW k \in Keys
             PROVE  IF e.idem[k] = Nil
                      THEN ReceiptsFor(e, k) = {}
                      ELSE \E i \in ReceiptsFor(e, k) :
                             /\ ReceiptsFor(e, k) = {i}
                             /\ EntryMatchesEvent(e, k, i)
  BY DEF LedgerMatchesLog
<1>4. CASE k = event.key
  <2>1. e.idem[k] = entry /\ entry # Nil
    BY <1>1, <1>4, DistinctValues
  <2>2. ReceiptsFor(e, k) = {n + 1}
    BY <1>1, <1>2, <1>3, <1>4 DEF ReceiptsFor
  <2>3. EntryMatchesEvent(e, k, n + 1)
    BY <1>2, <2>1 DEF EntryMatchesEvent
  <2> QED
    BY <2>1, <2>2, <2>3
<1>5. CASE k # event.key
  <2>1. e.idem[k] = d.idem[k]
    BY <1>1, <1>5
  <2>2. ReceiptsFor(e, k) = ReceiptsFor(d, k)
    BY <1>1, <1>2, <1>5 DEF ReceiptsFor
  <2>3. \A i \in ReceiptsFor(d, k) : e.events[i] = d.events[i]
    BY <1>2 DEF ReceiptsFor
  <2>4. \A i \in ReceiptsFor(d, k) :
          EntryMatchesEvent(d, k, i) => EntryMatchesEvent(e, k, i)
    BY <2>1, <2>3 DEF EntryMatchesEvent
  <2> QED
    BY <2>1, <2>2, <2>4 DEF LedgerMatchesLog
<1> QED
  BY <1>4, <1>5

\* A record that no write touches keeps its history.
LEMMA HistoryUntouched ==
  ASSUME NEW d, NEW e, NEW s \in Ids, HistoryLogged(d, s),
         e.records[s] = d.records[s],
         EventsOf(e, s) = EventsOf(d, s),
         \A i \in EventsOf(d, s) :
           /\ e.events[i] = d.events[i]
           /\ FromExpectedVersion(d, d.events[i]) => FromExpectedVersion(e, d.events[i])
  PROVE  HistoryLogged(e, s)
<1>1. CASE d.records[s] = Nil
  BY <1>1 DEF HistoryLogged
<1>2. CASE d.records[s] # Nil
  <2>1. /\ \A v \in 1..d.records[s].version :
             \E i \in EventsOf(d, s) : d.events[i].after = v
        /\ \A i, j \in EventsOf(d, s) :
             i < j => d.events[i].after < d.events[j].after
    BY <1>2 DEF HistoryLogged
  <2>2. \A i \in EventsOf(d, s) :
          /\ d.events[i].after \in 1..d.records[s].version
          /\ d.events[i].before = d.events[i].after - 1
          /\ FromExpectedVersion(d, d.events[i])
          /\ d.events[i].op = "data.record.delete" <=>
               /\ d.records[s].deleted
               /\ d.events[i].after = d.records[s].version
    BY <1>2 DEF HistoryLogged
  <2>3. /\ \A v \in 1..e.records[s].version :
             \E i \in EventsOf(e, s) : e.events[i].after = v
        /\ \A i, j \in EventsOf(e, s) :
             i < j => e.events[i].after < e.events[j].after
    BY <2>1
  <2>4. \A i \in EventsOf(e, s) :
          /\ e.events[i].after \in 1..e.records[s].version
          /\ e.events[i].before = e.events[i].after - 1
          /\ FromExpectedVersion(e, e.events[i])
          /\ e.events[i].op = "data.record.delete" <=>
               /\ e.records[s].deleted
               /\ e.events[i].after = e.records[s].version
    BY <2>2
  <2> QED
    BY <1>2, <2>3, <2>4 DEF HistoryLogged
<1> QED
  BY <1>1, <1>2

\* A mutation that makes version 1 of a new record, or the next version of an
\* active one from the version its caller expected.
LEMMA WrittenLogSound ==
  ASSUME NEW d \in Images, LogSound(d), NEW r \in Ids, NEW row \in Rows,
         NEW refs, NEW m \in Mutations, NEW actor \in Actors, NEW tx \in Nat,
         Fresh(d, m.key),
         m.expected = row.version - 1,
         m.op = "data.record.delete" <=> row.deleted,
         d.records[r] = Nil => row.version = 1,
         d.records[r] # Nil =>
           /\ ~d.records[r].deleted
           /\ row.version = d.records[r].version + 1
  PROVE  LogSound(Written(d, r, row, refs, m, actor, tx))
<1> DEFINE e == Written(d, r, row, refs, m, actor, tx)
           event == EventOf(r, row, m, actor, tx)
           entry == EntryOf(r, row, m, actor)
           n == Len(d.events)
<1>1. /\ e.records = [d.records EXCEPT ![r] = row]
      /\ e.idem = [d.idem EXCEPT ![m.key] = entry]
      /\ e.events = Append(d.events, event)
  BY DEF Written
<1>2. /\ event.key = m.key /\ event.rec = r /\ event.op = m.op
      /\ event.actor = actor
      /\ event.before = row.version - 1
      /\ event.after = row.version
  BY DEF EventOf
<1>3. /\ entry.op = m.op
      /\ entry.fp.actor = actor
      /\ entry.fp.ops[1].expected = m.expected
      /\ entry.result.snapshots[1].rec = r
      /\ entry.result.snapshots[1].row.version = row.version
  BY DEF EntryOf, AsRequest
<1>4. event \in Events
  BY DEF EventOf, Events, Mutations, Rows
<1>5. entry \in Entries /\ entry # Nil
  BY EntryType, DistinctValues
<1>6. /\ d.records \in [Ids -> Rows \cup {Nil}]
      /\ d.idem \in [Keys -> Entries \cup {Nil}]
      /\ d.events \in Seq(Events)
      /\ m.key \in Keys
      /\ n \in Nat
  BY DEF Images, Mutations
<1> HIDE DEF e, event, entry
<1>7. LedgerMatchesLog(e)
  BY <1>1, <1>2, <1>3, <1>4, <1>5, AppendedLedger DEF LogSound
<1>8. /\ Len(e.events) = n + 1
      /\ e.events[n + 1] = event
      /\ \A i \in 1..n : e.events[i] = d.events[i]
  BY <1>1, <1>6
<1>9. \A i \in 1..n : d.events[i].key # m.key /\ d.events[i].key \in Keys
  <2>1. LedgerMatchesLog(d)
    BY DEF LogSound
  <2>2. \A i \in 1..n : d.events[i] \in Events
    BY <1>6
  <2> QED
    BY <1>6, <2>1, <2>2, FreshKeyUnused DEF Events
<1>10. ASSUME NEW i \in 1..n, FromExpectedVersion(d, d.events[i])
       PROVE  FromExpectedVersion(e, e.events[i])
  <2>1. e.events[i] = d.events[i]
    BY <1>8
  <2>2. e.idem[d.events[i].key] = d.idem[d.events[i].key]
    BY <1>1, <1>6, <1>9
  <2>3. /\ d.idem[d.events[i].key] # Nil
        /\ d.idem[d.events[i].key].fp.ops[1].expected = d.events[i].before
    BY <1>10 DEF FromExpectedVersion
  <2> QED
    BY <2>1, <2>2, <2>3, Zenon DEF FromExpectedVersion
<1>11. FromExpectedVersion(e, event)
  BY <1>1, <1>2, <1>3, <1>5, <1>6 DEF FromExpectedVersion
<1>12. row.version \in Nat \ {0} /\ row # Nil
  BY DistinctValues DEF Rows
<1>13. VersionsLogged(e)
  <2> SUFFICES ASSUME NEW s \in Ids
               PROVE  HistoryLogged(e, s)
    BY DEF VersionsLogged
  <2>0. HistoryLogged(d, s)
    BY DEF LogSound, VersionsLogged
  <2>1. EventsOf(d, s) \subseteq 1..n
    BY DEF EventsOf
  <2>2. CASE s # r
    <3>1. EventsOf(e, s) = EventsOf(d, s)
      BY <1>2, <1>6, <1>8, <2>2 DEF EventsOf
    <3>2. e.records[s] = d.records[s]
      BY <1>1, <1>6, <2>2
    <3>3. \A i \in EventsOf(d, s) :
            /\ e.events[i] = d.events[i]
            /\ FromExpectedVersion(d, d.events[i]) => FromExpectedVersion(e, d.events[i])
      BY <1>8, <1>10, <2>1
    <3> QED
      BY <2>0, <3>1, <3>2, <3>3, HistoryUntouched
  <2>3. CASE s = r
    <3>1. EventsOf(e, r) = EventsOf(d, r) \cup {n + 1}
      BY <1>2, <1>6, <1>8 DEF EventsOf
    <3>2. e.records[r] = row
      BY <1>1, <1>6
    <3>3. CASE d.records[r] = Nil
      <4>1. EventsOf(e, r) = {n + 1} /\ row.version = 1
        BY <2>0, <2>3, <3>1, <3>3 DEF HistoryLogged
      <4> QED
        BY <1>2, <1>8, <1>11, <1>12, <2>3, <3>2, <4>1 DEF HistoryLogged
    <3>4. CASE d.records[r] # Nil
      <4> DEFINE last == d.records[r].version
      <4>1. /\ last \in Nat \ {0}
            /\ row.version = last + 1
            /\ ~d.records[r].deleted
        BY <1>6, <3>4 DEF Rows
      <4>2. /\ \A v \in 1..last : \E i \in EventsOf(d, r) : d.events[i].after = v
            /\ \A i \in EventsOf(d, r) :
                 /\ d.events[i].after \in 1..last
                 /\ d.events[i].before = d.events[i].after - 1
                 /\ FromExpectedVersion(d, d.events[i])
                 /\ d.events[i].op # "data.record.delete"
            /\ \A i, j \in EventsOf(d, r) :
                 i < j => d.events[i].after < d.events[j].after
        BY <2>0, <2>3, <3>4, <4>1 DEF HistoryLogged
      <4> HIDE DEF last
      <4>3. \A v \in 1..(last + 1) : \E i \in EventsOf(e, r) : e.events[i].after = v
        <5> SUFFICES ASSUME NEW v \in 1..(last + 1)
                     PROVE  \E i \in EventsOf(e, r) : e.events[i].after = v
          OBVIOUS
        <5>1. CASE v = last + 1
          BY <1>2, <1>8, <3>1, <4>1, <5>1
        <5>2. CASE v # last + 1
          <6>1. PICK i \in EventsOf(d, r) : d.events[i].after = v
            BY <4>1, <4>2, <5>2
          <6> QED
            BY <1>8, <2>1, <2>3, <3>1, <6>1
        <5> QED
          BY <5>1, <5>2
      <4>4. \A i \in EventsOf(e, r) :
              /\ e.events[i].after \in 1..(last + 1)
              /\ e.events[i].before = e.events[i].after - 1
              /\ FromExpectedVersion(e, e.events[i])
              /\ e.events[i].op = "data.record.delete" <=>
                   row.deleted /\ e.events[i].after = last + 1
        <5> SUFFICES ASSUME NEW i \in EventsOf(e, r)
              PROVE  /\ e.events[i].after \in 1..(last + 1)
                     /\ e.events[i].before = e.events[i].after - 1
                     /\ FromExpectedVersion(e, e.events[i])
                     /\ e.events[i].op = "data.record.delete" <=>
                          row.deleted /\ e.events[i].after = last + 1
          OBVIOUS
        <5>1. CASE i = n + 1
          BY <1>2, <1>8, <1>11, <4>1, <5>1
        <5>2. CASE i # n + 1
          <6>1. i \in EventsOf(d, r) /\ i \in 1..n /\ e.events[i] = d.events[i]
            BY <1>8, <2>1, <2>3, <3>1, <5>2
          <6> QED
            BY <1>10, <4>1, <4>2, <6>1
        <5> QED
          BY <5>1, <5>2
      <4>5. \A i, j \in EventsOf(e, r) :
              i < j => e.events[i].after < e.events[j].after
        <5> SUFFICES ASSUME NEW i \in EventsOf(e, r), NEW j \in EventsOf(e, r), i < j
                     PROVE  e.events[i].after < e.events[j].after
          OBVIOUS
        <5>1. i \in EventsOf(d, r) /\ i \in 1..n /\ e.events[i] = d.events[i]
          BY <1>6, <1>8, <2>1, <2>3, <3>1
        <5>2. CASE j = n + 1
          BY <1>2, <1>8, <4>1, <4>2, <5>1, <5>2, SMTT(60)
        <5>3. CASE j # n + 1
          BY <1>8, <2>1, <2>3, <3>1, <4>2, <5>1, <5>3
        <5> QED
          BY <5>2, <5>3
      <4> QED
        BY <1>12, <2>3, <3>2, <4>1, <4>3, <4>4, <4>5 DEF HistoryLogged
    <3> QED
      BY <3>3, <3>4
  <2> QED
    BY <2>2, <2>3
<1> QED
  BY <1>7, <1>13 DEF LogSound, e

LEMMA MutatedLogSound ==
  ASSUME NEW d \in Images, LogSound(d), NEW m \in Mutations, NEW r \in Ids,
         NEW actor \in Actors, NEW tx \in Nat, MayMutate(d, m, r),
         m.op = "data.record.create" => m.expected = 0
  PROVE  LogSound(Mutated(d, m, r, actor, tx))
<1>0. Fresh(d, m.key) /\ d.records \in [Ids -> Rows \cup {Nil}]
  BY DEF MayMutate, Images
<1>1. CASE MayCreate(d, m, r)
  <2> DEFINE row == CreatedRow(d, m, actor)
  <2>1. /\ Mutated(d, m, r, actor, tx) = Created(d, m, r, actor, tx)
        /\ m.expected = 0
    BY <1>1 DEF Mutated, MayCreate
  <2>2. row \in Rows
    BY CreatedRowType
  <2>3. /\ row.version = 1 /\ ~row.deleted
        /\ m.op # "data.record.delete"
        /\ d.records[r] = Nil
    BY <1>1 DEF CreatedRow, MayCreate
  <2> HIDE DEF row
  <2>4. LogSound(Written(d, r, row, RefsOf(CurrentSchema(d), row.data), m, actor, tx))
    BY <1>0, <2>1, <2>2, <2>3, WrittenLogSound
  <2> QED
    BY <2>1, <2>4 DEF Created, row
<1>2. CASE r = m.rec /\ MayUpdate(d, m)
  <2> DEFINE row == UpdatedRow(d, m, actor)
  <2>1. Mutated(d, m, r, actor, tx) = Updated(d, m, actor, tx)
    BY <1>2 DEF Mutated, MayUpdate
  <2>2. row \in Rows
    BY <1>2, UpdatedRowType
  <2>3. /\ row.version = d.records[r].version + 1
        /\ ~row.deleted
        /\ m.op # "data.record.delete"
        /\ d.records[r] # Nil /\ ~d.records[r].deleted
        /\ m.expected = d.records[r].version
    BY <1>2 DEF UpdatedRow, MayUpdate, Active, VersionMatches
  <2>4. m.expected = row.version - 1
    BY <1>0, <2>3 DEF Rows
  <2> HIDE DEF row
  <2>5. LogSound(Written(d, r, row, RefsOf(CurrentSchema(d), row.data), m, actor, tx))
    BY <1>0, <2>2, <2>3, <2>4, WrittenLogSound
  <2> QED
    BY <1>2, <2>1, <2>5 DEF Updated, row
<1>3. CASE r = m.rec /\ MayDelete(d, m)
  <2> DEFINE row == DeletedRow(d, m, actor)
  <2>1. Mutated(d, m, r, actor, tx) = Deleted(d, m, actor, tx)
    BY <1>3 DEF Mutated, MayDelete
  <2>2. row \in Rows
    BY <1>3 DEF DeletedRow, Rows, MayDelete, Active, Images
  <2>3. /\ row.version = d.records[r].version + 1
        /\ row.deleted
        /\ m.op = "data.record.delete"
        /\ d.records[r] # Nil /\ ~d.records[r].deleted
        /\ m.expected = d.records[r].version
    BY <1>3 DEF DeletedRow, MayDelete, Active, VersionMatches
  <2>4. m.expected = row.version - 1
    BY <1>0, <2>3 DEF Rows
  <2> HIDE DEF row
  <2>5. LogSound(Written(d, r, row, NoRefs, m, actor, tx))
    BY <1>0, <2>2, <2>3, <2>4, WrittenLogSound
  <2> QED
    BY <1>3, <2>1, <2>5 DEF Deleted, row
<1> QED
  BY <1>1, <1>2, <1>3 DEF MayMutate

\* The first image has neither records nor events.
LEMMA EmptyLogSound ==
  ASSUME NEW schema
  PROVE  LogSound(EmptyImage(schema))
<1> DEFINE d == EmptyImage(schema)
<1>1. /\ \A r \in Ids : d.records[r] = Nil
      /\ \A k \in Keys : d.idem[k] = Nil
      /\ Len(d.events) = 0
  BY DEF EmptyImage
<1> HIDE DEF d
<1>2. LogSound(d)
  BY <1>1 DEF LogSound, VersionsLogged, HistoryLogged, LedgerMatchesLog, EventsOf,
              ReceiptsFor
<1> QED
  BY <1>2 DEF d

\* A closing event is of no record.
LEMMA ClosedLogSound ==
  ASSUME NEW d \in Images, LogSound(d), NEW req \in Requests, NEW tx \in Nat,
         NEW children \in Seq(Nat), NEW snapshots \in Seq(Snapshots),
         Fresh(d, req.key)
  PROVE  LogSound(Closed(d, req, tx, children, snapshots))
<1> DEFINE e == Closed(d, req, tx, children, snapshots)
           event == ClosingEvent(req, tx, children)
           entry == ClosingEntry(req, snapshots, SchemaVersion(d))
           n == Len(d.events)
<1>1. /\ e.records = d.records
      /\ e.idem = [d.idem EXCEPT ![req.key] = entry]
      /\ e.events = Append(d.events, event)
  BY DEF Closed
<1>2. /\ event.key = req.key /\ event.rec = Nil
      /\ event.actor = req.actor /\ entry.fp.actor = req.actor
      /\ entry.op = event.op
  BY DEF ClosingEvent, ClosingEntry
<1>3. event \in Events /\ req.key \in Keys
  BY DEF ClosingEvent, Events, Requests
<1>4. entry \in Entries
  BY CurrentSchemaType DEF ClosingEntry, Entries, Results
<1>5. /\ d.idem \in [Keys -> Entries \cup {Nil}]
      /\ d.events \in Seq(Events)
      /\ n \in Nat
      /\ LedgerMatchesLog(d)
  BY DEF Images, LogSound
<1> HIDE DEF e, event, entry
<1>6. LedgerMatchesLog(e)
  BY <1>1, <1>2, <1>3, <1>4, <1>5, AppendedLedger
<1>7. /\ Len(e.events) = n + 1
      /\ e.events[n + 1] = event
      /\ \A i \in 1..n : e.events[i] = d.events[i]
  BY <1>1, <1>5
<1>8. \A i \in 1..n : d.events[i].key # req.key
  BY <1>3, <1>5, FreshKeyUnused
<1>9. \A i \in 1..n : FromExpectedVersion(d, d.events[i]) =>
                        FromExpectedVersion(e, d.events[i])
  <2>1. \A i \in 1..n : d.events[i] \in Events
    BY <1>5
  <2>2. \A i \in 1..n : e.idem[d.events[i].key] = d.idem[d.events[i].key]
    BY <1>1, <1>5, <1>8, <2>1 DEF Events
  <2> QED
    BY <2>2 DEF FromExpectedVersion
<1>10. ASSUME NEW s \in Ids
       PROVE  /\ EventsOf(e, s) = EventsOf(d, s)
              /\ EventsOf(d, s) \subseteq 1..n
  BY <1>2, <1>5, <1>7, DistinctValues, SMTT(60) DEF EventsOf
<1>11. ASSUME NEW s \in Ids
       PROVE  HistoryLogged(e, s)
  <2>1. \A i \in EventsOf(d, s) :
          /\ e.events[i] = d.events[i]
          /\ FromExpectedVersion(d, d.events[i]) => FromExpectedVersion(e, d.events[i])
    BY <1>7, <1>9, <1>10
  <2>2. /\ EventsOf(e, s) = EventsOf(d, s)
        /\ e.records[s] = d.records[s]
        /\ HistoryLogged(d, s)
    BY <1>1, <1>10 DEF LogSound, VersionsLogged
  <2> QED
    BY <2>1, <2>2, HistoryUntouched
<1> QED
  BY <1>6, <1>11 DEF LogSound, VersionsLogged, e

\* A schema version writes neither records nor events.
LEMMA EvolvedLogSound ==
  ASSUME NEW d, LogSound(d), NEW schema
  PROVE  LogSound(Evolved(d, schema))
<1> DEFINE e == Evolved(d, schema)
<1>1. e.records = d.records /\ e.idem = d.idem /\ e.events = d.events
  BY DEF Evolved
<1> HIDE DEF e
<1>2. \A r \in Ids : HistoryLogged(e, r)
  <2> SUFFICES ASSUME NEW r \in Ids PROVE HistoryLogged(e, r)
    OBVIOUS
  <2>1. EventsOf(e, r) = EventsOf(d, r) /\ e.records[r] = d.records[r]
    BY <1>1 DEF EventsOf
  <2>2. \A i \in EventsOf(d, r) :
          /\ e.events[i] = d.events[i]
          /\ FromExpectedVersion(d, d.events[i]) => FromExpectedVersion(e, d.events[i])
    BY <1>1 DEF FromExpectedVersion
  <2>3. HistoryLogged(d, r)
    BY DEF LogSound, VersionsLogged
  <2> QED
    BY <2>1, <2>2, <2>3, HistoryUntouched
<1>3. LedgerMatchesLog(e)
  BY <1>1 DEF LogSound, LedgerMatchesLog, ReceiptsFor, EntryMatchesEvent
<1> QED
  BY <1>2, <1>3 DEF LogSound, VersionsLogged, e

LEMMA EnsuredLogSound ==
  ASSUME NEW d \in Images, Sound(d), LogSound(d), NEW req \in Requests,
         NEW tx \in Nat, Fresh(d, req.key)
  PROVE  LogSound(Ensured(d, req, tx))
<1> DEFINE missing == Missing(CurrentSchema(d), req.adds)
           evolved == IF missing = NoAdds THEN d
                      ELSE Evolved(d, WithFields(CurrentSchema(d), missing))
<1>1. WithFields(CurrentSchema(d), missing) \in Schemas
  BY CurrentSchemaType, MissingType, WithFieldsType DEF Requests
<1>2. evolved \in Images /\ LogSound(evolved)
  BY <1>1, EvolvedSound, EvolvedLogSound
<1>3. Fresh(evolved, req.key)
  BY DEF Evolved, Fresh
<1>4. Ensured(d, req, tx) = Closed(evolved, req, tx, <<>>, <<>>)
  BY DEF Ensured
<1>5. <<>> \in Seq(Nat) /\ <<>> \in Seq(Snapshots)
  OBVIOUS
<1> HIDE DEF evolved
<1> QED
  BY <1>2, <1>3, <1>4, <1>5, ClosedLogSound

(***************************************************************************)
(* Blocks of the log.                                                      *)
(***************************************************************************)
\* Whole blocks stay whole when the log grows, and what is added after them is
\* judged by itself.
LEMMA BlocksExtended ==
  ASSUME NEW d \in Images, NEW e \in Images, BlocksWhole(d),
         Len(d.events) <= Len(e.events),
         \A i \in 1..Len(d.events) : e.events[i] = d.events[i],
         \A i \in (Len(d.events) + 1)..Len(e.events) : e.events[i].tx # 0 =>
           \E j \in i..Len(e.events) :
             e.events[i].tx <= i /\ ClosesBlock(e, e.events[i].tx, j)
  PROVE  BlocksWhole(e)
<1>1. Len(d.events) \in Nat /\ Len(e.events) \in Nat
  BY DEF Images
<1> SUFFICES ASSUME NEW i \in 1..Len(e.events), e.events[i].tx # 0
             PROVE  \E j \in i..Len(e.events) :
                      e.events[i].tx <= i /\ ClosesBlock(e, e.events[i].tx, j)
  BY DEF BlocksWhole
<1>2. CASE i > Len(d.events)
  BY <1>1, <1>2
<1>3. CASE i <= Len(d.events)
  <2> DEFINE t == e.events[i].tx
  <2>1. i \in 1..Len(d.events) /\ t = d.events[i].tx
    BY <1>1, <1>3
  <2>2. d.events[i] \in Events
    BY <2>1 DEF Images
  <2>3. t \in Nat \ {0}
    BY <2>1, <2>2 DEF Events
  <2>4. PICK j \in i..Len(d.events) : t <= i /\ ClosesBlock(d, t, j)
    BY <2>1 DEF BlocksWhole
  <2> HIDE DEF t
  <2>5. /\ j \in 1..Len(d.events) /\ j \in i..Len(e.events)
        /\ \A n \in t..j : e.events[n] = d.events[n]
    BY <1>1, <2>1, <2>3, <2>4
  <2>6. \A n \in t..(j - 1) : n \in t..j
    BY <2>3, <2>5
  <2>7. ClosesBlock(e, t, j)
    BY <2>4, <2>5, <2>6 DEF ClosesBlock
  <2> QED
    BY <2>4, <2>5, <2>7 DEF t
<1> QED
  BY <1>1, <1>2, <1>3

(***************************************************************************)
(* Schemas grow.                                                           *)
(***************************************************************************)
\* Every field of the one schema is in the other as it was.
KeepsFields(old, new) == \A f \in Fields : old[f] # Undeclared => new[f] = old[f]

LEMMA WithFieldsKeeps ==
  ASSUME NEW schema, NEW adds, MayAddFields(schema, adds)
  PROVE  KeepsFields(schema, WithFields(schema, adds))
  BY DEF MayAddFields, MayAddField, KeepsFields, WithFields

LEMMA EvolvedAdditive ==
  ASSUME NEW d \in Images, AdditiveSchemas(d), NEW schema \in Schemas,
         KeepsFields(CurrentSchema(d), schema)
  PROVE  AdditiveSchemas(Evolved(d, schema))
<1> DEFINE e == Evolved(d, schema)
           n == SchemaVersion(d)
<1>1. /\ d.schemas \in Seq(Schemas)
      /\ n \in Nat \ {0} /\ n = Len(d.schemas)
  BY CurrentSchemaType DEF Images, SchemaVersion
<1>2. e.schemas = Append(d.schemas, schema)
  BY DEF Evolved
<1>3. /\ SchemaVersion(e) = n + 1
      /\ e.schemas[n + 1] = schema
      /\ \A i \in 1..n : e.schemas[i] = d.schemas[i]
  BY <1>1, <1>2 DEF SchemaVersion
<1> HIDE DEF e, n
<1> SUFFICES ASSUME NEW i \in 1..(n + 1), NEW j \in 1..(n + 1), NEW f \in Fields,
                    i < j, e.schemas[i][f] # Undeclared
             PROVE  e.schemas[j][f] = e.schemas[i][f]
  BY <1>3 DEF AdditiveSchemas, e
<1>4. i \in 1..n /\ d.schemas[i][f] # Undeclared
  BY <1>1, <1>3
<1>5. \A k \in 1..n : i < k => d.schemas[k][f] = d.schemas[i][f]
  BY <1>4 DEF AdditiveSchemas, n
<1>6. CASE j = n + 1
  <2>1. d.schemas[n][f] = d.schemas[i][f]
    BY <1>1, <1>4, <1>5
  <2> QED
    BY <1>3, <1>4, <1>6, <2>1 DEF KeepsFields, CurrentSchema, n
<1>7. CASE j # n + 1
  BY <1>1, <1>3, <1>4, <1>5, <1>7, SMTT(60)
<1> QED
  BY <1>6, <1>7

\* What a write of a record or a closing event does to the schemas: nothing.
LEMMA MutatedSchemas ==
  ASSUME NEW d, NEW m, NEW r, NEW actor, NEW tx, MayMutate(d, m, r)
  PROVE  Mutated(d, m, r, actor, tx).schemas = d.schemas
<1>1. m.op \in MutationOps
  BY DEF MayMutate, MayCreate, MayUpdate, MayDelete, MutationOps
<1> QED
  BY <1>1 DEF Mutated, Created, Updated, Deleted, Written, MutationOps

LEMMA EnsuredAdditive ==
  ASSUME NEW d \in Images, AdditiveSchemas(d), NEW req \in Requests, NEW tx,
         MayEnsure(d, req)
  PROVE  AdditiveSchemas(Ensured(d, req, tx))
<1> DEFINE missing == Missing(CurrentSchema(d), req.adds)
           evolved == IF missing = NoAdds THEN d
                      ELSE Evolved(d, WithFields(CurrentSchema(d), missing))
<1>1. WithFields(CurrentSchema(d), missing) \in Schemas
  BY CurrentSchemaType, MissingType, WithFieldsType DEF Requests
<1>2. KeepsFields(CurrentSchema(d), WithFields(CurrentSchema(d), missing))
  BY WithFieldsKeeps DEF MayEnsure
<1>3. AdditiveSchemas(evolved)
  BY <1>1, <1>2, EvolvedAdditive
<1>4. Ensured(d, req, tx).schemas = evolved.schemas
  BY DEF Ensured, Closed
<1> HIDE DEF evolved
<1> QED
  BY <1>3, <1>4 DEF AdditiveSchemas, SchemaVersion

(***************************************************************************)
(* What a mutation leaves in the log and in the ledger.                    *)
(***************************************************************************)
LEMMA MutatedWrites ==
  ASSUME NEW d, NEW m, NEW r, NEW actor, NEW tx, MayMutate(d, m, r)
  PROVE  \E row, refs :
           Mutated(d, m, r, actor, tx) = Written(d, r, row, refs, m, actor, tx)
<1>1. CASE MayCreate(d, m, r)
  BY <1>1 DEF MayCreate, Mutated, Created
<1>2. CASE r = m.rec /\ MayUpdate(d, m)
  BY <1>2 DEF MayUpdate, Mutated, Updated
<1>3. CASE r = m.rec /\ MayDelete(d, m)
  BY <1>3 DEF MayDelete, Mutated, Deleted
<1> QED
  BY <1>1, <1>2, <1>3 DEF MayMutate

LEMMA MutatedLeaves ==
  ASSUME NEW d \in Images, NEW m \in Mutations, NEW r, NEW actor, NEW tx,
         MayMutate(d, m, r)
  PROVE  LET e == Mutated(d, m, r, actor, tx)
         IN  /\ Len(e.events) = Len(d.events) + 1
             /\ e.events[Len(d.events) + 1].tx = tx
             /\ e.events[Len(d.events) + 1].op = m.op
             /\ e.idem[m.key].fp = AsRequest(m, actor)
<1> DEFINE e == Mutated(d, m, r, actor, tx)
<1>1. PICK row, refs : e = Written(d, r, row, refs, m, actor, tx)
  BY MutatedWrites
<1>2. /\ e.events = Append(d.events, EventOf(r, row, m, actor, tx))
      /\ e.idem = [d.idem EXCEPT ![m.key] = EntryOf(r, row, m, actor)]
  BY <1>1 DEF Written
<1>3. /\ d.events \in Seq(Events)
      /\ d.idem \in [Keys -> Entries \cup {Nil}]
      /\ m.key \in Keys
  BY DEF Images, Mutations
<1>4. /\ EventOf(r, row, m, actor, tx).tx = tx
      /\ EventOf(r, row, m, actor, tx).op = m.op
      /\ EntryOf(r, row, m, actor).fp = AsRequest(m, actor)
  BY DEF EventOf, EntryOf
<1> HIDE DEF e
<1>5. /\ Len(e.events) = Len(d.events) + 1
      /\ e.events[Len(d.events) + 1] = EventOf(r, row, m, actor, tx)
      /\ e.idem[m.key] = EntryOf(r, row, m, actor)
  BY <1>2, <1>3
<1> QED
  BY <1>4, <1>5 DEF e

\* While no name is bound, a mutation that resolves is its own resolution.
LEMMA ResolvedPlain ==
  ASSUME NEW d, NEW m \in Mutations,
         Resolvable(d, m, [c \in Markers |-> Nil])
  PROVE  Resolved(d, m, [c \in Markers |-> Nil]) = m
<1> DEFINE refs == [c \in Markers |-> Nil]
           data == [f \in Fields |-> IF IsMarked(CurrentSchema(d), m, f)
                                       THEN refs[m.data[f]] ELSE m.data[f]]
<1>1. \A f \in Fields : ~IsMarked(CurrentSchema(d), m, f)
  BY DEF Resolvable, IsMarked
<1>2. m.data \in [Fields -> Values \cup {Absent}]
  BY DEF Mutations, Data
<1>3. data = m.data
  BY <1>1, <1>2
<1> HIDE DEF data
<1>4. [m EXCEPT !.data = data] = m
  BY <1>3 DEF Mutations
<1> QED
  BY <1>4 DEF Resolved, data

\* Consecutive positions, and one more.
LEMMA AppendedRun ==
  ASSUME NEW begun \in Nat, NEW done \in Nat
  PROVE  Append([k \in 1..done |-> begun + k], begun + done + 1)
           = [k \in 1..(done + 1) |-> begun + k]
<1> DEFINE s == [k \in 1..done |-> begun + k]
           x == begun + done + 1
           t == [k \in 1..(done + 1) |-> begun + k]
<1>1. s \in Seq(Nat) /\ Len(s) = done /\ x \in Nat
  OBVIOUS
<1>2. \A k \in 1..done : s[k] = begun + k
  OBVIOUS
<1>3. t \in Seq(Nat) /\ Len(t) = done + 1 /\ \A k \in 1..(done + 1) : t[k] = begun + k
  OBVIOUS
<1> HIDE DEF s, t
<1>4. /\ Append(s, x) \in Seq(Nat)
      /\ Len(Append(s, x)) = done + 1
      /\ \A k \in 1..done : Append(s, x)[k] = s[k]
      /\ Append(s, x)[done + 1] = x
  BY <1>1
<1>5. \A k \in 1..(done + 1) : Append(s, x)[k] = t[k]
  BY <1>2, <1>3, <1>4, SMTT(60)
<1>6. Append(s, x) = t
  BY <1>3, <1>4, <1>5, SMTT(60)
<1> QED
  BY <1>6 DEF s, t

\* The closing event, and the entry of the request it closes.
LEMMA ClosedLeaves ==
  ASSUME NEW d \in Images, NEW req \in Requests, NEW tx, NEW children,
         NEW snapshots
  PROVE  LET e == Closed(d, req, tx, children, snapshots)
         IN  /\ Len(e.events) = Len(d.events) + 1
             /\ e.events[Len(d.events) + 1] = ClosingEvent(req, tx, children)
             /\ \A i \in 1..Len(d.events) : e.events[i] = d.events[i]
             /\ e.idem[req.key].fp = req
<1> DEFINE e == Closed(d, req, tx, children, snapshots)
<1>1. /\ e.events = Append(d.events, ClosingEvent(req, tx, children))
      /\ e.idem = [d.idem EXCEPT
                    ![req.key] = ClosingEntry(req, snapshots, SchemaVersion(d))]
  BY DEF Closed
<1>2. /\ d.events \in Seq(Events)
      /\ d.idem \in [Keys -> Entries \cup {Nil}]
      /\ req.key \in Keys
  BY DEF Images, Requests
<1>3. ClosingEntry(req, snapshots, SchemaVersion(d)).fp = req
  BY DEF ClosingEntry
<1> HIDE DEF e
<1>4. e.idem[req.key].fp = req
  BY <1>1, <1>2, <1>3
<1>5. /\ Len(e.events) = Len(d.events) + 1
      /\ e.events[Len(d.events) + 1] = ClosingEvent(req, tx, children)
      /\ \A i \in 1..Len(d.events) : e.events[i] = d.events[i]
  BY <1>1, <1>2
<1> QED
  BY <1>4, <1>5 DEF e

LEMMA EnsuredLeaves ==
  ASSUME NEW d \in Images, NEW req \in Requests, NEW tx
  PROVE  LET e == Ensured(d, req, tx)
         IN  /\ Len(e.events) = Len(d.events) + 1
             /\ e.events[Len(d.events) + 1] = ClosingEvent(req, tx, <<>>)
             /\ \A i \in 1..Len(d.events) : e.events[i] = d.events[i]
             /\ e.idem[req.key].fp = req
<1> DEFINE schema == WithFields(CurrentSchema(d), Missing(CurrentSchema(d), req.adds))
<1>1. schema \in Schemas
  BY CurrentSchemaType, MissingType, WithFieldsType DEF Requests
<1> HIDE DEF schema
<1>2. PICK evolved \in {d, Evolved(d, schema)} :
        Ensured(d, req, tx) = Closed(evolved, req, tx, <<>>, <<>>)
  BY DEF Ensured, schema
<1>3. /\ evolved.events = d.events
      /\ evolved \in Images
  <2>1. Evolved(d, schema).events = d.events
    BY DEF Evolved
  <2>2. Append(d.schemas, schema) \in Seq(Schemas) \ {<<>>}
    BY <1>1 DEF Images
  <2>3. Evolved(d, schema) \in Images
    BY <2>2 DEF Evolved, Images
  <2> QED
    BY <2>1, <2>3
<1> QED
  BY <1>2, <1>3, ClosedLeaves

(***************************************************************************)
(* Exports.  What every image in order satisfies of itself, the committed  *)
(* references and the shape of the events have to be kept.                 *)
(***************************************************************************)
Exportable(d) ==
  /\ \A i \in 1..Len(d.events) : EventReadsBack(d.events[i])
  /\ CommittedRecordsExist(d)

LEMMA EmptyExportable ==
  ASSUME NEW schema
  PROVE  Exportable(EmptyImage(schema))
  BY DEF Exportable, EmptyImage, CommittedRecordsExist

\* One more event, one more entry, and no stored record fewer.
LEMMA ExportableGrows ==
  ASSUME NEW d \in Images, Exportable(d), NEW event, NEW entry, NEW key \in Keys,
         NEW e, Stored(d) \subseteq Stored(e),
         e.events = Append(d.events, event),
         e.idem = [d.idem EXCEPT ![key] = entry],
         EventReadsBack(event),
         event.rec # Nil => event.rec \in Stored(e),
         \A n \in 1..Len(entry.result.snapshots) :
           entry.result.snapshots[n].rec \in Stored(e)
  PROVE  Exportable(e)
<1> DEFINE n == Len(d.events)
<1>1. d.events \in Seq(Events) /\ n \in Nat /\ d.idem \in [Keys -> Entries \cup {Nil}]
  BY DEF Images
<1>2. /\ Len(e.events) = n + 1
      /\ e.events[n + 1] = event
      /\ \A i \in 1..n : e.events[i] = d.events[i]
  BY <1>1
<1>3. \A i \in 1..Len(e.events) : i = n + 1 \/ i \in 1..n
  BY <1>1, <1>2
<1>4. ASSUME NEW i \in 1..Len(e.events)
      PROVE  /\ EventReadsBack(e.events[i])
             /\ e.events[i].rec # Nil => e.events[i].rec \in Stored(e)
  BY <1>2, <1>3 DEF Exportable, CommittedRecordsExist
<1>5. ASSUME NEW k \in Keys, e.idem[k] # Nil,
             NEW j \in 1..Len(e.idem[k].result.snapshots)
      PROVE  e.idem[k].result.snapshots[j].rec \in Stored(e)
  <2>1. CASE k = key
    BY <1>1, <1>5, <2>1
  <2>2. CASE k # key
    <3>1. e.idem[k] = d.idem[k]
      BY <1>1, <2>2
    <3> QED
      BY <1>5, <3>1 DEF Exportable, CommittedRecordsExist
  <2> QED
    BY <2>1, <2>2
<1> QED
  BY <1>4, <1>5 DEF Exportable, CommittedRecordsExist

\* The row a mutation writes.
LEMMA MutatedRow ==
  ASSUME NEW d \in Images, NEW m \in Mutations, NEW r \in Ids,
         NEW actor \in Actors, NEW tx, MayMutate(d, m, r)
  PROVE  \E row \in Rows : \E refs :
           /\ Mutated(d, m, r, actor, tx) = Written(d, r, row, refs, m, actor, tx)
           /\ m.op = "data.record.create" => row.version = 1
           /\ m.op # "data.record.create" => row.version > 1
<1>1. CASE MayCreate(d, m, r)
  <2>1. CreatedRow(d, m, actor) \in Rows /\ CreatedRow(d, m, actor).version = 1
    BY CreatedRowType DEF CreatedRow
  <2>2. m.op = "data.record.create"
    BY <1>1 DEF MayCreate
  <2> QED
    BY <2>1, <2>2 DEF Mutated, Created
<1>2. CASE r = m.rec /\ MayUpdate(d, m)
  <2>1. d.records[r].version \in Nat \ {0}
    BY <1>2 DEF MayUpdate, Active, Images, Rows
  <2>2. UpdatedRow(d, m, actor) \in Rows /\ UpdatedRow(d, m, actor).version > 1
    BY <1>2, <2>1, UpdatedRowType DEF UpdatedRow
  <2>3. m.op = "data.record.update"
    BY <1>2 DEF MayUpdate
  <2>4. Mutated(d, m, r, actor, tx) =
          Written(d, r, UpdatedRow(d, m, actor),
                  RefsOf(CurrentSchema(d), UpdatedRow(d, m, actor).data), m, actor, tx)
    BY <1>2, <2>3 DEF Mutated, Updated
  <2> QED
    BY <2>2, <2>3, <2>4
<1>3. CASE r = m.rec /\ MayDelete(d, m)
  <2>1. d.records[r] \in Rows
    BY <1>3 DEF MayDelete, Active, Images
  <2>2. DeletedRow(d, m, actor) \in Rows /\ DeletedRow(d, m, actor).version > 1
    BY <1>3, <2>1 DEF DeletedRow, Rows
  <2>3. m.op = "data.record.delete"
    BY <1>3 DEF MayDelete
  <2>4. Mutated(d, m, r, actor, tx) =
          Written(d, r, DeletedRow(d, m, actor), NoRefs, m, actor, tx)
    BY <1>3, <2>3 DEF Mutated, Deleted
  <2> QED
    BY <2>2, <2>3, <2>4
<1> QED
  BY <1>1, <1>2, <1>3 DEF MayMutate

LEMMA MutatedExportable ==
  ASSUME NEW d \in Images, Exportable(d), NEW m \in Mutations, NEW r \in Ids,
         NEW actor \in Actors, NEW tx, MayMutate(d, m, r)
  PROVE  LET e == Mutated(d, m, r, actor, tx)
         IN  /\ Exportable(e)
             /\ Stored(d) \subseteq Stored(e)
             /\ r \in Stored(e)
<1> DEFINE e == Mutated(d, m, r, actor, tx)
<1>0. PICK row \in Rows : \E refs :
        /\ e = Written(d, r, row, refs, m, actor, tx)
        /\ m.op = "data.record.create" => row.version = 1
        /\ m.op # "data.record.create" => row.version > 1
  BY MutatedRow
<1>1. PICK refs :
        /\ e = Written(d, r, row, refs, m, actor, tx)
        /\ m.op = "data.record.create" => row.version = 1
        /\ m.op # "data.record.create" => row.version > 1
  BY <1>0
<1> DEFINE event == EventOf(r, row, m, actor, tx)
           entry == EntryOf(r, row, m, actor)
<1>2. /\ e.records = [d.records EXCEPT ![r] = row]
      /\ e.events = Append(d.events, event)
      /\ e.idem = [d.idem EXCEPT ![m.key] = entry]
  BY <1>1 DEF Written
<1>3. /\ d.records \in [Ids -> Rows \cup {Nil}]
      /\ m.key \in Keys /\ m.op \in MutationOps
      /\ row # Nil /\ row.version \in Nat
      /\ r # Nil
  BY <1>1, DistinctValues DEF Images, Mutations, Rows
<1> HIDE DEF e
<1>4. Stored(d) \subseteq Stored(e) /\ r \in Stored(e)
  BY <1>2, <1>3 DEF Stored
<1>5. EventReadsBack(event)
  BY <1>1, <1>3 DEF EventReadsBack, EventOf, MutationOps
<1>6. event.rec = r
  BY DEF EventOf
<1>7. \A n \in 1..Len(entry.result.snapshots) :
        entry.result.snapshots[n].rec \in Stored(e)
  BY <1>4 DEF EntryOf
<1> HIDE DEF event, entry
<1>8. Exportable(e)
  BY <1>2, <1>3, <1>4, <1>5, <1>6, <1>7, ExportableGrows
<1> QED
  BY <1>4, <1>8 DEF e

LEMMA ClosedExportable ==
  ASSUME NEW d \in Images, Exportable(d), NEW req \in Requests, NEW tx, tx # 0,
         NEW children, NEW snapshots,
         \A n \in 1..Len(snapshots) : snapshots[n].rec \in Stored(d)
  PROVE  Exportable(Closed(d, req, tx, children, snapshots))
<1> DEFINE e == Closed(d, req, tx, children, snapshots)
           event == ClosingEvent(req, tx, children)
           entry == ClosingEntry(req, snapshots, SchemaVersion(d))
<1>1. /\ e.records = d.records
      /\ e.events = Append(d.events, event)
      /\ e.idem = [d.idem EXCEPT ![req.key] = entry]
  BY DEF Closed
<1>2. EventReadsBack(event) /\ event.rec = Nil
  BY DEF ClosingEvent, EventReadsBack
<1>3. entry.result.snapshots = snapshots
  BY DEF ClosingEntry
<1>4. req.key \in Keys
  BY DEF Requests
<1> HIDE DEF e, event, entry
<1>5. Stored(e) = Stored(d)
  BY <1>1 DEF Stored
<1>6. Exportable(e)
  BY <1>1, <1>2, <1>3, <1>4, <1>5, ExportableGrows
<1> QED
  BY <1>6 DEF e

LEMMA EvolvedExportable ==
  ASSUME NEW d, Exportable(d), NEW schema
  PROVE  Exportable(Evolved(d, schema))
  BY DEF Exportable, Evolved, CommittedRecordsExist, Stored

LEMMA EnsuredExportable ==
  ASSUME NEW d \in Images, Exportable(d), NEW req \in Requests, NEW tx, tx # 0
  PROVE  Exportable(Ensured(d, req, tx))
<1> DEFINE missing == Missing(CurrentSchema(d), req.adds)
           evolved == IF missing = NoAdds THEN d
                      ELSE Evolved(d, WithFields(CurrentSchema(d), missing))
<1>1. WithFields(CurrentSchema(d), missing) \in Schemas
  BY CurrentSchemaType, MissingType, WithFieldsType DEF Requests
<1> HIDE DEF missing
<1>2. Evolved(d, WithFields(CurrentSchema(d), missing)) \in Images
  <2>1. Append(d.schemas, WithFields(CurrentSchema(d), missing)) \in Seq(Schemas) \ {<<>>}
    BY <1>1 DEF Images
  <2> QED
    BY <2>1 DEF Evolved, Images
<1>3. evolved \in Images /\ Exportable(evolved)
  BY <1>2, EvolvedExportable
<1>4. Ensured(d, req, tx) = Closed(evolved, req, tx, <<>>, <<>>)
  BY DEF Ensured, missing
<1> HIDE DEF evolved
<1> QED
  BY <1>3, <1>4, ClosedExportable

\* An image in order passes every check of an export.
LEMMA ImageCollectable ==
  ASSUME NEW d \in Images, Sound(d), LedgerMatchesLog(d), Exportable(d)
  PROVE  Collectable(d)
<1>1. ASSUME NEW r \in Stored(d)
      PROVE  RecordReadsBack(d, r) /\ SourceRelationsMatch(d, r)
  <2>1. r \in Ids /\ d.records[r] # Nil
    BY DEF Stored
  <2>2. RecordReadsBack(d, r)
    BY <2>1 DEF RecordReadsBack, Sound, Hydrates
  <2>3. d.relations[r] = IF Active(d, r)
                           THEN RefsOf(d.schemas[d.records[r].schemaVersion],
                                       d.records[r].data)
                           ELSE NoRefs
    BY <2>1 DEF Sound, RelationsExact
  <2>4. \A f \in Fields : d.relations[r][f] # Nil => Active(d, d.relations[r][f])
    BY <2>1 DEF Sound, NoDangling
  <2>5. SourceRelationsMatch(d, r)
    BY <2>3, <2>4 DEF SourceRelationsMatch, TargetsExist
  <2> QED
    BY <2>2, <2>5
<1>2. ASSUME NEW i \in 1..Len(d.events) PROVE d.idem[d.events[i].key] # Nil
  <2>1. d.events[i].key \in Keys
    <3>1. d.events \in Seq(Events)
      BY DEF Images
    <3>2. d.events[i] \in Events
      BY <3>1
    <3> QED
      BY <3>2 DEF Events
  <2>2. i \in ReceiptsFor(d, d.events[i].key)
    BY DEF ReceiptsFor
  <2> QED
    BY <2>1, <2>2 DEF LedgerMatchesLog
<1> QED
  BY <1>1, <1>2 DEF Collectable, Exportable, EventsHaveEntries

\* As many as its numbers.
LEMMA NumberedCardinality ==
  ASSUME NEW n \in Nat, NEW S, NEW f \in [1..n -> S],
         \A i, j \in 1..n : f[i] = f[j] => i = j,
         \A x \in S : \E i \in 1..n : f[i] = x
  PROVE  Cardinality(S) = n
<1>1. IsFiniteSet(1..n) /\ Cardinality(1..n) = n
  BY FS_Interval
<1>2. f \in Bijection(1..n, S)
  BY DEF Bijection, Injection, Surjection, IsInjective
<1>3. ExistsBijection(1..n, S)
  BY <1>2 DEF ExistsBijection
<1> QED
  BY <1>1, <1>3, FS_Bijection

\* The rows of a sequence, numbered, are the sequence.
LEMMA SchemasMaterialize ==
  ASSUME NEW d \in Images
  PROVE  /\ {x.version : x \in SchemaRows(d)} = 1..Cardinality(SchemaRows(d))
         /\ SchemaRows(d) # {}
         /\ Materialized(Collected(d)).schemas = d.schemas
<1> DEFINE n == Len(d.schemas)
           S == SchemaRows(d)
           f == [i \in 1..n |-> [version |-> i, schema |-> d.schemas[i]]]
<1>1. n \in Nat \ {0} /\ d.schemas = [i \in 1..n |-> d.schemas[i]]
  BY DEF Images
<1>2. S = {f[i] : i \in 1..n}
  BY DEF SchemaRows, SchemaVersion
<1>3. \A i \in 1..n : f[i].version = i /\ f[i].schema = d.schemas[i]
  OBVIOUS
<1> HIDE DEF f, S
<1>4. Cardinality(S) = n
  <2>1. f \in [1..n -> S]
    BY <1>2 DEF f
  <2>2. \A i, j \in 1..n : f[i] = f[j] => i = j
    BY <1>3
  <2> QED
    BY <1>1, <1>2, <2>1, <2>2, NumberedCardinality
<1>5. {x.version : x \in S} = 1..n
  BY <1>2, <1>3
<1>6. ASSUME NEW i \in 1..n PROVE (CHOOSE x \in S : x.version = i) = f[i]
  <2>1. f[i] \in S /\ f[i].version = i
    BY <1>2, <1>3
  <2>2. \A x \in S : x.version = i => x = f[i]
    BY <1>2, <1>3
  <2> QED
    BY <2>1, <2>2
<1>7. Materialized(Collected(d)).schemas =
        [i \in 1..Cardinality(S) |-> (CHOOSE x \in S : x.version = i).schema]
  BY DEF Materialized, Collected, S
<1>8. [i \in 1..n |-> (CHOOSE x \in S : x.version = i).schema] = [i \in 1..n |-> d.schemas[i]]
  <2>1. \A i \in 1..n : (CHOOSE x \in S : x.version = i).schema = d.schemas[i]
    BY <1>3, <1>6
  <2> QED
    BY <2>1
<1>9. S # {}
  <2>1. 1 \in 1..n
    BY <1>1
  <2> QED
    BY <1>2, <2>1
<1> QED
  BY <1>1, <1>4, <1>5, <1>7, <1>8, <1>9 DEF S

LEMMA EventsMaterialize ==
  ASSUME NEW d \in Images
  PROVE  /\ {x.sequence : x \in ProvenanceRows(d)} = 1..Cardinality(ProvenanceRows(d))
         /\ Materialized(Collected(d)).events = d.events
<1> DEFINE n == Len(d.events)
           S == ProvenanceRows(d)
           f == [i \in 1..n |-> [sequence |-> i, event |-> d.events[i]]]
<1>1. n \in Nat /\ d.events = [i \in 1..n |-> d.events[i]]
  BY DEF Images
<1>2. S = {f[i] : i \in 1..n}
  BY DEF ProvenanceRows
<1>3. \A i \in 1..n : f[i].sequence = i /\ f[i].event = d.events[i]
  OBVIOUS
<1> HIDE DEF f, S
<1>4. Cardinality(S) = n
  <2>1. f \in [1..n -> S]
    BY <1>2 DEF f
  <2>2. \A i, j \in 1..n : f[i] = f[j] => i = j
    BY <1>3
  <2> QED
    BY <1>1, <1>2, <2>1, <2>2, NumberedCardinality
<1>5. {x.sequence : x \in S} = 1..n
  BY <1>2, <1>3
<1>6. ASSUME NEW i \in 1..n PROVE (CHOOSE x \in S : x.sequence = i) = f[i]
  <2>1. f[i] \in S /\ f[i].sequence = i
    BY <1>2, <1>3
  <2>2. \A x \in S : x.sequence = i => x = f[i]
    BY <1>2, <1>3
  <2> QED
    BY <2>1, <2>2
<1>7. Materialized(Collected(d)).events =
        [i \in 1..Cardinality(S) |-> (CHOOSE x \in S : x.sequence = i).event]
  BY DEF Materialized, Collected, S
<1>8. [i \in 1..n |-> (CHOOSE x \in S : x.sequence = i).event] = [i \in 1..n |-> d.events[i]]
  <2>1. \A i \in 1..n : (CHOOSE x \in S : x.sequence = i).event = d.events[i]
    BY <1>3, <1>6
  <2> QED
    BY <2>1
<1> QED
  BY <1>1, <1>4, <1>5, <1>7, <1>8 DEF S

\* Rows with an identifier of their own are found by it.
LEMMA RecordsMaterialize ==
  ASSUME NEW d \in Images
  PROVE  /\ \A x, y \in RecordRows(d) : x.rec = y.rec => x = y
         /\ Materialized(Collected(d)).records = d.records
<1> DEFINE S == RecordRows(d)
           row(r) == IF \E x \in S : x.rec = r
                       THEN (CHOOSE x \in S : x.rec = r).row ELSE Nil
<1>1. d.records = [r \in Ids |-> d.records[r]]
  BY DEF Images
<1>2. \A x \in S : x.rec \in Ids /\ d.records[x.rec] # Nil /\ x.row = d.records[x.rec]
  BY DEF RecordRows, Stored
<1>3. \A r \in Ids : d.records[r] # Nil => [rec |-> r, row |-> d.records[r]] \in S
  BY DEF RecordRows, Stored
<1>4. \A x, y \in S : x.rec = y.rec => x = y
  BY DEF RecordRows
<1>5. ASSUME NEW r \in Ids PROVE row(r) = d.records[r]
  <2> HIDE DEF S
  <2>1. CASE d.records[r] = Nil
    BY <1>2, <2>1
  <2>2. CASE d.records[r] # Nil
    <3>1. \E x \in S : x.rec = r
      BY <1>3, <2>2
    <3>2. PICK y : y = (CHOOSE x \in S : x.rec = r)
      OBVIOUS
    <3>3. y \in S /\ y.rec = r
      BY <3>1, <3>2
    <3> QED
      BY <1>2, <3>1, <3>2, <3>3
  <2> QED
    BY <2>1, <2>2
<1>6. Materialized(Collected(d)).records = [r \in Ids |-> row(r)]
  BY DEF Materialized, Collected
<1>7. [r \in Ids |-> row(r)] = [r \in Ids |-> d.records[r]]
  <2> HIDE DEF row
  <2> QED
    BY <1>5
<1> QED
  BY <1>1, <1>4, <1>6, <1>7

LEMMA IdempotencyMaterializes ==
  ASSUME NEW d \in Images
  PROVE  /\ \A x, y \in IdempotencyRows(d) : x.key = y.key => x = y
         /\ Materialized(Collected(d)).idem = d.idem
<1> DEFINE S == IdempotencyRows(d)
           entry(k) == IF \E x \in S : x.key = k
                         THEN (CHOOSE x \in S : x.key = k).entry ELSE Nil
<1>1. d.idem = [k \in Keys |-> d.idem[k]]
  BY DEF Images
<1>2. \A x \in S : x.key \in Keys /\ d.idem[x.key] # Nil /\ x.entry = d.idem[x.key]
  BY DEF IdempotencyRows
<1>3. \A k \in Keys : d.idem[k] # Nil => [key |-> k, entry |-> d.idem[k]] \in S
  BY DEF IdempotencyRows
<1>4. \A x, y \in S : x.key = y.key => x = y
  BY DEF IdempotencyRows
<1>5. ASSUME NEW k \in Keys PROVE entry(k) = d.idem[k]
  <2> HIDE DEF S
  <2>1. CASE d.idem[k] = Nil
    BY <1>2, <2>1
  <2>2. CASE d.idem[k] # Nil
    <3>1. \E x \in S : x.key = k
      BY <1>3, <2>2
    <3>2. PICK y : y = (CHOOSE x \in S : x.key = k)
      OBVIOUS
    <3>3. y \in S /\ y.key = k
      BY <3>1, <3>2
    <3> QED
      BY <1>2, <3>1, <3>2, <3>3
  <2> QED
    BY <2>1, <2>2
<1>6. Materialized(Collected(d)).idem = [k \in Keys |-> entry(k)]
  BY DEF Materialized, Collected
<1>7. [k \in Keys |-> entry(k)] = [k \in Keys |-> d.idem[k]]
  <2> HIDE DEF entry
  <2> QED
    BY <1>5
<1> QED
  BY <1>1, <1>4, <1>6, <1>7

\* Only records that are stored have index rows.
LEMMA RelationsMaterialize ==
  ASSUME NEW d \in Images, Sound(d)
  PROVE  Materialized(Collected(d)).relations = d.relations
<1> DEFINE S == RelationRows(d)
           at(x, r, f) == x.source = r /\ x.field = f
           target(r, f) == IF \E x \in S : at(x, r, f)
                             THEN (CHOOSE x \in S : at(x, r, f)).target ELSE Nil
<1>1. d.relations \in [Ids -> [Fields -> Ids \cup {Nil}]]
  BY DEF Images
<1>2. \A x \in S : d.relations[x.source][x.field] # Nil /\ x.target = d.relations[x.source][x.field]
  BY DEF RelationRows
<1>3. ASSUME NEW r \in Ids, NEW f \in Fields, d.relations[r][f] # Nil
      PROVE  \E x \in S : at(x, r, f)
  <2>1. Active(d, r)
    BY <1>3 DEF Sound, NoDangling
  <2>2. r \in Stored(d)
    BY <2>1 DEF Active, Stored
  <2> DEFINE y == <<r, f>>
             x == [source |-> y[1], field |-> y[2], target |-> d.relations[y[1]][y[2]]]
  <2>3. y \in {z \in Stored(d) \X Fields : d.relations[z[1]][z[2]] # Nil}
    BY <1>3, <2>2
  <2>4. x \in S
    BY <2>3 DEF RelationRows
  <2>5. at(x, r, f)
    OBVIOUS
  <2> QED
    BY <2>4, <2>5
<1>4. ASSUME NEW r \in Ids, NEW f \in Fields PROVE target(r, f) = d.relations[r][f]
  <2> HIDE DEF S
  <2>1. CASE d.relations[r][f] = Nil
    BY <1>2, <2>1
  <2>2. CASE d.relations[r][f] # Nil
    <3>1. \E x \in S : at(x, r, f)
      BY <1>3, <2>2
    <3>2. PICK y : y = (CHOOSE x \in S : at(x, r, f))
      OBVIOUS
    <3>3. y \in S /\ at(y, r, f)
      BY <3>1, <3>2
    <3> QED
      BY <1>2, <3>1, <3>2, <3>3
  <2> QED
    BY <2>1, <2>2
<1>5. Materialized(Collected(d)).relations = [r \in Ids |-> [f \in Fields |-> target(r, f)]]
  BY DEF Materialized, Collected
<1>6. [r \in Ids |-> [f \in Fields |-> target(r, f)]] = d.relations
  <2> HIDE DEF target
  <2> QED
    BY <1>1, <1>4
<1> QED
  BY <1>5, <1>6

\* The rows of an image in order make the same image again.
LEMMA ImageMaterializes ==
  ASSUME NEW d \in Images, Sound(d)
  PROVE  Materializable(Collected(d)) /\ Materialized(Collected(d)) = d
<1> DEFINE e == Materialized(Collected(d))
<1>1. /\ e.schemas = d.schemas /\ e.records = d.records /\ e.relations = d.relations
      /\ e.idem = d.idem /\ e.events = d.events
  BY SchemasMaterialize, RecordsMaterialize, RelationsMaterialize,
     IdempotencyMaterializes, EventsMaterialize
<1>2. /\ e = [schemas |-> e.schemas, records |-> e.records, relations |-> e.relations,
              idem |-> e.idem, events |-> e.events]
      /\ d = [schemas |-> d.schemas, records |-> d.records, relations |-> d.relations,
              idem |-> d.idem, events |-> d.events]
  BY DEF Materialized, Images
<1>3. Materializable(Collected(d))
  BY SchemasMaterialize, RecordsMaterialize, IdempotencyMaterializes, EventsMaterialize
     DEF Materializable, Collected
<1> HIDE DEF e
<1>4. e = d
  BY <1>1, <1>2
<1> QED
  BY <1>3, <1>4 DEF e

LEMMA ImagePortable ==
  ASSUME NEW d \in Images, Sound(d), LedgerMatchesLog(d), Exportable(d)
  PROVE  Portable(d)
  BY ImageCollectable, ImageMaterializes DEF Portable, Imports

(***************************************************************************)
(* Induction over the natural numbers, for sets of them.                   *)
(***************************************************************************)
LEMMA LeastNumber ==
  ASSUME NEW S \in SUBSET Nat, S # {}
  PROVE  \E x \in S : \A y \in S : x <= y
<1> DEFINE R == {ss \in Nat \X Nat : ss[1] < ss[2]}
<1>1. IsWellFoundedOn(R, Nat)
  BY NatLessThanWellFounded, Zenon DEF OpToRel
<1>2. PICK x \in S : \A y \in S : <<y, x>> \notin R
  <2> HIDE DEF R
  <2> QED
    BY <1>1, WFMin
<1>3. ASSUME NEW y \in S PROVE x <= y
  <2>1. <<y, x>> \notin R
    BY <1>2
  <2>2. y < x => <<y, x>> \in R
    OBVIOUS
  <2> QED
    BY <2>1, <2>2
<1> QED
  BY <1>3

LEMMA NumberInduction ==
  ASSUME NEW T, 0 \in T, \A n \in Nat : n \in T => n + 1 \in T
  PROVE  Nat \subseteq T
<1> DEFINE S == {n \in Nat : n \notin T}
<1> SUFFICES ASSUME S # {} PROVE FALSE
  OBVIOUS
<1>1. PICK x \in S : \A y \in S : x <= y
  BY LeastNumber
<1>2. x # 0 /\ x - 1 \in Nat /\ x - 1 \notin S
  BY <1>1
<1> QED
  BY <1>1, <1>2

\* f begins with x, and each value but the first is a step from the one before.
Recursion(f, x, n, step) ==
  f[0] = x /\ \A k \in 1..n : f[k] = step[<<k, f[k - 1]>>]

\* A recursion over the first n numbers, whose steps stay in S, has a solution.
LEMMA RecursionExists ==
  ASSUME NEW S, NEW x \in S, NEW n \in Nat, NEW step \in [(1..n) \X S -> S]
  PROVE  \E f \in [0..n -> S] : Recursion(f, x, n, step)
<1> DEFINE Solves(f, l) ==
             f[0] = x /\ \A k \in 1..l : f[k] = step[<<k, f[k - 1]>>]
           T == {l \in Nat : l <= n => \E f \in [0..l -> S] : Solves(f, l)}
<1>1. 0 \in T
  <2>1. [k \in 0..0 |-> x] \in [0..0 -> S] /\ Solves([k \in 0..0 |-> x], 0)
    OBVIOUS
  <2> QED
    BY <2>1
<1>2. ASSUME NEW l \in Nat, l \in T PROVE l + 1 \in T
  <2> SUFFICES ASSUME l + 1 <= n PROVE \E f \in [0..(l + 1) -> S] : Solves(f, l + 1)
    OBVIOUS
  <2>1. PICK f \in [0..l -> S] : Solves(f, l)
    BY <1>2
  <2> DEFINE g == [k \in 0..(l + 1) |-> IF k = l + 1 THEN step[<<l + 1, f[l]>>] ELSE f[k]]
  <2>2. step[<<l + 1, f[l]>>] \in S
    OBVIOUS
  <2>3. g \in [0..(l + 1) -> S]
    BY <2>2
  <2>4. \A k \in 0..l : g[k] = f[k]
    OBVIOUS
  <2>5. g[l + 1] = step[<<l + 1, f[l]>>]
    OBVIOUS
  <2> HIDE DEF g
  <2>6. ASSUME NEW k \in 1..(l + 1) PROVE g[k] = step[<<k, g[k - 1]>>]
    <3>1. CASE k = l + 1
      BY <2>4, <2>5, <3>1
    <3>2. CASE k # l + 1
      <4>1. k \in 1..l /\ k \in 0..l /\ k - 1 \in 0..l
        BY <3>2
      <4> QED
        BY <2>1, <2>4, <4>1
    <3> QED
      BY <3>1, <3>2
  <2>7. g[0] = x
    BY <2>1, <2>4
  <2> QED
    BY <2>3, <2>6, <2>7
<1>3. Nat \subseteq T
  <2> HIDE DEF T
  <2> QED
    BY <1>1, <1>2, NumberInduction
<1> QED
  BY <1>3 DEF Recursion

(***************************************************************************)
(* The outcome after the first n mutations of request r on image d.        *)
(***************************************************************************)
After(d, r, recs, tx, n) ==
  LET after[k \in 0..n] ==
        IF k = 0 THEN Begun(d)
        ELSE Continued(after[k - 1], r.ops[k], recs[k], r.actor, tx)
  IN  after[n]

IsRun(f, d, r, recs, tx, n) ==
  f = [k \in 0..n |->
         IF k = 0 THEN Begun(d)
         ELSE Continued(f[k - 1], r.ops[k], recs[k], r.actor, tx)]

Begins(f, d) == f[0] = Begun(d)

RunsOn(f, r, recs, tx, n) ==
  \A k \in 1..n : f[k] = Continued(f[k - 1], r.ops[k], recs[k], r.actor, tx)

\* A run has its first value, and each of the others from the one before it.
LEMMA RunValues ==
  ASSUME NEW d, NEW r, NEW recs, NEW tx, NEW n \in Nat, NEW f,
         IsRun(f, d, r, recs, tx, n)
  PROVE  Begins(f, d) /\ RunsOn(f, r, recs, tx, n)
<1>1. \A k \in 0..n :
        f[k] = IF k = 0 THEN Begun(d)
               ELSE Continued(f[k - 1], r.ops[k], recs[k], r.actor, tx)
  BY DEF IsRun
<1>2. 0 \in 0..n /\ \A k \in 1..n : k \in 0..n /\ k # 0
  OBVIOUS
<1> QED
  BY <1>1, <1>2 DEF Begins, RunsOn

\* There is a run of every length.
LEMMA RunExists ==
  ASSUME NEW d, NEW r, NEW recs, NEW tx
  PROVE  \A n \in Nat : \E f : IsRun(f, d, r, recs, tx, n)
<1> DEFINE T == {n \in Nat : \E f : IsRun(f, d, r, recs, tx, n)}
<1>1. 0 \in T
  <2> DEFINE f == [k \in 0..0 |-> Begun(d)]
  <2>1. f = [k \in 0..0 |->
              IF k = 0 THEN Begun(d)
              ELSE Continued(f[k - 1], r.ops[k], recs[k], r.actor, tx)]
    OBVIOUS
  <2>2. IsRun(f, d, r, recs, tx, 0)
    BY <2>1 DEF IsRun
  <2> QED
    BY <2>2
<1>2. ASSUME NEW n \in Nat, n \in T PROVE n + 1 \in T
  <2>1. PICK f : IsRun(f, d, r, recs, tx, n)
    BY <1>2
  <2> DEFINE last == Continued(f[n], r.ops[n + 1], recs[n + 1], r.actor, tx)
             g == [k \in 0..(n + 1) |-> IF k = n + 1 THEN last ELSE f[k]]
  <2>2. \A k \in 0..(n + 1) : k # 0 => g[k - 1] = f[k - 1]
    OBVIOUS
  <2>3. ASSUME NEW k \in 0..(n + 1)
        PROVE  g[k] = IF k = 0 THEN Begun(d)
                      ELSE Continued(g[k - 1], r.ops[k], recs[k], r.actor, tx)
    <3>1. CASE k = n + 1
      <4>1. g[k] = last /\ k # 0 /\ g[k - 1] = f[n]
        BY <2>2, <3>1
      <4> QED
        BY <3>1, <4>1
    <3>2. CASE k = 0
      <4>1. g[k] = f[0]
        BY <3>2
      <4> QED
        BY <2>1, <3>2, <4>1, RunValues DEF Begins
    <3>3. CASE k # 0 /\ k # n + 1
      <4>1. k \in 1..n /\ g[k] = f[k] /\ g[k - 1] = f[k - 1]
        BY <2>2, <3>3
      <4>2. RunsOn(f, r, recs, tx, n)
        BY <2>1, RunValues
      <4>3. f[k] = Continued(f[k - 1], r.ops[k], recs[k], r.actor, tx)
        BY <4>1, <4>2 DEF RunsOn
      <4> QED
        BY <3>3, <4>1, <4>3
    <3> QED
      BY <3>1, <3>2, <3>3
  <2>4. g = [k \in 0..(n + 1) |-> g[k]]
    OBVIOUS
  <2> HIDE DEF g
  <2>5. IsRun(g, d, r, recs, tx, n + 1)
    BY <2>3, <2>4 DEF IsRun
  <2> QED
    BY <2>5
<1>3. Nat \subseteq T
  <2> HIDE DEF T
  <2> QED
    BY <1>1, <1>2, NumberInduction
<1> QED
  BY <1>3

\* Two runs whose mutations land on the same records agree.
LEMMA RunsAgree ==
  ASSUME NEW d, NEW r, NEW recs, NEW recs2, NEW tx, NEW n \in Nat, NEW l \in Nat,
         NEW f, IsRun(f, d, r, recs, tx, n),
         NEW g, IsRun(g, d, r, recs2, tx, l),
         n <= l, \A k \in 1..n : recs[k] = recs2[k]
  PROVE  \A k \in 0..n : f[k] = g[k]
<1> DEFINE T == {k \in Nat : k <= n => f[k] = g[k]}
<1>1. /\ Begins(f, d) /\ RunsOn(f, r, recs, tx, n)
      /\ Begins(g, d) /\ RunsOn(g, r, recs2, tx, l)
  BY RunValues
<1>2. 0 \in T
  BY <1>1 DEF Begins
<1>3. ASSUME NEW k \in Nat, k \in T PROVE k + 1 \in T
  <2> SUFFICES ASSUME k + 1 <= n PROVE f[k + 1] = g[k + 1]
    OBVIOUS
  <2>1. f[k] = g[k] /\ k + 1 \in 1..n /\ k + 1 \in 1..l /\ (k + 1) - 1 = k
    BY <1>3
  <2> QED
    BY <1>1, <2>1 DEF RunsOn
<1>4. Nat \subseteq T
  <2> HIDE DEF T
  <2> QED
    BY <1>2, <1>3, NumberInduction
<1> QED
  BY <1>4

LEMMA AfterIsRun ==
  ASSUME NEW d, NEW r, NEW recs, NEW tx, NEW n \in Nat
  PROVE  \E f : IsRun(f, d, r, recs, tx, n) /\ After(d, r, recs, tx, n) = f[n]
<1> DEFINE f == CHOOSE g : IsRun(g, d, r, recs, tx, n)
<1>1. IsRun(f, d, r, recs, tx, n)
  BY RunExists
<1>2. After(d, r, recs, tx, n) = f[n]
  BY DEF After, IsRun
<1> QED
  BY <1>1, <1>2

LEMMA AfterNone ==
  ASSUME NEW d, NEW r, NEW recs, NEW tx
  PROVE  After(d, r, recs, tx, 0) = Begun(d)
<1>1. PICK f : IsRun(f, d, r, recs, tx, 0) /\ After(d, r, recs, tx, 0) = f[0]
  BY AfterIsRun
<1>2. f[0] = Begun(d)
  BY <1>1, RunValues DEF Begins
<1> QED
  BY <1>1, <1>2

LEMMA AfterOneMore ==
  ASSUME NEW d, NEW r, NEW recs, NEW tx, NEW n \in Nat
  PROVE  After(d, r, recs, tx, n + 1) =
           Continued(After(d, r, recs, tx, n), r.ops[n + 1], recs[n + 1],
                            r.actor, tx)
<1>1. PICK f : IsRun(f, d, r, recs, tx, n) /\ After(d, r, recs, tx, n) = f[n]
  BY AfterIsRun
<1>2. PICK g : IsRun(g, d, r, recs, tx, n + 1) /\ After(d, r, recs, tx, n + 1) = g[n + 1]
  BY AfterIsRun
<1>3. n + 1 \in Nat /\ n <= n + 1 /\ n \in 0..n /\ n + 1 \in 1..(n + 1) /\ (n + 1) - 1 = n
  OBVIOUS
<1>4. f[n] = g[n]
  BY <1>1, <1>2, <1>3, RunsAgree
<1>5. RunsOn(g, r, recs, tx, n + 1)
  BY <1>2, <1>3, RunValues
<1>6. g[n + 1] = Continued(g[n], r.ops[n + 1], recs[n + 1], r.actor, tx)
  BY <1>3, <1>5 DEF RunsOn
<1> QED
  BY <1>1, <1>2, <1>4, <1>6

LEMMA AfterSame ==
  ASSUME NEW d, NEW r, NEW recs, NEW recs2, NEW tx, NEW n \in Nat,
         \A k \in 1..n : recs[k] = recs2[k]
  PROVE  After(d, r, recs, tx, n) = After(d, r, recs2, tx, n)
<1>1. PICK f : IsRun(f, d, r, recs, tx, n) /\ After(d, r, recs, tx, n) = f[n]
  BY AfterIsRun
<1>2. PICK g : IsRun(g, d, r, recs2, tx, n) /\ After(d, r, recs2, tx, n) = g[n]
  BY AfterIsRun
<1> QED
  BY <1>1, <1>2, RunsAgree

LEMMA OutcomeIsAfter ==
  ASSUME NEW d, NEW r, NEW recs, NEW tx
  PROVE  Outcome(d, r, recs, tx) = After(d, r, recs, tx, Len(r.ops))
  BY DEF Outcome, After

(***************************************************************************)
(* What holds of no mutation, and goes on to hold with the next one, holds *)
(* of the outcome of a request.                                            *)
(***************************************************************************)
LEMMA OutcomeInduction ==
  ASSUME NEW d, NEW r, Len(r.ops) \in Nat, NEW recs, NEW tx,
         NEW T, <<0, Begun(d)>> \in T,
         \A n \in 1..Len(r.ops) : \A o : <<n - 1, o>> \in T =>
           <<n, Continued(o, r.ops[n], recs[n], r.actor, tx)>> \in T
  PROVE  <<Len(r.ops), Outcome(d, r, recs, tx)>> \in T
<1> DEFINE S == {n \in Nat : n <= Len(r.ops) => <<n, After(d, r, recs, tx, n)>> \in T}
<1>1. 0 \in S
  BY AfterNone
<1>2. ASSUME NEW n \in Nat, n \in S PROVE n + 1 \in S
  <2> SUFFICES ASSUME n + 1 <= Len(r.ops)
               PROVE  <<n + 1, After(d, r, recs, tx, n + 1)>> \in T
    OBVIOUS
  <2>1. <<n, After(d, r, recs, tx, n)>> \in T /\ n + 1 \in 1..Len(r.ops) /\ (n + 1) - 1 = n
    BY <1>2
  <2>2. After(d, r, recs, tx, n + 1) =
          Continued(After(d, r, recs, tx, n), r.ops[n + 1], recs[n + 1], r.actor, tx)
    BY AfterOneMore
  <2>3. \A o : <<(n + 1) - 1, o>> \in T =>
          <<n + 1, Continued(o, r.ops[n + 1], recs[n + 1], r.actor, tx)>> \in T
    BY <2>1
  <2> QED
    BY <2>1, <2>2, <2>3
<1>3. Nat \subseteq S
  <2> HIDE DEF S
  <2> QED
    BY <1>1, <1>2, NumberInduction
<1> QED
  BY <1>3, OutcomeIsAfter

\* A request, or an addition of fields.
LEMMA RequestedCases ==
  ASSUME NEW d, NEW requests, NEW additions, NEW e
  PROVE  e \in Requested(d, requests, additions) <=>
           \/ \E req \in requests : MayPerform(d, req) /\ e \in Performed(d, req)
           \/ \E adds \in additions :
                /\ MayAddFields(CurrentSchema(d), adds)
                /\ e = Evolved(d, WithFields(CurrentSchema(d), adds))
<1> DEFINE R == UNION {Performed(d, req) : req \in {r \in requests : MayPerform(d, r)}}
           S == {Evolved(d, WithFields(CurrentSchema(d), adds)) :
                   adds \in {a \in additions : MayAddFields(CurrentSchema(d), a)}}
<1>1. e \in R <=> \E req \in requests : MayPerform(d, req) /\ e \in Performed(d, req)
  OBVIOUS
<1>2. e \in S <=> \E adds \in additions :
                     /\ MayAddFields(CurrentSchema(d), adds)
                     /\ e = Evolved(d, WithFields(CurrentSchema(d), adds))
  OBVIOUS
<1>3. Requested(d, requests, additions) = R \cup S
  BY DEF Requested
<1> HIDE DEF R, S
<1> QED
  BY <1>1, <1>2, <1>3

(***************************************************************************)
(* Whole requests, from an image in which everything is as it should be.   *)
(***************************************************************************)
Kept(d) == d \in Images /\ Sound(d) /\ LogSound(d) /\ Exportable(d)

Outputs ==
  [ok        : BOOLEAN,
   image     : Images,
   refs      : [Markers -> Ids \cup {Nil}],
   children  : Seq(Nat),
   snapshots : Seq(Snapshots)]

\* The outcome of the first n mutations of a request.
Reached(d, req, n, o) ==
  /\ Kept(o.image)
  /\ Extends(d, o.image)
  /\ o.image.schemas = d.schemas
  /\ \A k \in Keys :
       (\A i \in 1..Len(req.ops) : req.ops[i].key # k) => o.image.idem[k] = d.idem[k]
  /\ Len(o.snapshots) = n
  /\ \A i \in 1..n : o.snapshots[i].rec \in Stored(o.image)
  /\ Len(o.image.events) = Len(d.events) + n

LEMMA AcceptableType ==
  ASSUME NEW req, Acceptable(req)
  PROVE  /\ req \in Requests
         /\ req.key \in Keys
         /\ req.actor \in Actors
         /\ req.ops \in Seq(Mutations)
         /\ Len(req.ops) \in Nat
         /\ \A n \in 1..Len(req.ops) : req.ops[n] \in Mutations
  BY DEF Acceptable, Requests

LEMMA BegunReached ==
  ASSUME NEW d, Kept(d), NEW req
  PROVE  Begun(d) \in Outputs /\ Reached(d, req, 0, Begun(d))
<1>1. Extends(d, d)
  BY ExtendsReflexive DEF Kept
<1> QED
  BY <1>1 DEF Begun, Outputs, Reached, Kept, Images

\* What one mutation does, to everything that is said of images.
OneMore(d, e, m, r) ==
  /\ Kept(e)
  /\ Extends(d, e)
  /\ e.schemas = d.schemas
  /\ \A k \in Keys : k # m.key => e.idem[k] = d.idem[k]
  /\ Stored(d) \subseteq Stored(e)
  /\ r \in Stored(e)
  /\ e.records[r] \in Rows
  /\ Len(e.events) = Len(d.events) + 1

LEMMA MutatedKept ==
  ASSUME NEW d, Kept(d), NEW m \in Mutations, NEW r \in Ids, NEW actor \in Actors,
         NEW tx \in Nat, MayMutate(d, m, r),
         m.op = "data.record.create" => m.expected = 0
  PROVE  OneMore(d, Mutated(d, m, r, actor, tx), m, r)
<1> DEFINE e == Mutated(d, m, r, actor, tx)
<1>1. d \in Images /\ Sound(d) /\ LogSound(d) /\ Exportable(d)
  BY DEF Kept
<1>2. e \in Images /\ Sound(e) /\ Extends(d, e) /\ e.records[r] \in Rows
  BY <1>1, MutatedSound
<1>3. LogSound(e)
  BY <1>1, MutatedLogSound
<1>4. Exportable(e) /\ Stored(d) \subseteq Stored(e) /\ r \in Stored(e)
  BY <1>1, MutatedExportable
<1>5. e.schemas = d.schemas
  BY MutatedSchemas
<1>6. Len(e.events) = Len(d.events) + 1
  BY <1>1, MutatedLeaves
<1>7. \A k \in Keys : k # m.key => e.idem[k] = d.idem[k]
  <2>1. PICK row, refs : e = Written(d, r, row, refs, m, actor, tx)
    BY MutatedWrites
  <2>2. e.idem = [d.idem EXCEPT ![m.key] = EntryOf(r, row, m, actor)]
    BY <2>1 DEF Written
  <2>3. d.idem \in [Keys -> Entries \cup {Nil}]
    BY <1>1 DEF Images
  <2> QED
    BY <2>2, <2>3
<1> HIDE DEF e
<1>8. Kept(e)
  BY <1>2, <1>3, <1>4 DEF Kept
<1>9. OneMore(d, e, m, r)
  BY <1>2, <1>4, <1>5, <1>6, <1>7, <1>8 DEF OneMore
<1> QED
  BY <1>9 DEF e

\* A new version of an active record, whatever its data, if the schema accepts
\* them.
LEMMA WrittenKept ==
  ASSUME NEW d, Kept(d), NEW r \in Ids, Active(d, r), NEW row \in Rows,
         row.version = d.records[r].version + 1, row.schemaVersion = SchemaVersion(d),
         ~row.deleted, row.createdBy = d.records[r].createdBy,
         Validates(CurrentSchema(d), row.data),
         NEW refs, refs = RefsOf(CurrentSchema(d), row.data), TargetsExist(d, refs),
         NEW m \in Mutations, m.op = "data.record.update", m.expected = row.version - 1,
         Fresh(d, m.key), NEW actor \in Actors, NEW tx \in Nat
  PROVE  OneMore(d, Written(d, r, row, refs, m, actor, tx), m, r)
<1> DEFINE e == Written(d, r, row, refs, m, actor, tx)
           event == EventOf(r, row, m, actor, tx)
           entry == EntryOf(r, row, m, actor)
<1>1. d \in Images /\ Sound(d) /\ LogSound(d) /\ Exportable(d)
  BY DEF Kept
<1>2. e \in Images /\ Sound(e)
  BY <1>1, WrittenSound
<1>3. d.records[r] # Nil /\ ~d.records[r].deleted
  BY DEF Active
<1>4. Extends(d, e)
  BY <1>1, <1>3, WrittenExtends
<1>5. LogSound(e)
  BY <1>1, <1>3, WrittenLogSound
<1>6. /\ e.schemas = d.schemas
      /\ e.records = [d.records EXCEPT ![r] = row]
      /\ e.events = Append(d.events, event)
      /\ e.idem = [d.idem EXCEPT ![m.key] = entry]
  BY DEF Written
<1>7. /\ d.records \in [Ids -> Rows \cup {Nil}]
      /\ d.idem \in [Keys -> Entries \cup {Nil}]
      /\ d.events \in Seq(Events)
      /\ m.key \in Keys
      /\ row # Nil /\ row.version \in Nat /\ r # Nil
  BY <1>1, DistinctValues DEF Images, Mutations, Rows
<1> HIDE DEF e
<1>8. Stored(d) \subseteq Stored(e) /\ r \in Stored(e)
  BY <1>6, <1>7 DEF Stored
<1>9. d.records[r] \in Rows /\ row.version > 1
  BY <1>3, <1>7 DEF Rows
<1>10. EventReadsBack(event) /\ event.rec = r
  BY <1>7, <1>9 DEF EventReadsBack, EventOf, MutationOps
<1>11. \A n \in 1..Len(entry.result.snapshots) :
         entry.result.snapshots[n].rec \in Stored(e)
  BY <1>8 DEF EntryOf
<1> HIDE DEF event, entry
<1>12. Exportable(e)
  <2>1. e.events = Append(d.events, event) /\ e.idem = [d.idem EXCEPT ![m.key] = entry]
    BY <1>6
  <2>2. m.key \in Keys
    BY <1>7
  <2>3. event.rec # Nil => event.rec \in Stored(e)
    BY <1>8, <1>10
  <2> QED
    BY <1>1, <1>8, <1>10, <1>11, <2>1, <2>2, <2>3, ExportableGrows
<1>13. Kept(e)
  BY <1>2, <1>5, <1>12 DEF Kept
<1>14. e.records[r] = row /\ Len(e.events) = Len(d.events) + 1
  BY <1>6, <1>7
<1>15. OneMore(d, e, m, r)
  BY <1>4, <1>6, <1>7, <1>8, <1>13, <1>14 DEF OneMore
<1> QED
  BY <1>15 DEF e

LEMMA ResolvedSame ==
  ASSUME NEW d, NEW m \in Mutations, NEW refs
  PROVE  /\ Resolved(d, m, refs).op = m.op
         /\ Resolved(d, m, refs).expected = m.expected
         /\ Resolved(d, m, refs).key = m.key
         /\ Resolved(d, m, refs).rec = m.rec
  BY DEF Resolved, Mutations

\* A mutation that succeeds continues the outcome.
Goes(o, m, r) ==
  /\ o.ok
  /\ Resolvable(o.image, m, o.refs)
  /\ ClientRefFree(m, o.refs)
  /\ MayMutate(o.image, Resolved(o.image, m, o.refs), r)

LEMMA ContinuedFails ==
  ASSUME NEW o, NEW m, NEW r, NEW actor, NEW tx, ~Goes(o, m, r)
  PROVE  Continued(o, m, r, actor, tx) = [o EXCEPT !.ok = FALSE]
  BY DEF Continued, Goes

LEMMA ContinuedGoes ==
  ASSUME NEW o, NEW m, NEW r, NEW actor, NEW tx, Goes(o, m, r),
         NEW image, image = Mutated(o.image, Resolved(o.image, m, o.refs), r, actor, tx)
  PROVE  Continued(o, m, r, actor, tx) =
           [ok        |-> TRUE,
            image     |-> image,
            refs      |-> Bind(o.refs, m, r),
            children  |-> Append(o.children, Len(image.events)),
            snapshots |-> Append(o.snapshots, [rec |-> r, row |-> image.records[r]])]
  BY DEF Continued, Goes

LEMMA ContinuedReached ==
  ASSUME NEW d, Kept(d), NEW req, Acceptable(req),
         NEW n \in 1..Len(req.ops),
         NEW o \in Outputs, o.ok => Reached(d, req, n - 1, o), NEW r \in Ids, NEW tx \in Nat
  PROVE  LET c == Continued(o, req.ops[n], r, req.actor, tx)
         IN  c \in Outputs /\ (c.ok => Reached(d, req, n, c))
<1> DEFINE c == Continued(o, req.ops[n], r, req.actor, tx)
           m == req.ops[n]
           image == Mutated(o.image, Resolved(o.image, m, o.refs), r, req.actor, tx)
<1>1. m \in Mutations /\ req.actor \in Actors /\ (m.op = "data.record.create" => m.expected = 0)
  BY AcceptableType DEF Acceptable
<1>2. CASE ~Goes(o, m, r)
  <2>1. c = [o EXCEPT !.ok = FALSE]
    BY <1>2 DEF Goes, Continued
  <2> QED
    BY <2>1 DEF Outputs
<1>3. CASE Goes(o, m, r)
  <2>1. /\ o.ok /\ Kept(o.image) /\ Extends(d, o.image) /\ o.image \in Images
        /\ Resolvable(o.image, m, o.refs)
        /\ MayMutate(o.image, Resolved(o.image, m, o.refs), r)
        /\ o.refs \in [Markers -> Ids \cup {Nil}]
    BY <1>3 DEF Goes, Reached, Kept, Outputs
  <2>2. Resolved(o.image, m, o.refs) \in Mutations
    BY <1>1, <2>1, ResolvedType
  <2>3. OneMore(o.image, image, Resolved(o.image, m, o.refs), r)
    BY <1>1, <2>1, <2>2, ResolvedSame, MutatedKept
  <2>4. c = [ok        |-> TRUE,
             image     |-> image,
             refs      |-> Bind(o.refs, m, r),
             children  |-> Append(o.children, Len(image.events)),
             snapshots |-> Append(o.snapshots, [rec |-> r, row |-> image.records[r]])]
    BY <1>3, ContinuedGoes
  <2> HIDE DEF image, m, c
  <2>5. /\ Kept(image) /\ image \in Images /\ Extends(o.image, image)
        /\ image.schemas = o.image.schemas
        /\ \A k \in Keys : k # m.key => image.idem[k] = o.image.idem[k]
        /\ Stored(o.image) \subseteq Stored(image)
        /\ r \in Stored(image)
        /\ image.records[r] \in Rows
        /\ Len(image.events) = Len(o.image.events) + 1
    BY <1>1, <2>3, ResolvedSame DEF OneMore, Kept
  <2>6. c \in Outputs
    <3>1. Bind(o.refs, m, r) \in [Markers -> Ids \cup {Nil}]
      BY <1>1, <2>1, BindType
    <3>2. Len(image.events) \in Nat
      BY <2>5 DEF Images
    <3>3. [rec |-> r, row |-> image.records[r]] \in Snapshots
      BY <2>5 DEF Snapshots
    <3> QED
      BY <2>4, <2>5, <3>1, <3>2, <3>3 DEF Outputs
  <2>7. Extends(d, image)
    BY <2>1, <2>5, ExtendsTransitive DEF Kept
  <2>8. \A k \in Keys :
          (\A i \in 1..Len(req.ops) : req.ops[i].key # k) => image.idem[k] = d.idem[k]
    <3> SUFFICES ASSUME NEW k \in Keys, \A i \in 1..Len(req.ops) : req.ops[i].key # k
                 PROVE  image.idem[k] = d.idem[k]
      OBVIOUS
    <3>1. k # m.key
      BY DEF m
    <3>2. o.image.idem[k] = d.idem[k]
      BY <2>1 DEF Reached
    <3> QED
      BY <2>5, <3>1, <3>2
  <2>9. Len(c.snapshots) = n /\ \A i \in 1..n : c.snapshots[i].rec \in Stored(image)
    <3>1. /\ o.snapshots \in Seq(Snapshots) /\ Len(o.snapshots) = n - 1
          /\ \A i \in 1..(n - 1) : o.snapshots[i].rec \in Stored(o.image)
      BY <2>1 DEF Outputs, Reached
    <3>2. c.snapshots = Append(o.snapshots, [rec |-> r, row |-> image.records[r]])
      BY <2>4
    <3>3. n \in Nat \ {0}
      BY AcceptableType
    <3> QED
      BY <2>5, <3>1, <3>2, <3>3
  <2>10. Len(image.events) = Len(d.events) + n
    BY <2>1, <2>5, AcceptableType DEF Reached, Kept, Images
  <2>11. c.image = image /\ image.schemas = d.schemas
    BY <2>1, <2>4, <2>5 DEF Reached
  <2>12. Reached(d, req, n, c)
    BY <2>5, <2>7, <2>8, <2>9, <2>10, <2>11 DEF Reached
  <2> QED
    BY <2>6, <2>12 DEF c
<1> QED
  BY <1>2, <1>3

LEMMA OutcomeReached ==
  ASSUME NEW d, Kept(d), NEW req, Acceptable(req), NEW tx \in Nat,
         NEW o \in Outcomes(d, req, tx)
  PROVE  o \in Outputs /\ Reached(d, req, Len(req.ops), o)
<1> DEFINE T == {x \in Nat \X Outputs : x[2].ok => Reached(d, req, x[1], x[2])}
<1>1. PICK recs \in [1..Len(req.ops) -> Ids] : o = Outcome(d, req, recs, tx) /\ o.ok
  BY DEF Outcomes
<1>2. <<0, Begun(d)>> \in T
  BY BegunReached
<1>3. ASSUME NEW n \in 1..Len(req.ops), NEW x, <<n - 1, x>> \in T
      PROVE  <<n, Continued(x, req.ops[n], recs[n], req.actor, tx)>> \in T
  <2>1. x \in Outputs /\ (x.ok => Reached(d, req, n - 1, x)) /\ n \in Nat /\ recs[n] \in Ids
    BY <1>1, <1>3, AcceptableType
  <2> QED
    BY <2>1, ContinuedReached
<1>4. Len(req.ops) \in Nat
  BY AcceptableType
<1>5. <<Len(req.ops), o>> \in T
  <2> HIDE DEF T
  <2> QED
    BY <1>1, <1>2, <1>3, <1>4, OutcomeInduction
<1> QED
  BY <1>1, <1>5

\* The keys a request uses.
KeysOf(req) == {req.key} \cup {req.ops[n].key : n \in 1..Len(req.ops)}

\* A whole request keeps what is said of images, lengthens the log and binds
\* its own keys.
LEMMA PerformedKept ==
  ASSUME NEW d, Kept(d), NEW req, Acceptable(req), MayPerform(d, req),
         NEW e \in Performed(d, req)
  PROVE  /\ Kept(e)
         /\ Extends(d, e)
         /\ Len(d.events) < Len(e.events)
         /\ \A k \in Keys \ KeysOf(req) : e.idem[k] = d.idem[k]
<1> DEFINE tx == Len(d.events) + 1
<1>1. d \in Images /\ Sound(d) /\ LogSound(d) /\ Exportable(d) /\ tx \in Nat /\ tx # 0
  BY DEF Kept, Images
<1>2. /\ Fresh(d, req.key) /\ req \in Requests /\ req.key \in Keys /\ Len(req.ops) \in Nat
      /\ WellKeyed(req)
  BY AcceptableType DEF MayPerform
<1>3. CASE req.kind = "record"
  <2>1. PICK o \in Outcomes(d, req, 0) : e = o.image
    BY <1>3 DEF Performed
  <2>2. Reached(d, req, Len(req.ops), o)
    BY OutcomeReached
  <2>3. Len(req.ops) = 1
    BY <1>3 DEF Acceptable
  <2> QED
    BY <1>1, <2>1, <2>2, <2>3 DEF Reached, KeysOf, Kept, Images
<1>4. CASE req.kind = "transaction"
  <2>1. PICK o \in Outcomes(d, req, tx) :
          e = Closed(o.image, req, tx, o.children, o.snapshots)
    BY <1>4 DEF Performed
  <2>2. o \in Outputs /\ Reached(d, req, Len(req.ops), o)
    BY <1>1, OutcomeReached
  <2> HIDE DEF tx
  <2>3. /\ o.image \in Images /\ Sound(o.image) /\ LogSound(o.image) /\ Exportable(o.image)
        /\ Extends(d, o.image)
        /\ o.children \in Seq(Nat) /\ o.snapshots \in Seq(Snapshots)
        /\ Len(o.image.events) = Len(d.events) + Len(req.ops)
        /\ \A i \in 1..Len(o.snapshots) : o.snapshots[i].rec \in Stored(o.image)
    BY <2>2 DEF Reached, Kept, Outputs
  <2>4. Fresh(o.image, req.key)
    <3>1. \A n \in 1..Len(req.ops) : req.ops[n].key # req.key
      BY <1>2, <1>4 DEF WellKeyed
    <3> QED
      BY <1>2, <2>2, <3>1 DEF Reached, Fresh
  <2>5. e \in Images /\ Sound(e)
    BY <1>1, <1>2, <2>1, <2>3, ClosedSound
  <2>6. LogSound(e)
    BY <1>1, <1>2, <2>1, <2>3, <2>4, ClosedLogSound
  <2>7. Exportable(e)
    BY <1>1, <1>2, <2>1, <2>3, ClosedExportable
  <2>8. Extends(o.image, e)
    BY <1>2, <2>1, <2>3, <2>4, ClosedExtends
  <2>9. Extends(d, e)
    BY <1>1, <2>3, <2>5, <2>8, ExtendsTransitive
  <2>10. Len(e.events) = Len(o.image.events) + 1
    <3>1. e.events = Append(o.image.events, ClosingEvent(req, tx, o.children))
      BY <2>1 DEF Closed
    <3>2. o.image.events \in Seq(Events)
      BY <2>3 DEF Images
    <3> QED
      BY <3>1, <3>2
  <2>11. \A k \in Keys \ KeysOf(req) : e.idem[k] = d.idem[k]
    <3> SUFFICES ASSUME NEW k \in Keys \ KeysOf(req) PROVE e.idem[k] = d.idem[k]
      OBVIOUS
    <3>1. k # req.key /\ \A n \in 1..Len(req.ops) : req.ops[n].key # k
      BY DEF KeysOf
    <3>2. o.image.idem[k] = d.idem[k]
      BY <2>2, <3>1 DEF Reached
    <3>3. e.idem[k] = o.image.idem[k]
      BY <2>1, <2>3, <3>1 DEF Closed, Images
    <3> QED
      BY <3>2, <3>3
  <2> QED
    BY <1>1, <1>2, <2>3, <2>5, <2>6, <2>7, <2>9, <2>10, <2>11, SMTT(60) DEF Kept, Images
<1>5. CASE req.kind = "ensure"
  <2>1. e = Ensured(d, req, tx)
    BY <1>5 DEF Performed
  <2> HIDE DEF tx
  <2>2. e \in Images /\ Sound(e) /\ Extends(d, e)
    BY <1>1, <1>2, <2>1, EnsuredSound
  <2>3. LogSound(e)
    BY <1>1, <1>2, <2>1, EnsuredLogSound
  <2>4. Exportable(e)
    BY <1>1, <1>2, <2>1, EnsuredExportable
  <2>5. Len(e.events) = Len(d.events) + 1
    BY <1>1, <1>2, <2>1, EnsuredLeaves
  <2>6. \A k \in Keys \ KeysOf(req) : e.idem[k] = d.idem[k]
    <3> SUFFICES ASSUME NEW k \in Keys \ KeysOf(req) PROVE e.idem[k] = d.idem[k]
      OBVIOUS
    <3>1. k # req.key
      BY DEF KeysOf
    <3>2. e.idem = [d.idem EXCEPT ![req.key] = e.idem[req.key]]
      BY <1>1, <1>2, <2>1 DEF Ensured, Closed, Evolved, Images
    <3> QED
      BY <1>1, <3>1, <3>2 DEF Images
  <2> QED
    BY <1>1, <2>2, <2>3, <2>4, <2>5, <2>6 DEF Kept, Images
<1>6. req.kind \in {"record", "transaction", "ensure"}
  BY <1>2 DEF Requests
<1> QED
  BY <1>3, <1>4, <1>5, <1>6

LEMMA RequestedKept ==
  ASSUME NEW d, Kept(d), NEW requests, NEW additions, NEW schema,
         AcceptableCalls(requests, additions, schema),
         NEW e \in Requested(d, requests, additions)
  PROVE  /\ Kept(e)
         /\ Extends(d, e)
         /\ additions = {} => Len(d.events) < Len(e.events)
         /\ \A k \in Keys : (\A req \in requests : k \notin KeysOf(req)) =>
              e.idem[k] = d.idem[k]
<1>1. CASE \E req \in requests : MayPerform(d, req) /\ e \in Performed(d, req)
  <2>1. PICK req \in requests : MayPerform(d, req) /\ e \in Performed(d, req)
    BY <1>1
  <2>2. Acceptable(req)
    BY DEF AcceptableCalls
  <2> QED
    BY <2>1, <2>2, PerformedKept
<1>2. CASE \E adds \in additions :
              /\ MayAddFields(CurrentSchema(d), adds)
              /\ e = Evolved(d, WithFields(CurrentSchema(d), adds))
  <2>1. PICK adds \in additions : e = Evolved(d, WithFields(CurrentSchema(d), adds))
    BY <1>2
  <2>2. WithFields(CurrentSchema(d), adds) \in Schemas
    BY CurrentSchemaType, WithFieldsType DEF Kept, AcceptableCalls
  <2>3. e \in Images /\ Sound(e) /\ LogSound(e) /\ Exportable(e) /\ Extends(d, e)
    BY <2>1, <2>2, EvolvedSound, EvolvedLogSound, EvolvedExportable, EvolvedExtends DEF Kept
  <2>4. e.idem = d.idem
    BY <2>1 DEF Evolved
  <2> QED
    BY <2>1, <2>3, <2>4 DEF Kept
<1> QED
  BY <1>1, <1>2, RequestedCases

(***************************************************************************)
(* Whole requests leave whole blocks, and schemas that lose no field.      *)
(***************************************************************************)
\* After n mutations the log has n more events of the transaction, and these
\* are its children.
BlockBegun(d, tx, n, o) ==
  /\ \A i \in 1..n : /\ o.image.events[Len(d.events) + i].tx = tx
                     /\ o.image.events[Len(d.events) + i].op # "data.transaction.execute"
  /\ o.children = [k \in 1..n |-> Len(d.events) + k]

LEMMA ContinuedBlock ==
  ASSUME NEW d, Kept(d), NEW req, Acceptable(req), NEW tx \in Nat,
         NEW n \in 1..Len(req.ops), NEW o \in Outputs, NEW r \in Ids,
         Goes(o, req.ops[n], r), Reached(d, req, n - 1, o), BlockBegun(d, tx, n - 1, o)
  PROVE  BlockBegun(d, tx, n, Continued(o, req.ops[n], r, req.actor, tx))
<1> DEFINE m == req.ops[n]
           resolved == Resolved(o.image, m, o.refs)
           image == Mutated(o.image, resolved, r, req.actor, tx)
           c == Continued(o, m, r, req.actor, tx)
           len == Len(d.events)
<1>1. m \in Mutations /\ req.actor \in Actors /\ n \in Nat \ {0}
  BY AcceptableType
<1>2. /\ Kept(o.image) /\ o.image \in Images
      /\ Resolvable(o.image, m, o.refs) /\ MayMutate(o.image, resolved, r)
      /\ o.refs \in [Markers -> Ids \cup {Nil}]
      /\ Len(o.image.events) = len + (n - 1) /\ len \in Nat
  <2>1. Resolvable(o.image, m, o.refs) /\ MayMutate(o.image, resolved, r)
    BY DEF Goes
  <2>2. Kept(o.image) /\ Len(o.image.events) = len + (n - 1)
    BY DEF Reached
  <2>3. o.image \in Images /\ o.refs \in [Markers -> Ids \cup {Nil}]
    BY DEF Outputs
  <2>4. len \in Nat
    BY DEF Kept, Images
  <2> QED
    BY <2>1, <2>2, <2>3, <2>4
<1>3. resolved \in Mutations /\ resolved.op = m.op
  BY <1>1, <1>2, ResolvedType, ResolvedSame
<1>4. /\ Len(image.events) = len + n
      /\ image.events[len + n].tx = tx
      /\ image.events[len + n].op = m.op
  <2>1. o.image \in Images /\ resolved \in Mutations /\ MayMutate(o.image, resolved, r)
    BY <1>2, <1>3
  <2>2. /\ Len(image.events) = Len(o.image.events) + 1
        /\ image.events[Len(o.image.events) + 1].tx = tx
        /\ image.events[Len(o.image.events) + 1].op = resolved.op
    <3>1. ASSUME NEW x \in Images, NEW y \in Mutations, MayMutate(x, y, r)
          PROVE  LET e == Mutated(x, y, r, req.actor, tx)
                 IN  /\ Len(e.events) = Len(x.events) + 1
                     /\ e.events[Len(x.events) + 1].tx = tx
                     /\ e.events[Len(x.events) + 1].op = y.op
      BY <3>1, MutatedLeaves
    <3>2. PICK x : x = o.image
      OBVIOUS
    <3>3. PICK y : y = resolved
      OBVIOUS
    <3>4. x \in Images /\ y \in Mutations /\ MayMutate(x, y, r)
          /\ image = Mutated(x, y, r, req.actor, tx)
      BY <2>1, <3>2, <3>3
    <3> HIDE DEF image, resolved
    <3>5. /\ Len(image.events) = Len(x.events) + 1
          /\ image.events[Len(x.events) + 1].tx = tx
          /\ image.events[Len(x.events) + 1].op = y.op
      BY <3>1, <3>4
    <3> QED
      BY <3>2, <3>3, <3>5
  <2>3. Len(o.image.events) + 1 = len + n
    BY <1>1, <1>2
  <2> HIDE DEF image, resolved
  <2> QED
    BY <1>3, <2>2, <2>3
<1>5. \A i \in 1..(len + n - 1) : image.events[i] = o.image.events[i]
  <2>1. Extends(o.image, image)
    BY <1>1, <1>2, <1>3, MutatedSound DEF Kept
  <2> QED
    BY <1>1, <1>2, <2>1 DEF Extends
<1>6. c.image = image /\ c.children = Append(o.children, Len(image.events))
  <2>1. c = [ok        |-> TRUE,
             image     |-> image,
             refs      |-> Bind(o.refs, m, r),
             children  |-> Append(o.children, Len(image.events)),
             snapshots |-> Append(o.snapshots, [rec |-> r, row |-> image.records[r]])]
    BY ContinuedGoes
  <2> HIDE DEF image, c
  <2> QED
    BY <2>1
<1>7. m.op # "data.transaction.execute"
  BY <1>1 DEF Mutations, MutationOps
<1> HIDE DEF m, resolved, image, c
<1>8. ASSUME NEW i \in 1..n
      PROVE  image.events[len + i].tx = tx
             /\ image.events[len + i].op # "data.transaction.execute"
  <2>1. CASE i = n
    BY <1>4, <1>7, <2>1
  <2>2. CASE i # n
    <3>1. i \in 1..(n - 1) /\ len + i \in 1..(len + n - 1)
      BY <1>1, <1>2, <2>2
    <3> QED
      BY <1>5, <3>1 DEF BlockBegun
  <2> QED
    BY <2>1, <2>2
<1>9. c.children = [k \in 1..n |-> len + k]
  <2>1. n - 1 \in Nat /\ Len(image.events) = len + (n - 1) + 1 /\ (n - 1) + 1 = n
    BY <1>1, <1>2, <1>4
  <2>2. Append([k \in 1..(n - 1) |-> len + k], len + (n - 1) + 1)
          = [k \in 1..((n - 1) + 1) |-> len + k]
    BY <1>2, <2>1, AppendedRun
  <2> QED
    BY <1>6, <2>1, <2>2 DEF BlockBegun
<1>10. BlockBegun(d, tx, n, c)
  BY <1>6, <1>8, <1>9 DEF BlockBegun
<1> QED
  BY <1>10 DEF c, m

LEMMA OutcomeBlock ==
  ASSUME NEW d, Kept(d), NEW req, Acceptable(req), NEW tx \in Nat,
         NEW o \in Outcomes(d, req, tx)
  PROVE  BlockBegun(d, tx, Len(req.ops), o)
<1> DEFINE T == {x \in Nat \X Outputs :
                   x[2].ok => Reached(d, req, x[1], x[2]) /\ BlockBegun(d, tx, x[1], x[2])}
<1>1. PICK recs \in [1..Len(req.ops) -> Ids] : o = Outcome(d, req, recs, tx) /\ o.ok
  BY DEF Outcomes
<1>2. <<0, Begun(d)>> \in T
  <2>1. BlockBegun(d, tx, 0, Begun(d))
    BY DEF BlockBegun, Begun
  <2> QED
    BY <2>1, BegunReached
<1>3. ASSUME NEW n \in 1..Len(req.ops), NEW x, <<n - 1, x>> \in T
      PROVE  <<n, Continued(x, req.ops[n], recs[n], req.actor, tx)>> \in T
  <2> DEFINE c == Continued(x, req.ops[n], recs[n], req.actor, tx)
  <2>1. /\ x \in Outputs /\ n \in Nat /\ recs[n] \in Ids
        /\ x.ok => Reached(d, req, n - 1, x) /\ BlockBegun(d, tx, n - 1, x)
    BY <1>1, <1>3, AcceptableType
  <2>2. c \in Outputs /\ (c.ok => Reached(d, req, n, c))
    BY <2>1, ContinuedReached
  <2>3. ASSUME c.ok PROVE BlockBegun(d, tx, n, c)
    <3>1. Goes(x, req.ops[n], recs[n])
      BY <2>1, <2>3, ContinuedFails DEF Outputs
    <3>2. x.ok
      BY <3>1 DEF Goes
    <3> QED
      BY <2>1, <3>1, <3>2, ContinuedBlock
  <2> HIDE DEF c
  <2>4. <<n, c>> \in T
    BY <2>1, <2>2, <2>3
  <2> QED
    BY <2>4 DEF c
<1>4. Len(req.ops) \in Nat
  BY AcceptableType
<1>5. <<Len(req.ops), o>> \in T
  <2> HIDE DEF T
  <2> QED
    BY <1>1, <1>2, <1>3, <1>4, OutcomeInduction
<1> QED
  BY <1>1, <1>5

\* The events of a transaction and its closing event, after whole blocks.
LEMMA ClosedBlocks ==
  ASSUME NEW d \in Images, BlocksWhole(d), NEW e \in Images, Extends(d, e),
         NEW n \in Nat, Len(e.events) = Len(d.events) + n,
         NEW tx, tx = Len(d.events) + 1,
         \A i \in 1..n : /\ e.events[Len(d.events) + i].tx = tx
                         /\ e.events[Len(d.events) + i].op # "data.transaction.execute",
         NEW req \in Requests, NEW snapshots,
         NEW g \in Images,
         g = Closed(e, req, tx, [k \in 1..n |-> Len(d.events) + k], snapshots)
  PROVE  BlocksWhole(g)
<1> DEFINE len == Len(d.events)
           children == [k \in 1..n |-> len + k]
           last == len + n + 1
<1>1. len \in Nat /\ tx = len + 1 /\ last \in Nat
  BY DEF Images
<1>2. /\ Len(g.events) = last
      /\ g.events[last] = ClosingEvent(req, tx, children)
      /\ \A i \in 1..(len + n) : g.events[i] = e.events[i]
  <2>1. Len(e.events) = len + n /\ last = Len(e.events) + 1
    OBVIOUS
  <2> HIDE DEF children, len, last
  <2>2. g = Closed(e, req, tx, children, snapshots)
    BY DEF children, len
  <2> QED
    BY <2>1, <2>2, ClosedLeaves
<1>3. \A i \in 1..len : g.events[i] = d.events[i]
  BY <1>1, <1>2, SMTT(60) DEF Extends
<1>4. \A i \in (len + 1)..(len + n) :
        g.events[i].tx = tx /\ g.events[i].op # "data.transaction.execute"
  <2> SUFFICES ASSUME NEW i \in (len + 1)..(len + n)
               PROVE  g.events[i].tx = tx /\ g.events[i].op # "data.transaction.execute"
    OBVIOUS
  <2>1. i - len \in 1..n /\ i = len + (i - len) /\ i \in 1..(len + n)
    BY <1>1
  <2> QED
    BY <1>2, <2>1
<1>5. /\ g.events[last].tx = tx
      /\ g.events[last].op = "data.transaction.execute"
      /\ g.events[last].children = children
  BY <1>2 DEF ClosingEvent
<1>6. children = [k \in 1..(last - tx) |-> tx + k - 1]
  BY <1>1
<1> HIDE DEF children
<1>7. ClosesBlock(g, tx, last)
  <2>1. \A i \in tx..last : g.events[i].tx = tx
    <3> SUFFICES ASSUME NEW i \in tx..last PROVE g.events[i].tx = tx
      OBVIOUS
    <3> HIDE DEF len, last
    <3>1. i = last \/ i \in (len + 1)..(len + n)
      BY <1>1 DEF last
    <3> QED
      BY <1>4, <1>5, <3>1
  <2>2. \A i \in tx..(last - 1) : g.events[i].op # "data.transaction.execute"
    BY <1>1, <1>4
  <2> QED
    BY <1>5, <1>6, <2>1, <2>2 DEF ClosesBlock
<1>8. ASSUME NEW i \in (len + 1)..Len(g.events), g.events[i].tx # 0
      PROVE  \E j \in i..Len(g.events) :
               g.events[i].tx <= i /\ ClosesBlock(g, g.events[i].tx, j)
  <2>1. i = last \/ i \in (len + 1)..(len + n)
    BY <1>1, <1>2
  <2>2. g.events[i].tx = tx
    BY <1>4, <1>5, <2>1
  <2>3. tx <= i /\ last \in i..Len(g.events)
    BY <1>1, <1>2, <2>1
  <2> QED
    BY <1>7, <2>2, <2>3
<1>9. len <= Len(g.events)
  BY <1>1, <1>2
<1> QED
  BY <1>3, <1>8, <1>9, BlocksExtended

LEMMA PerformedBlocks ==
  ASSUME NEW d, Kept(d), BlocksWhole(d), NEW req, Acceptable(req), MayPerform(d, req),
         NEW e \in Performed(d, req)
  PROVE  BlocksWhole(e)
<1> DEFINE tx == Len(d.events) + 1
<1>1. /\ d \in Images /\ tx \in Nat /\ Len(d.events) \in Nat
      /\ req \in Requests /\ Len(req.ops) \in Nat
      /\ e \in Images /\ Extends(d, e)
  <2>1. d \in Images /\ tx \in Nat /\ Len(d.events) \in Nat
    BY DEF Kept, Images
  <2>2. Kept(e) /\ Extends(d, e)
    BY PerformedKept
  <2> QED
    BY <2>1, <2>2, AcceptableType DEF Kept
<1>2. CASE req.kind = "record"
  <2>1. PICK o \in Outcomes(d, req, 0) : e = o.image
    BY <1>2 DEF Performed
  <2>2. BlockBegun(d, 0, Len(req.ops), o)
    BY OutcomeBlock
  <2>3. Len(e.events) = Len(d.events) + Len(req.ops)
    BY <2>1, OutcomeReached, ZenonT(60) DEF Reached
  <2> DEFINE len == Len(d.events)
             total == Len(e.events)
             count == Len(req.ops)
  <2>4. len \in Nat /\ count \in Nat /\ total = len + count
    BY <1>1, <2>3
  <2>5. ASSUME NEW i \in (Len(d.events) + 1)..Len(e.events) PROVE e.events[i].tx = 0
    <3>1. i - len \in 1..count /\ len + (i - len) = i
      <4> HIDE DEF len, total, count
      <4>1. i \in (len + 1)..total
        BY DEF len, total
      <4> QED
        BY <2>4, <4>1
    <3> QED
      BY <2>1, <2>2, <3>1 DEF BlockBegun
  <2>6. Len(d.events) <= Len(e.events) /\ \A i \in 1..Len(d.events) : e.events[i] = d.events[i]
    BY <1>1 DEF Extends
  <2> QED
    BY <1>1, <2>5, <2>6, BlocksExtended
<1>3. CASE req.kind = "transaction"
  <2>1. PICK o \in Outcomes(d, req, tx) :
          e = Closed(o.image, req, tx, o.children, o.snapshots)
    BY <1>3 DEF Performed
  <2> HIDE DEF tx
  <2>2. /\ BlockBegun(d, tx, Len(req.ops), o)
        /\ o \in Outputs /\ Reached(d, req, Len(req.ops), o)
    BY <1>1, OutcomeBlock, OutcomeReached
  <2>3. /\ o.image \in Images /\ Extends(d, o.image)
        /\ Len(o.image.events) = Len(d.events) + Len(req.ops)
    BY <2>2 DEF Reached, Outputs
  <2>4. /\ \A i \in 1..Len(req.ops) :
             /\ o.image.events[Len(d.events) + i].tx = tx
             /\ o.image.events[Len(d.events) + i].op # "data.transaction.execute"
        /\ e = Closed(o.image, req, tx, [k \in 1..Len(req.ops) |-> Len(d.events) + k],
                      o.snapshots)
    BY <2>1, <2>2 DEF BlockBegun
  <2>5. tx = Len(d.events) + 1
    BY DEF tx
  <2> QED
    BY <1>1, <2>3, <2>4, <2>5, ClosedBlocks
<1>4. CASE req.kind = "ensure"
  <2>1. e = Ensured(d, req, tx)
    BY <1>4 DEF Performed
  <2> HIDE DEF tx
  <2>2. /\ Len(e.events) = Len(d.events) + 1
        /\ e.events[Len(d.events) + 1] = ClosingEvent(req, tx, <<>>)
        /\ \A i \in 1..Len(d.events) : e.events[i] = d.events[i]
    BY <1>1, <2>1, EnsuredLeaves, SMTT(60)
  <2>3. tx = Len(d.events) + 1
    BY DEF tx
  <2>4. /\ e.events[tx].tx = tx /\ e.events[tx].op = "data.transaction.execute"
        /\ e.events[tx].children = <<>>
    BY <2>2, <2>3 DEF ClosingEvent
  <2>5. ClosesBlock(e, tx, tx)
    <3>1. <<>> = [n \in 1..(tx - tx) |-> tx + n - 1]
      BY <1>1
    <3>2. tx..tx = {tx} /\ tx..(tx - 1) = {}
      BY <1>1
    <3> QED
      BY <2>4, <3>1, <3>2 DEF ClosesBlock
  <2>6. ASSUME NEW i \in (Len(d.events) + 1)..Len(e.events)
        PROVE  \E j \in i..Len(e.events) :
                 e.events[i].tx <= i /\ ClosesBlock(e, e.events[i].tx, j)
    <3>1. i = tx /\ i \in i..Len(e.events) /\ tx <= i
      BY <1>1, <2>2, <2>3
    <3> QED
      BY <2>4, <2>5, <3>1
  <2>7. Len(d.events) <= Len(e.events)
    BY <1>1, <2>2
  <2> QED
    BY <1>1, <2>2, <2>6, <2>7, BlocksExtended
<1>5. req.kind \in {"record", "transaction", "ensure"}
  BY <1>1 DEF Requests
<1> QED
  BY <1>2, <1>3, <1>4, <1>5

LEMMA RequestedBlocks ==
  ASSUME NEW d, Kept(d), BlocksWhole(d), NEW requests, NEW additions, NEW schema,
         AcceptableCalls(requests, additions, schema),
         NEW e \in Requested(d, requests, additions)
  PROVE  BlocksWhole(e)
<1>1. CASE \E req \in requests : MayPerform(d, req) /\ e \in Performed(d, req)
  BY <1>1, PerformedBlocks DEF AcceptableCalls
<1>2. CASE \E adds \in additions :
              /\ MayAddFields(CurrentSchema(d), adds)
              /\ e = Evolved(d, WithFields(CurrentSchema(d), adds))
  <2>1. e.events = d.events
    BY <1>2 DEF Evolved
  <2> QED
    BY <2>1 DEF BlocksWhole, ClosesBlock
<1> QED
  BY <1>1, <1>2, RequestedCases

\* The callers add at most one schema version, and it keeps the fields of the
\* one before.
OneSchemaMore(d, e) ==
  \/ e.schemas = d.schemas
  \/ \E schema \in Schemas :
       e.schemas = Append(d.schemas, schema) /\ KeepsFields(CurrentSchema(d), schema)

LEMMA RequestedSchemas ==
  ASSUME NEW d, Kept(d), NEW requests, NEW additions, NEW schema,
         AcceptableCalls(requests, additions, schema),
         NEW e \in Requested(d, requests, additions)
  PROVE  OneSchemaMore(d, e)
<1>1. d \in Images /\ CurrentSchema(d) \in Schemas
  BY CurrentSchemaType DEF Kept
<1>2. CASE \E req \in requests : MayPerform(d, req) /\ e \in Performed(d, req)
  <2>1. PICK req \in requests : MayPerform(d, req) /\ e \in Performed(d, req)
    BY <1>2
  <2>2. Acceptable(req) /\ req \in Requests
    BY AcceptableType DEF AcceptableCalls
  <2>3. CASE req.kind = "record"
    <3>1. PICK o \in Outcomes(d, req, 0) : e = o.image
      BY <2>1, <2>3 DEF Performed
    <3>2. Reached(d, req, Len(req.ops), o)
      BY <2>2, OutcomeReached
    <3> QED
      BY <3>1, <3>2 DEF Reached, OneSchemaMore
  <2>4. CASE req.kind = "transaction"
    <3> DEFINE tx == Len(d.events) + 1
    <3>1. PICK o \in Outcomes(d, req, tx) :
            e = Closed(o.image, req, tx, o.children, o.snapshots)
      BY <2>1, <2>4 DEF Performed
    <3>2. tx \in Nat
      BY <1>1 DEF Images
    <3> HIDE DEF tx
    <3>3. Reached(d, req, Len(req.ops), o)
      BY <2>2, <3>2, OutcomeReached
    <3>4. o.image.schemas = d.schemas
      BY <3>3 DEF Reached
    <3> QED
      BY <3>1, <3>4 DEF Closed, OneSchemaMore
  <2>5. CASE req.kind = "ensure"
    <3> DEFINE missing == Missing(CurrentSchema(d), req.adds)
               wider == WithFields(CurrentSchema(d), missing)
    <3>1. e = Ensured(d, req, Len(d.events) + 1) /\ MayEnsure(d, req)
      BY <2>1, <2>5 DEF Performed, MayPerform
    <3>2. wider \in Schemas /\ KeepsFields(CurrentSchema(d), wider)
      BY <1>1, <2>2, <3>1, MissingType, WithFieldsType, WithFieldsKeeps DEF MayEnsure, Requests
    <3>3. e.schemas = d.schemas \/ e.schemas = Append(d.schemas, wider)
      BY <3>1 DEF Ensured, Closed, Evolved
    <3> QED
      BY <3>2, <3>3 DEF OneSchemaMore
  <2> QED
    BY <2>2, <2>3, <2>4, <2>5 DEF Requests
<1>3. CASE \E adds \in additions :
              /\ MayAddFields(CurrentSchema(d), adds)
              /\ e = Evolved(d, WithFields(CurrentSchema(d), adds))
  <2>1. PICK adds \in additions : /\ MayAddFields(CurrentSchema(d), adds)
                                  /\ e = Evolved(d, WithFields(CurrentSchema(d), adds))
    BY <1>3
  <2>2. adds \in Schemas
    BY DEF AcceptableCalls
  <2>3. WithFields(CurrentSchema(d), adds) \in Schemas
    BY <1>1, <2>2, WithFieldsType
  <2> QED
    BY <2>1, <2>3, WithFieldsKeeps DEF Evolved, OneSchemaMore
<1> QED
  BY <1>2, <1>3, RequestedCases

\* The first image holds no record.
LEMMA EmptyImageSound ==
  ASSUME NEW schema \in Schemas
  PROVE  EmptyImage(schema) \in Images /\ Sound(EmptyImage(schema))
<1> DEFINE d == EmptyImage(schema)
<1>1. d \in Images
  <2>1. <<schema>> \in Seq(Schemas) \ {<<>>}
    OBVIOUS
  <2>2. [r \in Ids |-> NoRefs] \in [Ids -> [Fields -> Ids \cup {Nil}]]
    BY NoRefsType
  <2>3. <<>> \in Seq(Events)
    OBVIOUS
  <2> QED
    BY <2>1, <2>2, <2>3 DEF EmptyImage, Images
<1>2. /\ \A r \in Ids : d.records[r] = Nil
      /\ \A r \in Ids : d.relations[r] = NoRefs
      /\ \A r \in Ids, f \in Fields : d.relations[r][f] = Nil
  BY DEF EmptyImage, NoRefs
<1> HIDE DEF d
<1>3. Sound(d)
  BY <1>2 DEF Sound, RelationsExact, NoDangling, Hydrates, Active
<1> QED
  BY <1>1, <1>3 DEF d

LEMMA EmptyKept ==
  ASSUME NEW schema \in Schemas
  PROVE  Kept(EmptyImage(schema))
  BY EmptyImageSound, EmptyLogSound, EmptyExportable DEF Kept
==============================================================================
