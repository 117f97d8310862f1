------------------------ MODULE ReviewedChangesProofs ------------------------
(***************************************************************************)
(* Theorems about the changes that are reviewed by a digest before they    *)
(* are made: BulkOperations in the first half, SchemaMigrations in the     *)
(* second, for any number of records, requests, proposals, processes and   *)
(* other callers.  The two are specifications of their own on the same     *)
(* tables; what is proved of images serves both.                           *)
(***************************************************************************)
EXTENDS BulkOperations, SchemaMigrations, DataStoreProofs

(***************************************************************************)
(* How records move.                                                       *)
(***************************************************************************)
\* Between image d and a later one a record is left alone, or it is of a later
\* version; if it is active then, it was written under a schema at least as new
\* as that of d.
Moves(d, e) ==
  /\ SchemaVersion(d) <= SchemaVersion(e)
  /\ \A r \in Ids : e.records[r] # d.records[r] =>
       /\ e.records[r] # Nil
       /\ d.records[r] # Nil => d.records[r].version < e.records[r].version
       /\ ~e.records[r].deleted => e.records[r].schemaVersion >= SchemaVersion(d)

LEMMA RowNumbers ==
  ASSUME NEW d \in Images, NEW r \in Ids, d.records[r] # Nil
  PROVE  /\ d.records[r] \in Rows
         /\ d.records[r].version \in Nat /\ d.records[r].schemaVersion \in Nat
         /\ d.records[r].deleted \in BOOLEAN
<1>1. d.records[r] \in Rows
  BY DEF Images
<1> QED
  BY <1>1 DEF Rows

LEMMA MovesReflexive ==
  ASSUME NEW d \in Images
  PROVE  Moves(d, d)
  BY CurrentSchemaType DEF Moves

LEMMA MovesTransitive ==
  ASSUME NEW d \in Images, NEW e \in Images, NEW g \in Images, Moves(d, e), Moves(e, g)
  PROVE  Moves(d, g)
<1>1. SchemaVersion(d) \in Nat /\ SchemaVersion(e) \in Nat /\ SchemaVersion(g) \in Nat
  BY CurrentSchemaType
<1>2. SchemaVersion(d) <= SchemaVersion(e) /\ SchemaVersion(e) <= SchemaVersion(g)
  BY DEF Moves
<1>3. ASSUME NEW r \in Ids, g.records[r] # d.records[r]
      PROVE  /\ g.records[r] # Nil
             /\ d.records[r] # Nil => d.records[r].version < g.records[r].version
             /\ ~g.records[r].deleted => g.records[r].schemaVersion >= SchemaVersion(d)
  <2>1. CASE g.records[r] = e.records[r]
    BY <1>3, <2>1 DEF Moves
  <2>2. CASE g.records[r] # e.records[r]
    <3>1. /\ g.records[r] # Nil
          /\ e.records[r] # Nil => e.records[r].version < g.records[r].version
          /\ ~g.records[r].deleted => g.records[r].schemaVersion >= SchemaVersion(e)
      BY <2>2 DEF Moves
    <3>2. g.records[r].version \in Nat /\ g.records[r].schemaVersion \in Nat
      BY <3>1, RowNumbers
    <3>3. ASSUME d.records[r] # Nil
          PROVE  d.records[r].version < g.records[r].version
      <4>1. e.records[r] # Nil /\ d.records[r].version <= e.records[r].version
        <5>1. CASE e.records[r] = d.records[r]
          BY <3>3, <5>1, RowNumbers
        <5>2. CASE e.records[r] # d.records[r]
          <6>1. e.records[r] # Nil /\ d.records[r].version < e.records[r].version
            BY <3>3, <5>2 DEF Moves
          <6> QED
            BY <3>3, <6>1, RowNumbers
        <5> QED
          BY <5>1, <5>2
      <4>2. d.records[r].version \in Nat /\ e.records[r].version \in Nat
        BY <3>3, <4>1, RowNumbers
      <4> QED
        BY <3>1, <3>2, <4>1, <4>2
    <3> QED
      BY <1>1, <1>2, <3>1, <3>2, <3>3
  <2> QED
    BY <2>1, <2>2
<1>4. SchemaVersion(d) <= SchemaVersion(g)
  BY <1>1, <1>2
<1> QED
  BY <1>3, <1>4 DEF Moves

\* The row that mutation m has written, as far as its digest tells, when the
\* request it belongs to was begun on image d.
Shows(d, m, row) ==
  /\ row.version = IF m.op = "data.record.create" THEN 1 ELSE m.expected + 1
  /\ row.deleted = (m.op = "data.record.delete")
  /\ row.schemaVersion <= SchemaVersion(d)
  /\ m.op # "data.record.delete" => row.schemaVersion = SchemaVersion(d)
  /\ m.op = "data.record.delete" => m.rec \in Ids
  /\ m.op = "data.record.delete" =>
       \/ /\ Active(d, m.rec)
          /\ d.records[m.rec].version = m.expected
          /\ d.records[m.rec].schemaVersion = row.schemaVersion
       \/ /\ row.schemaVersion >= SchemaVersion(d)
          /\ d.records[m.rec] # Nil => d.records[m.rec].version # m.expected

\* One mutation moves its record.
LEMMA MutatedMoves ==
  ASSUME NEW d \in Images, NEW m \in Mutations, NEW r \in Ids, NEW actor \in Actors,
         NEW tx, MayMutate(d, m, r), NEW e \in Images, e = Mutated(d, m, r, actor, tx)
  PROVE  /\ Moves(d, e)
         /\ e.records[r].version = IF m.op = "data.record.create" THEN 1 ELSE m.expected + 1
         /\ e.records[r].deleted = (m.op = "data.record.delete")
         /\ m.op # "data.record.delete" => e.records[r].schemaVersion = SchemaVersion(d)
         /\ m.op = "data.record.delete" =>
              /\ r = m.rec /\ Active(d, r) /\ d.records[r].version = m.expected
              /\ e.records[r].schemaVersion = d.records[r].schemaVersion
<1>1. d.records \in [Ids -> Rows \cup {Nil}] /\ SchemaVersion(d) \in Nat
  BY CurrentSchemaType DEF Images
<1>2. e.schemas = d.schemas
  BY MutatedSchemas
<1>3. ASSUME NEW row, NEW refs, e = Written(d, r, row, refs, m, actor, tx),
             row # Nil,
             d.records[r] # Nil => d.records[r].version < row.version,
             ~row.deleted => row.schemaVersion >= SchemaVersion(d)
      PROVE  Moves(d, e) /\ e.records[r] = row
  <2>1. e.records = [d.records EXCEPT ![r] = row]
    BY <1>3 DEF Written
  <2>2. e.records[r] = row /\ \A t \in Ids : t # r => e.records[t] = d.records[t]
    BY <1>1, <2>1
  <2>3. SchemaVersion(d) <= SchemaVersion(e)
    BY <1>1, <1>2 DEF SchemaVersion
  <2> QED
    BY <1>3, <2>2, <2>3 DEF Moves
<1>4. CASE MayCreate(d, m, r)
  <2> DEFINE row == CreatedRow(d, m, actor)
  <2>1. e = Written(d, r, row, RefsOf(CurrentSchema(d), row.data), m, actor, tx)
        /\ d.records[r] = Nil /\ m.op = "data.record.create"
    BY <1>4 DEF MayCreate, Mutated, Created
  <2>2. row.version = 1 /\ ~row.deleted /\ row.schemaVersion = SchemaVersion(d)
        /\ row.deleted = FALSE
    BY DEF CreatedRow
  <2>3. row # Nil
    BY CreatedRowType, DistinctValues
  <2> HIDE DEF row
  <2>4. Moves(d, e) /\ e.records[r] = row
    BY <1>1, <1>3, <2>1, <2>2, <2>3
  <2> QED
    BY <2>1, <2>2, <2>4
<1>5. CASE r = m.rec /\ MayUpdate(d, m)
  <2> DEFINE row == UpdatedRow(d, m, actor)
  <2>1. e = Written(d, r, row, RefsOf(CurrentSchema(d), row.data), m, actor, tx)
        /\ Active(d, r) /\ d.records[r].version = m.expected /\ m.op = "data.record.update"
    BY <1>5 DEF MayUpdate, Mutated, Updated, VersionMatches
  <2>2. row.version = d.records[r].version + 1 /\ row.deleted = FALSE
        /\ row.schemaVersion = SchemaVersion(d)
    BY <1>5 DEF UpdatedRow
  <2>3. row # Nil
    BY <1>5, UpdatedRowType, DistinctValues DEF MayUpdate, Active
  <2>4. d.records[r].version \in Nat
    BY <2>1, RowNumbers DEF Active
  <2> HIDE DEF row
  <2>5. d.records[r].version < row.version
    BY <2>2, <2>4
  <2>6. Moves(d, e) /\ e.records[r] = row
    BY <1>1, <1>3, <2>1, <2>2, <2>3, <2>5
  <2> QED
    BY <2>1, <2>2, <2>6
<1>6. CASE r = m.rec /\ MayDelete(d, m)
  <2> DEFINE row == DeletedRow(d, m, actor)
  <2>1. e = Written(d, r, row, NoRefs, m, actor, tx)
        /\ Active(d, r) /\ d.records[r].version = m.expected /\ m.op = "data.record.delete"
    BY <1>6 DEF MayDelete, Mutated, Deleted, VersionMatches
  <2>2. row.version = d.records[r].version + 1 /\ row.deleted = TRUE
        /\ row.schemaVersion = d.records[r].schemaVersion
    BY <1>6 DEF DeletedRow
  <2>3. d.records[r] \in Rows
    BY <2>1, RowNumbers DEF Active
  <2>4. row \in Rows /\ row # Nil /\ d.records[r].version \in Nat
    <3>1. row \in Rows /\ d.records[r].version \in Nat
      BY <1>6, <2>3 DEF DeletedRow, Rows
    <3> QED
      BY <3>1, DistinctValues
  <2> HIDE DEF row
  <2>5. d.records[r].version < row.version
    BY <2>2, <2>4
  <2>6. Moves(d, e) /\ e.records[r] = row
    BY <1>1, <1>3, <2>1, <2>2, <2>4, <2>5
  <2> QED
    BY <1>6, <2>1, <2>2, <2>6
<1> QED
  BY <1>4, <1>5, <1>6 DEF MayMutate

\* The outcome of the first n mutations shows each of them.
Shown(d, req, n, o) ==
  /\ Moves(d, o.image)
  /\ \A i \in 1..n : Shows(d, req.ops[i], o.snapshots[i].row)

LEMMA MutationShows ==
  ASSUME NEW d, Kept(d), NEW i, Kept(i), Moves(d, i), i.schemas = d.schemas,
         NEW m \in Mutations, NEW r \in Ids, NEW actor \in Actors, NEW tx,
         MayMutate(i, m, r), NEW e \in Images, e = Mutated(i, m, r, actor, tx)
  PROVE  Moves(d, e) /\ Shows(d, m, e.records[r])
<1>1. d \in Images /\ i \in Images /\ Hydrates(i)
  BY DEF Kept, Sound
<1>2. SchemaVersion(i) = SchemaVersion(d) /\ SchemaVersion(d) \in Nat
  BY <1>1, CurrentSchemaType DEF SchemaVersion
<1>3. /\ Moves(i, e)
      /\ e.records[r].version = IF m.op = "data.record.create" THEN 1 ELSE m.expected + 1
      /\ e.records[r].deleted = (m.op = "data.record.delete")
      /\ m.op # "data.record.delete" => e.records[r].schemaVersion = SchemaVersion(i)
      /\ m.op = "data.record.delete" =>
           /\ r = m.rec /\ Active(i, r) /\ i.records[r].version = m.expected
           /\ e.records[r].schemaVersion = i.records[r].schemaVersion
  BY <1>1, MutatedMoves
<1>4. Moves(d, e)
  BY <1>1, <1>3, MovesTransitive
<1>5. CASE m.op # "data.record.delete"
  <2>1. e.records[r].schemaVersion = SchemaVersion(d) /\ SchemaVersion(d) <= SchemaVersion(d)
    BY <1>2, <1>3, <1>5
  <2>2. Shows(d, m, e.records[r])
    BY <1>3, <1>5, <2>1 DEF Shows
  <2> QED
    BY <1>4, <2>2
<1>6. CASE m.op = "data.record.delete"
  <2>1. /\ r = m.rec /\ Active(i, r) /\ i.records[r] # Nil /\ ~i.records[r].deleted
        /\ i.records[r].version = m.expected
        /\ e.records[r].schemaVersion = i.records[r].schemaVersion
    BY <1>3, <1>6 DEF Active
  <2>2. e.records[r].schemaVersion <= SchemaVersion(d)
    <3>1. i.records[r].schemaVersion \in 1..SchemaVersion(i)
      BY <1>1, <2>1 DEF Hydrates
    <3> QED
      BY <1>2, <2>1, <3>1
  <2>3. CASE i.records[r] = d.records[r]
    <3>1. /\ Active(d, m.rec) /\ d.records[m.rec].version = m.expected
          /\ d.records[m.rec].schemaVersion = e.records[r].schemaVersion
      BY <2>1, <2>3 DEF Active
    <3>2. Shows(d, m, e.records[r])
      BY <1>3, <1>6, <2>2, <3>1 DEF Shows
    <3> QED
      BY <1>4, <3>2
  <2>4. CASE i.records[r] # d.records[r]
    <3>1. /\ i.records[r].schemaVersion >= SchemaVersion(d)
          /\ d.records[r] # Nil => d.records[r].version < i.records[r].version
      BY <2>1, <2>4 DEF Moves
    <3>2. d.records[m.rec] # Nil => d.records[m.rec].version # m.expected
      BY <1>1, <2>1, <3>1, RowNumbers
    <3>3. e.records[r].schemaVersion >= SchemaVersion(d)
      BY <2>1, <3>1
    <3>4. Shows(d, m, e.records[r])
      BY <1>3, <1>6, <2>2, <3>2, <3>3 DEF Shows
    <3> QED
      BY <1>4, <3>4
  <2> QED
    BY <2>3, <2>4
<1> QED
  BY <1>4, <1>5, <1>6

LEMMA ContinuedShown ==
  ASSUME NEW d, Kept(d), NEW req, Acceptable(req), NEW n \in 1..Len(req.ops),
         NEW o \in Outputs, o.ok => Reached(d, req, n - 1, o), NEW r \in Ids, NEW tx \in Nat,
         o.ok => Shown(d, req, n - 1, o)
  PROVE  LET c == Continued(o, req.ops[n], r, req.actor, tx)
         IN  c.ok => Shown(d, req, n, c)
<1> DEFINE m == req.ops[n]
           c == Continued(o, m, r, req.actor, tx)
           resolved == Resolved(o.image, m, o.refs)
           image == Mutated(o.image, resolved, r, req.actor, tx)
<1>1. CASE ~Goes(o, m, r)
  <2>1. c = [o EXCEPT !.ok = FALSE]
    BY <1>1 DEF Goes, Continued
  <2> QED
    BY <2>1 DEF Outputs
<1>2. CASE Goes(o, m, r)
  <2>1. /\ o.ok /\ o.image \in Images /\ Kept(o.image)
        /\ Resolvable(o.image, m, o.refs)
        /\ MayMutate(o.image, resolved, r)
        /\ o.refs \in [Markers -> Ids \cup {Nil}]
        /\ o.image.schemas = d.schemas
        /\ Shown(d, req, n - 1, o)
        /\ o.snapshots \in Seq(Snapshots) /\ Len(o.snapshots) = n - 1
    BY <1>2 DEF Goes, Reached, Outputs
  <2>2. m \in Mutations /\ req.actor \in Actors /\ n \in Nat \ {0}
        /\ (m.op = "data.record.create" => m.expected = 0)
    BY AcceptableType DEF Acceptable
  <2>3. resolved \in Mutations
    BY <2>1, <2>2, ResolvedType
  <2>4. resolved.op = m.op /\ resolved.expected = m.expected /\ resolved.rec = m.rec
    BY <2>2, ResolvedSame
  <2>5. c = [ok        |-> TRUE,
             image     |-> image,
             refs      |-> Bind(o.refs, m, r),
             children  |-> Append(o.children, Len(image.events)),
             snapshots |-> Append(o.snapshots, [rec |-> r, row |-> image.records[r]])]
    BY <1>2, ContinuedGoes
  <2>6. image \in Images
    <3>1. OneMore(o.image, image, resolved, r)
      BY <2>1, <2>2, <2>3, <2>4, MutatedKept
    <3> QED
      BY <3>1 DEF OneMore, Kept
  <2>7. Moves(d, image) /\ Shows(d, resolved, image.records[r])
    BY <2>1, <2>2, <2>3, <2>6, MutationShows DEF Shown
  <2> HIDE DEF resolved, image, c
  <2>8. Shows(d, m, image.records[r])
    BY <2>4, <2>7 DEF Shows
  <2>9. c.image = image /\ c.snapshots = Append(o.snapshots, [rec |-> r, row |-> image.records[r]])
    BY <2>5
  <2>10. ASSUME NEW i \in 1..n
         PROVE  Shows(d, req.ops[i], c.snapshots[i].row)
    <3>1. CASE i = n
      <4>1. c.snapshots[n] = [rec |-> r, row |-> image.records[r]]
        BY <2>1, <2>2, <2>9
      <4> QED
        BY <2>8, <3>1, <4>1 DEF m
    <3>2. CASE i # n
      <4>1. i \in 1..(n - 1)
        BY <2>2, <3>2
      <4>2. c.snapshots[i] = o.snapshots[i]
        BY <2>1, <2>2, <2>9, <4>1
      <4> QED
        BY <2>1, <4>1, <4>2 DEF Shown
    <3> QED
      BY <3>1, <3>2
  <2> QED
    BY <2>7, <2>9, <2>10 DEF Shown, c
<1> QED
  BY <1>1, <1>2

LEMMA OutcomeShown ==
  ASSUME NEW d, Kept(d), NEW req, Acceptable(req), NEW tx \in Nat,
         NEW o \in Outcomes(d, req, tx)
  PROVE  Shown(d, req, Len(req.ops), o)
<1> DEFINE T == {x \in Nat \X Outputs :
                   x[2].ok => Reached(d, req, x[1], x[2]) /\ Shown(d, req, x[1], x[2])}
<1>1. PICK recs \in [1..Len(req.ops) -> Ids] : o = Outcome(d, req, recs, tx) /\ o.ok
  BY DEF Outcomes
<1>2. <<0, Begun(d)>> \in T
  <2>1. Shown(d, req, 0, Begun(d))
    BY MovesReflexive DEF Shown, Begun, Kept
  <2> QED
    BY <2>1, BegunReached
<1>3. ASSUME NEW n \in 1..Len(req.ops), NEW x, <<n - 1, x>> \in T
      PROVE  <<n, Continued(x, req.ops[n], recs[n], req.actor, tx)>> \in T
  <2>1. x \in Outputs /\ (x.ok => Reached(d, req, n - 1, x) /\ Shown(d, req, n - 1, x))
    BY <1>3
  <2>2. n \in Nat /\ recs[n] \in Ids
    BY <1>1, AcceptableType
  <2> DEFINE c == Continued(x, req.ops[n], recs[n], req.actor, tx)
  <2>3. c \in Outputs /\ (c.ok => Reached(d, req, n, c))
    BY <2>1, <2>2, ContinuedReached
  <2>4. c.ok => Shown(d, req, n, c)
    BY <2>1, <2>2, ContinuedShown
  <2> QED
    BY <2>2, <2>3, <2>4
<1>4. Len(req.ops) \in Nat
  BY AcceptableType
<1>5. <<Len(req.ops), o>> \in T
  <2> HIDE DEF T
  <2> QED
    BY <1>1, <1>2, <1>3, <1>4, OutcomeInduction
<1> QED
  BY <1>1, <1>5

LEMMA PerformedMoves ==
  ASSUME NEW d, Kept(d), NEW req, Acceptable(req), MayPerform(d, req),
         NEW e \in Performed(d, req)
  PROVE  Moves(d, e)
<1> DEFINE tx == Len(d.events) + 1
<1>1. tx \in Nat /\ d \in Images /\ e \in Images /\ Extends(d, e)
  <2>1. Kept(e) /\ Extends(d, e)
    BY PerformedKept
  <2> QED
    BY <2>1 DEF Kept, Images
<1>2. CASE req.kind = "record"
  <2>1. PICK o \in Outcomes(d, req, 0) : e = o.image
    BY <1>2 DEF Performed
  <2> QED
    BY <2>1, OutcomeShown DEF Shown
<1>3. CASE req.kind = "transaction"
  <2>1. PICK o \in Outcomes(d, req, tx) :
          e = Closed(o.image, req, tx, o.children, o.snapshots)
    BY <1>3 DEF Performed
  <2>2. e.records = o.image.records /\ e.schemas = o.image.schemas
    BY <2>1 DEF Closed
  <2>3. Moves(d, o.image)
    BY <1>1, OutcomeShown DEF Shown
  <2> QED
    BY <2>2, <2>3 DEF Moves, SchemaVersion
<1>4. CASE req.kind = "ensure"
  <2>1. e.records = d.records
    BY <1>4 DEF Performed, Ensured, Closed, Evolved
  <2> QED
    BY <1>1, <2>1 DEF Moves, Extends, SchemaVersion
<1>5. req.kind \in {"record", "transaction", "ensure"}
  BY AcceptableType DEF Requests
<1> QED
  BY <1>2, <1>3, <1>4, <1>5

LEMMA RequestedMoves ==
  ASSUME NEW d, Kept(d), NEW e \in Requested(d, Submissions, Evolutions)
  PROVE  Moves(d, e)
<1>1. CASE \E req \in Submissions : MayPerform(d, req) /\ e \in Performed(d, req)
  BY <1>1, CallersAssumption, PerformedMoves DEF AcceptableCalls
<1>2. CASE \E adds \in Evolutions :
              /\ MayAddFields(CurrentSchema(d), adds)
              /\ e = Evolved(d, WithFields(CurrentSchema(d), adds))
  <2>1. e.records = d.records
    BY <1>2 DEF Evolved
  <2>2. Extends(d, e)
    BY CallersAssumption, RequestedKept
  <2> QED
    BY <2>1, <2>2 DEF Moves, Extends, SchemaVersion
<1> QED
  BY <1>1, <1>2, RequestedCases

(***************************************************************************)
(* What a digest says stays true until its request is carried out.         *)
(***************************************************************************)
\* An item of a digest, seen from image d: all of it but the schema version is
\* settled by mutation m, and carrying m out on d would write under the schema
\* version of the item or a later one.
ItemStays(d, m, item) ==
  /\ item.schemaVersion \in Nat
  /\ item = [rec           |-> IF m.op = "data.record.create" THEN Nil ELSE m.rec,
             schemaVersion |-> item.schemaVersion,
             before        |-> m.expected,
             after         |-> IF m.op = "data.record.create" THEN 1 ELSE m.expected + 1,
             deleted       |-> (m.op = "data.record.delete")]
  /\ item.schemaVersion <= SchemaVersion(d)
  /\ /\ m.op = "data.record.delete" /\ m.rec \in Ids
     /\ Active(d, m.rec) /\ d.records[m.rec].version = m.expected
     => d.records[m.rec].schemaVersion >= item.schemaVersion

Stays(d, b, g) ==
  /\ g.actor = b.actor
  /\ g.ops = b.ops
  /\ \A n \in 1..Len(b.ops) : ItemStays(d, b.ops[n], g.items[n])

LEMMA BulkType ==
  ASSUME NEW b \in BulkRequests
  PROVE  /\ Acceptable(TransactionOf(b))
         /\ b.key \in Keys /\ b.actor \in Actors /\ b.ops \in Seq(Mutations)
         /\ Len(b.ops) \in Nat /\ \A n \in 1..Len(b.ops) : b.ops[n] \in Mutations
         /\ TransactionOf(b).ops = b.ops /\ TransactionOf(b).actor = b.actor
         /\ TransactionOf(b).key = TxKey(b.key) /\ TxKey(b.key) \in Keys
         /\ TransactionOf(b).kind = "transaction"
<1>1. Acceptable(TransactionOf(b)) /\ b.key \in Keys /\ b.actor \in Actors
      /\ b.ops \in Seq(Mutations)
  BY BulkAssumption
<1>2. TransactionOf(b).ops = b.ops /\ TransactionOf(b).actor = b.actor
      /\ TransactionOf(b).key = TxKey(b.key) /\ TransactionOf(b).kind = "transaction"
  BY DEF TransactionOf
<1>3. TransactionOf(b).key \in Keys
  BY <1>1, AcceptableType
<1> QED
  BY <1>1, <1>2, <1>3

LEMMA ItemShows ==
  ASSUME NEW d \in Images, NEW m \in Mutations, NEW snapshot \in Snapshots,
         Shows(d, m, snapshot.row)
  PROVE  ItemStays(d, m, Item(m, snapshot)) /\ Item(m, snapshot) \in ReviewedItems
<1> DEFINE row == snapshot.row
           item == Item(m, snapshot)
<1>1. row.version \in Nat /\ row.schemaVersion \in Nat /\ row.deleted \in BOOLEAN
      /\ m.rec \in Ids \cup {Nil} /\ m.expected \in Nat
  BY DEF Snapshots, Rows, Mutations
<1>2. /\ item.schemaVersion = row.schemaVersion
      /\ item = [rec           |-> IF m.op = "data.record.create" THEN Nil ELSE m.rec,
                 schemaVersion |-> row.schemaVersion,
                 before        |-> m.expected,
                 after         |-> row.version,
                 deleted       |-> row.deleted]
  BY DEF Item
<1>3. item \in ReviewedItems
  BY <1>1, <1>2 DEF ReviewedItems
<1>4. SchemaVersion(d) \in Nat
  BY CurrentSchemaType
<1>5. ASSUME m.op = "data.record.delete", m.rec \in Ids, Active(d, m.rec),
             d.records[m.rec].version = m.expected
      PROVE  d.records[m.rec].schemaVersion >= item.schemaVersion
  <2>1. d.records[m.rec].schemaVersion = row.schemaVersion
    BY <1>5 DEF Shows, Active
  <2> QED
    BY <1>1, <1>2, <2>1
<1>6. item = [rec           |-> IF m.op = "data.record.create" THEN Nil ELSE m.rec,
              schemaVersion |-> item.schemaVersion,
              before        |-> m.expected,
              after         |-> IF m.op = "data.record.create" THEN 1 ELSE m.expected + 1,
              deleted       |-> (m.op = "data.record.delete")]
  BY <1>2 DEF Shows
<1>7. item.schemaVersion \in Nat /\ item.schemaVersion <= SchemaVersion(d)
  BY <1>1, <1>2 DEF Shows
<1> QED
  BY <1>3, <1>5, <1>6, <1>7 DEF ItemStays

\* What a preview finds is true of the image it ran on.
LEMMA PreviewStays ==
  ASSUME NEW d, Kept(d), NEW b \in BulkRequests, NEW tx \in Nat,
         NEW o \in Outcomes(d, TransactionOf(b), tx)
  PROVE  Stays(d, b, Digest(b, o.snapshots)) /\ Digest(b, o.snapshots) \in Digests
<1> DEFINE items == Items(b.ops, o.snapshots)
<1>1. /\ o.snapshots \in Seq(Snapshots) /\ Len(o.snapshots) = Len(b.ops)
      /\ \A n \in 1..Len(b.ops) : Shows(d, b.ops[n], o.snapshots[n].row)
  <2>1. o \in Outputs /\ Reached(d, TransactionOf(b), Len(TransactionOf(b).ops), o)
    BY BulkType, OutcomeReached
  <2>2. Shown(d, TransactionOf(b), Len(TransactionOf(b).ops), o)
    BY BulkType, OutcomeShown
  <2> QED
    BY <2>1, <2>2, BulkType DEF Outputs, Reached, Shown
<1>2. ASSUME NEW n \in 1..Len(b.ops)
      PROVE  ItemStays(d, b.ops[n], items[n]) /\ items[n] \in ReviewedItems
  <2>1. items[n] = Item(b.ops[n], o.snapshots[n])
    BY DEF Items
  <2>2. o.snapshots[n] \in Snapshots /\ b.ops[n] \in Mutations /\ d \in Images
    BY <1>1, BulkType DEF Kept
  <2> QED
    BY <1>1, <2>1, <2>2, ItemShows
<1>3. items \in Seq(ReviewedItems)
  <2>1. items = [n \in 1..Len(b.ops) |-> items[n]]
    BY DEF Items
  <2>2. Len(b.ops) \in Nat
    BY BulkType
  <2> HIDE DEF items
  <2>3. items \in [1..Len(b.ops) -> ReviewedItems]
    BY <1>2, <2>1
  <2> QED
    BY <2>2, <2>3
<1> QED
  BY <1>2, <1>3, BulkType DEF Stays, Digest, Digests

\* It stays true while the records move.
LEMMA StaysOn ==
  ASSUME NEW d \in Images, NEW e \in Images, Moves(d, e), NEW b \in BulkRequests,
         NEW g, Stays(d, b, g)
  PROVE  Stays(e, b, g)
<1>1. SchemaVersion(d) \in Nat /\ SchemaVersion(e) \in Nat
      /\ SchemaVersion(d) <= SchemaVersion(e)
  BY CurrentSchemaType DEF Moves
<1>2. ASSUME NEW n \in 1..Len(b.ops)
      PROVE  ItemStays(e, b.ops[n], g.items[n])
  <2> DEFINE m == b.ops[n]
             item == g.items[n]
  <2>1. ItemStays(d, m, item)
    BY DEF Stays
  <2>2. item.schemaVersion \in Nat /\ item.schemaVersion <= SchemaVersion(d)
    BY <2>1 DEF ItemStays
  <2>3. item.schemaVersion <= SchemaVersion(e)
    BY <1>1, <2>2
  <2>4. ASSUME m.op = "data.record.delete", m.rec \in Ids, Active(e, m.rec),
               e.records[m.rec].version = m.expected
        PROVE  e.records[m.rec].schemaVersion >= item.schemaVersion
    <3>1. CASE e.records[m.rec] = d.records[m.rec]
      BY <2>1, <2>4, <3>1 DEF ItemStays, Active
    <3>2. CASE e.records[m.rec] # d.records[m.rec]
      <4>1. e.records[m.rec].schemaVersion >= SchemaVersion(d)
        BY <2>4, <3>2 DEF Moves, Active
      <4>2. e.records[m.rec].schemaVersion \in Nat
        BY <2>4, RowNumbers DEF Active
      <4> QED
        BY <1>1, <2>2, <4>1, <4>2
    <3> QED
      BY <3>1, <3>2
  <2> QED
    BY <2>1, <2>3, <2>4 DEF ItemStays
<1> QED
  BY <1>2 DEF Stays

(***************************************************************************)
(* The entry that a commit leaves.                                         *)
(***************************************************************************)
\* What CommittedAsReviewedButSchema says of one entry.
AsReviewed(entry) ==
  LET done  == ItemsOf(entry)
      shown == entry.digest.items
  IN  /\ entry.digest.actor = entry.bulk.actor
      /\ entry.digest.ops = entry.bulk.ops
      /\ \A n \in 1..Len(done) :
           /\ done[n].schemaVersion >= shown[n].schemaVersion
           /\ [done[n] EXCEPT !.schemaVersion = shown[n].schemaVersion] = shown[n]

\* Verified, of any image.
VerifiedIn(d, entry) ==
  LET k == TxKey(entry.bulk.key)
  IN  /\ Replays(d, k, "data.transaction.execute", TransactionOf(entry.bulk))
      /\ d.idem[k].result = entry.result
      /\ entry.receipt \in ReceiptsFor(d, k)

LEMMA SameItem ==
  ASSUME NEW a, NEW b, NEW c, NEW f, NEW s, NEW t, NEW x, NEW y,
         x = [rec |-> a, schemaVersion |-> s, before |-> b, after |-> c, deleted |-> f],
         y = [rec |-> a, schemaVersion |-> t, before |-> b, after |-> c, deleted |-> f]
  PROVE  [x EXCEPT !.schemaVersion = t] = y
  OBVIOUS

LEMMA ItemReviewed ==
  ASSUME NEW d \in Images, NEW m \in Mutations, NEW snapshot \in Snapshots,
         Shows(d, m, snapshot.row), NEW item, ItemStays(d, m, item)
  PROVE  /\ Item(m, snapshot).schemaVersion >= item.schemaVersion
         /\ [Item(m, snapshot) EXCEPT !.schemaVersion = item.schemaVersion] = item
<1> DEFINE done == Item(m, snapshot)
<1>1. ItemStays(d, m, done)
  BY ItemShows
<1>2. done.schemaVersion = snapshot.row.schemaVersion
  BY DEF Item
<1>3. done.schemaVersion >= item.schemaVersion
  <2>1. SchemaVersion(d) \in Nat /\ item.schemaVersion \in Nat /\ done.schemaVersion \in Nat
        /\ item.schemaVersion <= SchemaVersion(d)
    BY <1>1, CurrentSchemaType DEF ItemStays
  <2>2. CASE m.op # "data.record.delete"
    BY <1>2, <2>1, <2>2 DEF Shows
  <2>3. CASE m.op = "data.record.delete"
    <3>1. m.rec \in Ids
      BY <2>3 DEF Shows
    <3>2. CASE /\ Active(d, m.rec) /\ d.records[m.rec].version = m.expected
               /\ d.records[m.rec].schemaVersion = snapshot.row.schemaVersion
      <4>1. d.records[m.rec].schemaVersion >= item.schemaVersion
        BY <2>3, <3>1, <3>2 DEF ItemStays
      <4> QED
        BY <1>2, <3>2, <4>1
    <3>3. CASE snapshot.row.schemaVersion >= SchemaVersion(d)
      BY <1>2, <2>1, <3>3
    <3> QED
      BY <2>3, <3>2, <3>3 DEF Shows
  <2> QED
    BY <2>2, <2>3
<1>4. [done EXCEPT !.schemaVersion = item.schemaVersion] = item
  <2> DEFINE rec == IF m.op = "data.record.create" THEN Nil ELSE m.rec
             after == IF m.op = "data.record.create" THEN 1 ELSE m.expected + 1
             deleted == (m.op = "data.record.delete")
  <2>1. /\ done = [rec |-> rec, schemaVersion |-> done.schemaVersion,
                   before |-> m.expected, after |-> after, deleted |-> deleted]
        /\ item = [rec |-> rec, schemaVersion |-> item.schemaVersion,
                   before |-> m.expected, after |-> after, deleted |-> deleted]
    BY <1>1 DEF ItemStays
  <2> HIDE DEF rec, after, deleted, done
  <2> QED
    BY <2>1, SameItem
<1> QED
  BY <1>3, <1>4

LEMMA CommitAsReviewed ==
  ASSUME NEW d, Kept(d), NEW b \in BulkRequests, NEW tx \in Nat,
         NEW o \in Outcomes(d, TransactionOf(b), tx), NEW entry,
         entry.bulk = b, Stays(d, b, entry.digest),
         entry.result.snapshots = o.snapshots
  PROVE  AsReviewed(entry)
<1> DEFINE done == ItemsOf(entry)
<1>1. /\ o.snapshots \in Seq(Snapshots) /\ Len(o.snapshots) = Len(b.ops)
      /\ \A n \in 1..Len(b.ops) : Shows(d, b.ops[n], o.snapshots[n].row)
  <2>1. o \in Outputs /\ Reached(d, TransactionOf(b), Len(TransactionOf(b).ops), o)
    BY BulkType, OutcomeReached
  <2>2. Shown(d, TransactionOf(b), Len(TransactionOf(b).ops), o)
    BY BulkType, OutcomeShown
  <2> QED
    BY <2>1, <2>2, BulkType DEF Outputs, Reached, Shown
<1>2. Len(done) = Len(b.ops)
  BY BulkType DEF ItemsOf, Items
<1>3. ASSUME NEW n \in 1..Len(b.ops)
      PROVE  /\ done[n].schemaVersion >= entry.digest.items[n].schemaVersion
             /\ [done[n] EXCEPT !.schemaVersion = entry.digest.items[n].schemaVersion]
                  = entry.digest.items[n]
  <2>1. done[n] = Item(b.ops[n], o.snapshots[n])
    BY DEF ItemsOf, Items
  <2>2. o.snapshots[n] \in Snapshots /\ b.ops[n] \in Mutations /\ d \in Images
    BY <1>1, BulkType DEF Kept
  <2>3. ItemStays(d, b.ops[n], entry.digest.items[n])
    BY DEF Stays
  <2> QED
    BY <1>1, <2>1, <2>2, <2>3, ItemReviewed
<1> QED
  BY <1>2, <1>3 DEF AsReviewed, Stays

\* A commit is one of the transactions of the atomic store.
LEMMA BulkPerformed ==
  ASSUME NEW d, Kept(d), NEW b \in BulkRequests, KeysSeparate(b), Fresh(d, TxKey(b.key)),
         NEW o \in Outcomes(d, TransactionOf(b), Len(d.events) + 1),
         NEW e, e = Closed(o.image, TransactionOf(b), Len(d.events) + 1, o.children,
                           o.snapshots)
  PROVE  /\ MayPerform(d, TransactionOf(b)) /\ e \in Performed(d, TransactionOf(b))
         /\ Kept(e) /\ Extends(d, e) /\ Moves(d, e)
         /\ \A k \in Keys \ KeysOf(TransactionOf(b)) : e.idem[k] = d.idem[k]
         /\ e.idem[TxKey(b.key)]
              = ClosingEntry(TransactionOf(b), o.snapshots, SchemaVersion(o.image))
<1>1. MayPerform(d, TransactionOf(b))
  BY BulkType DEF MayPerform, WellKeyed, KeysSeparate, KeysDistinct
<1>2. e \in Performed(d, TransactionOf(b))
  BY BulkType DEF Performed
<1>3. /\ Kept(e) /\ Extends(d, e)
      /\ \A k \in Keys \ KeysOf(TransactionOf(b)) : e.idem[k] = d.idem[k]
  BY <1>1, <1>2, BulkType, PerformedKept
<1>4. Moves(d, e)
  BY <1>1, <1>2, BulkType, PerformedMoves
<1>5. e.idem[TxKey(b.key)]
        = ClosingEntry(TransactionOf(b), o.snapshots, SchemaVersion(o.image))
  <2>1. Len(d.events) + 1 \in Nat
    BY DEF Kept, Images
  <2>2. o \in Outputs
    BY <2>1, BulkType, OutcomeReached
  <2>3. o.image.idem \in [Keys -> Entries \cup {Nil}]
    BY <2>2 DEF Outputs, Images
  <2> QED
    BY <2>3, BulkType DEF Closed
<1> QED
  BY <1>1, <1>2, <1>3, <1>4, <1>5

LEMMA EntryBacked ==
  ASSUME NEW d, Kept(d), NEW b \in BulkRequests, KeysSeparate(b), Fresh(d, TxKey(b.key)),
         NEW o \in Outcomes(d, TransactionOf(b), Len(d.events) + 1),
         NEW e, e = Closed(o.image, TransactionOf(b), Len(d.events) + 1, o.children,
                           o.snapshots),
         NEW g \in Digests, Stays(d, b, g),
         NEW entry,
         entry = [bulk    |-> b,
                  digest  |-> g,
                  result  |-> e.idem[TxKey(b.key)].result,
                  receipt |-> CHOOSE i \in ReceiptsFor(e, TxKey(b.key)) : TRUE]
  PROVE  /\ entry \in BulkEntries /\ entry.receipt \in 1..Len(e.events)
         /\ VerifiedIn(e, entry) /\ AsReviewed(entry)
<1> DEFINE k == TxKey(b.key)
<1>1. /\ Kept(e) /\ Extends(d, e)
      /\ e.idem[k] = ClosingEntry(TransactionOf(b), o.snapshots, SchemaVersion(o.image))
  BY BulkPerformed
<1>2. entry.bulk = b /\ entry.digest = g /\ entry.result = e.idem[k].result
  OBVIOUS
<1>3. Len(d.events) + 1 \in Nat /\ e \in Images /\ k \in Keys
  BY <1>1, BulkType DEF Kept, Images
<1>4. e.idem[k] # Nil /\ e.idem[k] \in Entries
  <2>1. o \in Outputs
    BY <1>3, BulkType, OutcomeReached
  <2>2. SchemaVersion(o.image) \in Nat /\ o.snapshots \in Seq(Snapshots)
    BY <2>1, CurrentSchemaType DEF Outputs
  <2>3. e.idem[k] \in Entries
    BY <1>1, <2>2, BulkType, AcceptableType DEF ClosingEntry, Entries, Results
  <2> QED
    BY <2>3, DistinctValues
<1>5. e.idem[k].op = "data.transaction.execute" /\ e.idem[k].fp = TransactionOf(b)
      /\ e.idem[k].result.snapshots = o.snapshots
  BY <1>1 DEF ClosingEntry
<1>6. ReceiptsFor(e, k) # {}
  BY <1>1, <1>3, <1>4 DEF Kept, LogSound, LedgerMatchesLog
<1>7. entry.receipt \in ReceiptsFor(e, k)
  BY <1>6
<1>8. entry.receipt \in 1..Len(e.events) /\ entry.receipt \in Nat
  <2>1. ReceiptsFor(e, k) \subseteq 1..Len(e.events)
    BY DEF ReceiptsFor
  <2> QED
    BY <1>7, <2>1
<1>9. entry \in BulkEntries
  BY <1>4, <1>8 DEF BulkEntries, Entries
<1>10. VerifiedIn(e, entry)
  BY <1>2, <1>4, <1>5, <1>7 DEF VerifiedIn, Replays
<1>11. AsReviewed(entry)
  BY <1>2, <1>3, <1>5, CommitAsReviewed
<1> QED
  BY <1>8, <1>9, <1>10, <1>11

LEMMA VerifiedOn ==
  ASSUME NEW d \in Images, NEW e \in Images, Extends(d, e), NEW entry,
         TxKey(entry.bulk.key) \in Keys, VerifiedIn(d, entry)
  PROVE  VerifiedIn(e, entry)
<1> DEFINE k == TxKey(entry.bulk.key)
<1>1. d.idem[k] # Nil /\ e.idem[k] = d.idem[k]
  BY DEF VerifiedIn, Replays, Extends
<1>2. entry.receipt \in ReceiptsFor(e, k)
  <2>1. entry.receipt \in 1..Len(d.events) /\ d.events[entry.receipt].key = k
    BY DEF VerifiedIn, ReceiptsFor
  <2>2. entry.receipt \in 1..Len(e.events) /\ e.events[entry.receipt].key = k
    BY <2>1 DEF Extends, Images
  <2> QED
    BY <2>2 DEF ReceiptsFor
<1> QED
  BY <1>1, <1>2 DEF VerifiedIn, Replays

(***************************************************************************)
(* The inductive invariant: images are kept, the entries of bulk keys and  *)
(* those of their transactions come and go together, and a process that is *)
(* about to commit holds a digest that is still true.                      *)
(***************************************************************************)
Backed(d, bs) ==
  /\ \A b \in BulkRequests : bs[b.key] = Nil <=> d.idem[TxKey(b.key)] = Nil
  /\ \A k \in Keys : bs[k] # Nil => VerifiedIn(d, bs[k]) /\ AsReviewed(bs[k])

Reviewing ==
  \A p \in Procs :
    /\ pc[p] # "idle" => KeysSeparate(call[p].bulk)
    /\ pc[p] = "commit" => Stays(store, call[p].bulk, call[p].digest)

IInv ==
  /\ Kept(store)
  /\ TypeOK
  /\ Backed(store, bulks)
  /\ Reviewing

LEMMA IInvInit == Init => IInv
<1> SUFFICES ASSUME Init PROVE IInv
  OBVIOUS
<1>1. Kept(store) /\ store.idem = [k \in Keys |-> Nil]
  <2>1. BaseSchema \in Schemas
    BY CallersAssumption DEF AcceptableCalls
  <2> QED
    BY <2>1, EmptyKept DEF Init, EmptyImage
<1>2. TypeOK
  <2>1. store \in Images
    BY <1>1 DEF Kept
  <2>2. \A k \in Keys : bulks[k] = Nil
    BY DEF Init
  <2>3. bulks \in [Keys -> BulkEntries \cup {Nil}] /\ digests \subseteq Digests
        /\ pc \in [Procs -> {"idle", "prepare", "preview", "commit"}]
        /\ \A p \in Procs : pc[p] = "idle"
    BY DEF Init
  <2>4. call \in [Procs -> [bulk : BulkRequests \cup {Nil}, digest : Digests \cup {Nil}]]
    BY DEF Init, NoCall
  <2> QED
    BY <2>1, <2>2, <2>3, <2>4 DEF TypeOK
<1>3. Backed(store, bulks)
  BY <1>1, BulkType DEF Backed, Init
<1>4. Reviewing
  BY DEF Reviewing, Init
<1> QED
  BY <1>1, <1>2, <1>3, <1>4 DEF IInv

\* What is said of a call survives what leaves the call in place.
LEMMA CallsType ==
  ASSUME TypeOK, NEW p \in Procs, pc[p] # "idle"
  PROVE  /\ call[p].bulk \in BulkRequests /\ call[p].digest \in digests
         /\ call[p].digest \in Digests
  BY DEF TypeOK

LEMMA ReturnKeepsCalls ==
  ASSUME TypeOK, Reviewing, NEW p \in Procs, NEW value, Return(p, value),
         Kept(store), Kept(store'), Moves(store, store'), digests \subseteq digests'
  PROVE  /\ pc' \in [Procs -> {"idle", "prepare", "preview", "commit"}]
         /\ call' \in [Procs -> [bulk : BulkRequests \cup {Nil}, digest : Digests \cup {Nil}]]
         /\ \A q \in Procs : pc'[q] # "idle" =>
              call'[q].bulk \in BulkRequests /\ call'[q].digest \in digests'
         /\ Reviewing'
<1>1. /\ pc' = [pc EXCEPT ![p] = "idle"]
      /\ call' = [call EXCEPT ![p] = NoCall]
  BY DEF Return, Goto
<1>2. NoCall \in [bulk : BulkRequests \cup {Nil}, digest : Digests \cup {Nil}]
  BY DEF NoCall
<1>3. pc'[p] = "idle" /\ \A q \in Procs : q # p => pc'[q] = pc[q] /\ call'[q] = call[q]
  BY <1>1 DEF TypeOK
<1>4. ASSUME NEW q \in Procs, pc'[q] # "idle"
      PROVE  /\ call'[q].bulk \in BulkRequests /\ call'[q].digest \in digests'
             /\ KeysSeparate(call'[q].bulk)
             /\ pc'[q] = "commit" => Stays(store', call'[q].bulk, call'[q].digest)
  <2>1. q # p /\ pc'[q] = pc[q] /\ call'[q] = call[q]
    BY <1>3, <1>4
  <2>2. call[q].bulk \in BulkRequests /\ call[q].digest \in digests
    BY <1>4, <2>1, CallsType
  <2>3. KeysSeparate(call[q].bulk)
        /\ (pc[q] = "commit" => Stays(store, call[q].bulk, call[q].digest))
    BY <1>4, <2>1 DEF Reviewing
  <2>4. store \in Images /\ store' \in Images
    BY DEF Kept
  <2>5. pc[q] = "commit" => Stays(store', call[q].bulk, call[q].digest)
    BY <2>2, <2>3, <2>4, StaysOn
  <2> QED
    BY <2>1, <2>2, <2>3, <2>5
<1>5. Reviewing'
  BY <1>4 DEF Reviewing
<1> QED
  BY <1>1, <1>2, <1>4, <1>5 DEF TypeOK

\* The entries that a step leaves alone.
LEMMA BackedOn ==
  ASSUME NEW d, Kept(d), NEW e, Kept(e), Extends(d, e),
         NEW bs \in [Keys -> BulkEntries \cup {Nil}], Backed(d, bs),
         \A b \in BulkRequests : e.idem[TxKey(b.key)] = d.idem[TxKey(b.key)]
  PROVE  Backed(e, bs)
<1>1. ASSUME NEW k \in Keys, bs[k] # Nil
      PROVE  VerifiedIn(e, bs[k]) /\ AsReviewed(bs[k])
  <2>1. bs[k] \in BulkEntries
    BY <1>1
  <2>2. bs[k].bulk \in BulkRequests
    BY <2>1 DEF BulkEntries
  <2>3. TxKey(bs[k].bulk.key) \in Keys
    BY <2>2, BulkType
  <2>4. VerifiedIn(d, bs[k]) /\ AsReviewed(bs[k])
    BY <1>1 DEF Backed
  <2>5. d \in Images /\ e \in Images
    BY DEF Kept
  <2>6. VerifiedIn(e, bs[k])
    BY <2>3, <2>4, <2>5, VerifiedOn
  <2> QED
    BY <2>4, <2>6
<1> QED
  BY <1>1 DEF Backed

\* The entries after bulk request b is committed.
LEMMA BackedCommit ==
  ASSUME NEW d, Kept(d), NEW b \in BulkRequests, KeysSeparate(b), Fresh(d, TxKey(b.key)),
         NEW o \in Outcomes(d, TransactionOf(b), Len(d.events) + 1),
         NEW e, e = Closed(o.image, TransactionOf(b), Len(d.events) + 1, o.children,
                           o.snapshots),
         NEW bs \in [Keys -> BulkEntries \cup {Nil}], Backed(d, bs),
         NEW entry \in BulkEntries, VerifiedIn(e, entry), AsReviewed(entry)
  PROVE  Backed(e, [bs EXCEPT ![b.key] = entry])
<1> DEFINE cs == [bs EXCEPT ![b.key] = entry]
<1>1. /\ Kept(e) /\ Extends(d, e)
      /\ \A k \in Keys \ KeysOf(TransactionOf(b)) : e.idem[k] = d.idem[k]
      /\ e.idem[TxKey(b.key)]
           = ClosingEntry(TransactionOf(b), o.snapshots, SchemaVersion(o.image))
  BY BulkPerformed
<1>2. b.key \in Keys /\ entry # Nil
  BY BulkType, BulkAssumption
<1>3. cs[b.key] = entry /\ \A k \in Keys : k # b.key => cs[k] = bs[k]
  BY <1>2
<1>4. e.idem[TxKey(b.key)] # Nil
  <2>1. Extends(d, e) /\ ~Fresh(e, TxKey(b.key))
    <3>1. Len(d.events) + 1 \in Nat
      BY DEF Kept, Images
    <3>2. o.image \in Images /\ o.snapshots \in Seq(Snapshots)
      BY <3>1, BulkType, OutcomeReached DEF Outputs
    <3> QED
      BY <1>1, <3>2, BulkType, AcceptableType, ClosedBinds
  <2> QED
    BY <2>1 DEF Fresh
<1>5. ASSUME NEW c \in BulkRequests
      PROVE  cs[c.key] = Nil <=> e.idem[TxKey(c.key)] = Nil
  <2>1. CASE c.key = b.key
    BY <1>2, <1>3, <1>4, <2>1
  <2>2. CASE c.key # b.key
    <3>1. TxKey(c.key) # TxKey(b.key)
      BY <2>2, BulkAssumption
    <3>2. TxKey(c.key) \notin KeysOf(TransactionOf(b)) /\ TxKey(c.key) \in Keys
      BY <3>1, BulkAssumption, BulkType DEF KeysOf
    <3>3. e.idem[TxKey(c.key)] = d.idem[TxKey(c.key)]
      BY <1>1, <3>2
    <3>4. cs[c.key] = bs[c.key]
      BY <1>3, <2>2, BulkType
    <3> QED
      BY <3>3, <3>4 DEF Backed
  <2> QED
    BY <2>1, <2>2
<1>6. ASSUME NEW k \in Keys, cs[k] # Nil
      PROVE  VerifiedIn(e, cs[k]) /\ AsReviewed(cs[k])
  <2>1. CASE k = b.key
    BY <1>3, <2>1
  <2>2. CASE k # b.key
    <3>1. bs[k] # Nil /\ cs[k] = bs[k] /\ bs[k] \in BulkEntries
      BY <1>3, <1>6, <2>2
    <3>2. TxKey(bs[k].bulk.key) \in Keys
      BY <3>1, BulkType DEF BulkEntries
    <3>3. VerifiedIn(d, bs[k]) /\ AsReviewed(bs[k])
      BY <3>1 DEF Backed
    <3>4. d \in Images /\ e \in Images
      BY <1>1 DEF Kept
    <3>5. VerifiedIn(e, bs[k])
      BY <1>1, <3>2, <3>3, <3>4, VerifiedOn
    <3> QED
      BY <3>1, <3>3, <3>5
  <2> QED
    BY <2>1, <2>2
<1> QED
  BY <1>5, <1>6 DEF Backed

\* The entries, seen from a later store and more digests.
LEMMA EntriesTyped ==
  ASSUME TypeOK, Kept(store), Kept(store'), Extends(store, store'),
         digests \subseteq digests', NEW k \in Keys, bulks[k] # Nil
  PROVE  /\ bulks[k].bulk.key = k
         /\ bulks[k].digest \in digests'
         /\ bulks[k].receipt \in 1..Len(store'.events)
<1>1. Len(store.events) \in Nat /\ Len(store'.events) \in Nat
      /\ Len(store.events) <= Len(store'.events)
  BY DEF Kept, Images, Extends
<1> QED
  BY <1>1 DEF TypeOK

LEMMA StoreStays ==
  ASSUME Kept(store), UNCHANGED store
  PROVE  Kept(store') /\ Extends(store, store') /\ Moves(store, store')
<1>1. Kept(store') /\ store \in Images
  BY DEF Kept
<1> QED
  BY <1>1, ExtendsReflexive, MovesReflexive

LEMMA IInvReview ==
  ASSUME IInv, NEW p \in Procs, Review(p)
  PROVE  IInv'
<1>1. PICK b \in BulkRequests : \E d \in Previews(b) : digests' = digests \cup {d}
  BY DEF Review
<1>2. PICK o \in BulkOutcomes(b) : digests' = digests \cup {Digest(b, o.snapshots)}
  BY <1>1 DEF Previews
<1>3. UNCHANGED <<store, bulks, pc, call, reply>>
  BY DEF Review
<1>4. Digest(b, o.snapshots) \in Digests
  <2>1. Kept(store) /\ Len(store.events) + 1 \in Nat
    BY DEF IInv, Kept, Images
  <2>2. o \in Outcomes(store, TransactionOf(b), Len(store.events) + 1)
    BY <1>2 DEF BulkOutcomes
  <2> QED
    BY <2>1, <2>2, PreviewStays
<1>5. TypeOK'
  BY <1>2, <1>3, <1>4 DEF IInv, TypeOK
<1>6. Kept(store)' /\ Backed(store, bulks)' /\ Reviewing'
  BY <1>3 DEF IInv, Kept, Backed, Reviewing
<1> QED
  BY <1>5, <1>6 DEF IInv

LEMMA IInvExecute ==
  ASSUME IInv, NEW p \in Procs, Execute(p)
  PROVE  IInv'
<1>1. PICK b \in BulkRequests, d \in digests :
        KeysSeparate(b) /\ call' = [call EXCEPT ![p] = [bulk |-> b, digest |-> d]]
  BY DEF Execute
<1>2. pc' = [pc EXCEPT ![p] = "prepare"] /\ UNCHANGED <<store, bulks, digests>>
  BY DEF Execute, Goto
<1>3. TypeOK
  BY DEF IInv
<1>4. /\ pc'[p] = "prepare" /\ call'[p] = [bulk |-> b, digest |-> d]
      /\ \A q \in Procs : q # p => pc'[q] = pc[q] /\ call'[q] = call[q]
  BY <1>1, <1>2, <1>3 DEF TypeOK
<1>5. d \in Digests
  BY <1>3 DEF TypeOK
<1>6. [bulk |-> b, digest |-> d] \in [bulk : BulkRequests \cup {Nil}, digest : Digests \cup {Nil}]
  BY <1>5
<1>7. /\ pc' \in [Procs -> {"idle", "prepare", "preview", "commit"}]
      /\ call' \in [Procs -> [bulk : BulkRequests \cup {Nil}, digest : Digests \cup {Nil}]]
  BY <1>1, <1>2, <1>3, <1>6 DEF TypeOK
<1>8. \A q \in Procs : pc'[q] # "idle" =>
        call'[q].bulk \in BulkRequests /\ call'[q].digest \in digests'
  BY <1>2, <1>3, <1>4 DEF TypeOK
<1>9. TypeOK'
  BY <1>2, <1>3, <1>7, <1>8 DEF TypeOK
<1>10. Reviewing'
  BY <1>1, <1>2, <1>4 DEF IInv, Reviewing
<1>11. Kept(store)' /\ Backed(store, bulks)'
  BY <1>2 DEF IInv, Kept, Backed
<1> QED
  BY <1>9, <1>10, <1>11 DEF IInv

LEMMA IInvPrepareFresh ==
  ASSUME IInv, NEW p \in Procs, PrepareFresh(p)
  PROVE  IInv'
<1>1. /\ pc[p] = "prepare" /\ pc' = [pc EXCEPT ![p] = "preview"]
      /\ UNCHANGED <<store, bulks, digests, call>>
  BY DEF PrepareFresh, Goto
<1>2. TypeOK
  BY DEF IInv
<1>3. pc'[p] = "preview" /\ \A q \in Procs : q # p => pc'[q] = pc[q]
  BY <1>1, <1>2 DEF TypeOK
<1>4. TypeOK'
  BY <1>1, <1>2, <1>3 DEF TypeOK
<1>5. Reviewing'
  BY <1>1, <1>3 DEF IInv, Reviewing
<1>6. Kept(store)' /\ Backed(store, bulks)'
  BY <1>1 DEF IInv, Kept, Backed
<1> QED
  BY <1>4, <1>5, <1>6 DEF IInv

LEMMA IInvPreviewAgain ==
  ASSUME IInv, NEW p \in Procs, PreviewAgain(p)
  PROVE  IInv'
<1>1. /\ pc[p] = "preview" /\ pc' = [pc EXCEPT ![p] = "commit"]
      /\ call[p].digest \in Previews(call[p].bulk)
      /\ UNCHANGED <<store, bulks, digests, call>>
  BY DEF PreviewAgain, Goto, StillAsReviewed
<1>2. TypeOK /\ Kept(store)
  BY DEF IInv
<1>3. pc'[p] = "commit" /\ \A q \in Procs : q # p => pc'[q] = pc[q]
  BY <1>1, <1>2 DEF TypeOK
<1>4. TypeOK'
  BY <1>1, <1>2, <1>3 DEF TypeOK
<1>5. Stays(store, call[p].bulk, call[p].digest)
  <2>1. call[p].bulk \in BulkRequests
    BY <1>1, <1>2, CallsType
  <2>2. PICK o \in BulkOutcomes(call[p].bulk) :
          call[p].digest = Digest(call[p].bulk, o.snapshots)
    BY <1>1 DEF Previews
  <2>3. o \in Outcomes(store, TransactionOf(call[p].bulk), Len(store.events) + 1)
    BY <2>2 DEF BulkOutcomes
  <2>4. Len(store.events) + 1 \in Nat
    BY <1>2 DEF Kept, Images
  <2> QED
    BY <1>2, <2>1, <2>2, <2>3, <2>4, PreviewStays
<1>6. Reviewing'
  BY <1>1, <1>3, <1>5 DEF IInv, Reviewing
<1>7. Kept(store)' /\ Backed(store, bulks)'
  BY <1>1 DEF IInv, Kept, Backed
<1> QED
  BY <1>4, <1>6, <1>7 DEF IInv

\* A replay and a failure: the call ends, and nothing else changes.
LEMMA IInvEnds ==
  ASSUME IInv, NEW p \in Procs, NEW value, Return(p, value),
         UNCHANGED <<store, bulks, digests>>
  PROVE  IInv'
<1>1. TypeOK /\ Reviewing /\ Kept(store)
  BY DEF IInv
<1>2. Kept(store') /\ Extends(store, store') /\ Moves(store, store')
  BY <1>1, StoreStays
<1>3. /\ pc' \in [Procs -> {"idle", "prepare", "preview", "commit"}]
      /\ call' \in [Procs -> [bulk : BulkRequests \cup {Nil}, digest : Digests \cup {Nil}]]
      /\ \A q \in Procs : pc'[q] # "idle" =>
           call'[q].bulk \in BulkRequests /\ call'[q].digest \in digests'
      /\ Reviewing'
  BY <1>1, <1>2, ReturnKeepsCalls
<1>4. TypeOK'
  BY <1>1, <1>3 DEF TypeOK
<1>5. Backed(store, bulks)'
  BY DEF IInv, Backed
<1> QED
  BY <1>2, <1>3, <1>4, <1>5 DEF IInv

LEMMA IInvCommitBulk ==
  ASSUME IInv, NEW p \in Procs, CommitBulk(p)
  PROVE  /\ IInv'
         /\ \E b \in BulkRequests :
              MayPerform(store, TransactionOf(b)) /\ store' \in Performed(store, TransactionOf(b))
<1>1. TypeOK /\ Reviewing /\ Kept(store) /\ Backed(store, bulks)
  BY DEF IInv
<1>2. PICK b : b = call[p].bulk
  OBVIOUS
<1>3. PICK g : g = call[p].digest
  OBVIOUS
<1>4. PICK e : e = store'
  OBVIOUS
<1>5. PICK entry : entry = Entry(p, store')
  OBVIOUS
<1>6. /\ pc[p] = "commit" /\ Unbound(TxKey(b.key)) /\ UNCHANGED digests
      /\ bulks' = [bulks EXCEPT ![b.key] = entry]
      /\ Return(p, bulks'[b.key])
  BY <1>2, <1>5 DEF CommitBulk
<1>7. PICK o \in BulkOutcomes(b) :
        e = Closed(o.image, TransactionOf(b), Len(store.events) + 1, o.children, o.snapshots)
  BY <1>2, <1>4 DEF CommitBulk
<1>8. o \in Outcomes(store, TransactionOf(b), Len(store.events) + 1)
  BY <1>7 DEF BulkOutcomes
<1>9. b \in BulkRequests /\ g \in digests /\ g \in Digests
  BY <1>1, <1>2, <1>3, <1>6, CallsType
<1>10. KeysSeparate(b) /\ Stays(store, b, g) /\ Fresh(store, TxKey(b.key))
  BY <1>1, <1>2, <1>3, <1>6 DEF Reviewing, Unbound
<1>11. entry = [bulk    |-> b,
                digest  |-> g,
                result  |-> e.idem[TxKey(b.key)].result,
                receipt |-> CHOOSE i \in ReceiptsFor(e, TxKey(b.key)) : TRUE]
  BY <1>2, <1>3, <1>4, <1>5 DEF Entry
<1>12. /\ entry \in BulkEntries /\ entry.receipt \in 1..Len(e.events)
       /\ VerifiedIn(e, entry) /\ AsReviewed(entry)
  BY <1>1, <1>7, <1>8, <1>9, <1>10, <1>11, EntryBacked
<1>13. /\ MayPerform(store, TransactionOf(b)) /\ e \in Performed(store, TransactionOf(b))
       /\ Kept(e) /\ Extends(store, e) /\ Moves(store, e)
  BY <1>1, <1>7, <1>8, <1>9, <1>10, BulkPerformed
<1>14. bulks \in [Keys -> BulkEntries \cup {Nil}]
  BY <1>1 DEF TypeOK
<1>15. Backed(e, bulks')
  BY <1>1, <1>6, <1>7, <1>8, <1>9, <1>10, <1>12, <1>14, BackedCommit
<1>16. Kept(store') /\ Extends(store, store') /\ Moves(store, store')
  BY <1>4, <1>13
<1>17. /\ pc' \in [Procs -> {"idle", "prepare", "preview", "commit"}]
       /\ call' \in [Procs -> [bulk : BulkRequests \cup {Nil}, digest : Digests \cup {Nil}]]
       /\ \A q \in Procs : pc'[q] # "idle" =>
            call'[q].bulk \in BulkRequests /\ call'[q].digest \in digests'
       /\ Reviewing'
  BY <1>1, <1>6, <1>16, ReturnKeepsCalls
<1>18. b.key \in Keys /\ bulks' \in [Keys -> BulkEntries \cup {Nil}]
       /\ bulks'[b.key] = entry /\ \A k \in Keys : k # b.key => bulks'[k] = bulks[k]
  BY <1>6, <1>9, <1>12, <1>14, BulkType
<1>19. ASSUME NEW k \in Keys, bulks'[k] # Nil
       PROVE  /\ bulks'[k].bulk.key = k
              /\ bulks'[k].digest \in digests'
              /\ bulks'[k].receipt \in 1..Len(store'.events)
  <2>1. CASE k = b.key
    BY <1>4, <1>6, <1>9, <1>11, <1>12, <1>18, <2>1
  <2>2. CASE k # b.key
    <3>1. bulks'[k] = bulks[k] /\ bulks[k] # Nil
      BY <1>18, <1>19, <2>2
    <3>2. digests \subseteq digests'
      BY <1>6
    <3> QED
      BY <1>1, <1>16, <3>1, <3>2, EntriesTyped
  <2> QED
    BY <2>1, <2>2
<1>20. store' \in Images /\ digests' \subseteq Digests
  BY <1>1, <1>6, <1>16 DEF Kept, TypeOK
<1>21. TypeOK'
  BY <1>17, <1>18, <1>19, <1>20 DEF TypeOK
<1>22. Backed(store', bulks')
  BY <1>4, <1>15
<1> QED
  BY <1>4, <1>9, <1>13, <1>16, <1>17, <1>21, <1>22 DEF IInv

LEMMA IInvOthers ==
  ASSUME IInv, Others
  PROVE  IInv'
<1>1. TypeOK /\ Reviewing /\ Kept(store) /\ Backed(store, bulks)
  BY DEF IInv
<1>2. store' \in Requested(store, Submissions, Evolutions)
      /\ UNCHANGED <<bulks, digests, pc, call, reply>>
  BY DEF Others
<1>3. AcceptableCalls(Submissions, Evolutions, BaseSchema)
  BY CallersAssumption
<1>4. /\ Kept(store') /\ Extends(store, store')
      /\ \A k \in Keys : (\A req \in Submissions : k \notin KeysOf(req)) =>
           store'.idem[k] = store.idem[k]
  BY <1>1, <1>2, <1>3, RequestedKept
<1>5. Moves(store, store')
  BY <1>1, <1>2, RequestedMoves
<1>6. ASSUME NEW b \in BulkRequests
      PROVE  store'.idem[TxKey(b.key)] = store.idem[TxKey(b.key)]
  <2>1. TxKey(b.key) \in Keys /\ \A req \in Submissions : TxKey(b.key) \notin KeysOf(req)
    BY BulkType, BulkAssumption DEF KeysOf
  <2> QED
    BY <1>4, <2>1
<1>7. Backed(store', bulks)
  <2>1. bulks \in [Keys -> BulkEntries \cup {Nil}]
    BY <1>1 DEF TypeOK
  <2> QED
    BY <1>1, <1>4, <1>6, <2>1, BackedOn
<1>8. ASSUME NEW q \in Procs, pc[q] = "commit"
      PROVE  Stays(store', call[q].bulk, call[q].digest)
  <2>1. store \in Images /\ store' \in Images
    BY <1>1, <1>4 DEF Kept
  <2>2. call[q].bulk \in BulkRequests /\ Stays(store, call[q].bulk, call[q].digest)
    BY <1>1, <1>8, CallsType DEF Reviewing
  <2> QED
    BY <1>5, <2>1, <2>2, StaysOn
<1>9. Reviewing'
  BY <1>1, <1>2, <1>8 DEF Reviewing
<1>10. ASSUME NEW k \in Keys, bulks[k] # Nil
       PROVE  bulks[k].receipt \in 1..Len(store'.events)
  <2>1. digests \subseteq digests'
    BY <1>2
  <2> QED
    BY <1>1, <1>4, <1>10, <2>1, EntriesTyped
<1>11. TypeOK'
  <2>1. store' \in Images
    BY <1>4 DEF Kept
  <2> QED
    BY <1>1, <1>2, <1>10, <2>1 DEF TypeOK
<1>12. Backed(store, bulks)'
  BY <1>2, <1>7
<1> QED
  BY <1>4, <1>9, <1>11, <1>12 DEF IInv

LEMMA IInvNext == IInv /\ [Next]_vars => IInv'
<1> SUFFICES ASSUME IInv, [Next]_vars PROVE IInv'
  OBVIOUS
<1>1. ASSUME NEW p \in Procs, Review(p) PROVE IInv'
  BY <1>1, IInvReview
<1>2. ASSUME NEW p \in Procs, Execute(p) PROVE IInv'
  BY <1>2, IInvExecute
<1>3. ASSUME NEW p \in Procs, PrepareFresh(p) PROVE IInv'
  BY <1>3, IInvPrepareFresh
<1>4. ASSUME NEW p \in Procs, Replay(p) PROVE IInv'
  BY <1>4, IInvEnds DEF Replay
<1>5. ASSUME NEW p \in Procs, PreviewAgain(p) PROVE IInv'
  BY <1>5, IInvPreviewAgain
<1>6. ASSUME NEW p \in Procs, CommitBulk(p) PROVE IInv'
  BY <1>6, IInvCommitBulk
<1>7. ASSUME NEW p \in Procs, Fail(p) PROVE IInv'
  BY <1>7, IInvEnds DEF Fail
<1>8. CASE Others
  BY <1>8, IInvOthers
<1>9. CASE UNCHANGED vars
  BY <1>9 DEF vars, IInv, Kept, TypeOK, Backed, Reviewing
<1> QED
  BY <1>1, <1>2, <1>3, <1>4, <1>5, <1>6, <1>7, <1>8, <1>9 DEF Next

\* In every reachable state the database is a sound one, bulk keys and the
\* transactions derived from them are bound together, and a process about to
\* commit holds a digest that the records still bear out: DataBulk.execute.
THEOREM BulkInvariance == Spec => []IInv
<1>1. Init => IInv
  BY IInvInit
<1>2. IInv /\ [Next]_vars => IInv'
  BY IInvNext
<1> QED
  BY <1>1, <1>2, PTL DEF Spec

\* What execute commits is what the caller reviewed (the mutations, the actor,
\* the records and their versions), under the schema reviewed or a later one:
\* the commit reads the records again, but nothing compares them with the
\* digest again.
THEOREM CommittedAsReviewed == Spec => []CommittedAsReviewedButSchema
<1>1. IInv => CommittedAsReviewedButSchema
  BY DEF IInv, Backed, AsReviewed, CommittedAsReviewedButSchema, Bound
<1> QED
  BY <1>1, BulkInvariance, PTL

\* A bulk key is bound exactly when its transaction is in the log, and every
\* bound key passes verifyReplay for ever.
THEOREM ReplaysAreVerified == Spec => []ReplaysVerify
<1>1. IInv => ReplaysVerify
  <2> SUFFICES ASSUME IInv PROVE ReplaysVerify
    OBVIOUS
  <2>1. ASSUME NEW b \in BulkRequests
        PROVE  bulks[b.key] = Nil <=> ReceiptsFor(store, TxKey(b.key)) = {}
    <3>1. bulks[b.key] = Nil <=> store.idem[TxKey(b.key)] = Nil
      BY DEF IInv, Backed
    <3>2. TxKey(b.key) \in Keys /\ LedgerMatchesLog(store)
      BY BulkType DEF IInv, Kept, LogSound
    <3> QED
      BY <3>1, <3>2 DEF LedgerMatchesLog
  <2>2. \A k \in Bound : Verified(bulks[k])
    BY DEF IInv, Backed, Bound, VerifiedIn, Verified
  <2> QED
    BY <2>1, <2>2 DEF ReplaysVerify, IInv
<1> QED
  BY <1>1, BulkInvariance, PTL

(***************************************************************************)
(* AtomicStore extends the same DataStore: what it says of images is what  *)
(* bulk operations say of them.                                            *)
(***************************************************************************)
LEMMA SameReads ==
  ASSUME NEW d, NEW m, NEW r, NEW refs, NEW key, NEW q
  PROVE  /\ Atomic!CurrentSchema(d) = CurrentSchema(d)
         /\ Atomic!SchemaVersion(d) = SchemaVersion(d)
         /\ Atomic!Fresh(d, key) <=> Fresh(d, key)
         /\ Atomic!WellKeyed(q) <=> WellKeyed(q)
         /\ Atomic!Resolvable(d, m, refs) <=> Resolvable(d, m, refs)
         /\ Atomic!Resolved(d, m, refs) = Resolved(d, m, refs)
         /\ Atomic!ClientRefFree(m, refs) <=> ClientRefFree(m, refs)
         /\ Atomic!Bind(refs, m, r) = Bind(refs, m, r)
<1>1. /\ Atomic!CurrentSchema(d) = CurrentSchema(d)
      /\ Atomic!SchemaVersion(d) = SchemaVersion(d)
  BY DEF Atomic!CurrentSchema, CurrentSchema, Atomic!SchemaVersion, SchemaVersion
<1>2. Atomic!Fresh(d, key) <=> Fresh(d, key)
  BY DEF Atomic!Fresh, Fresh
<1>3. Atomic!WellKeyed(q) <=> WellKeyed(q)
  BY DEF Atomic!WellKeyed, WellKeyed
<1>4. /\ Atomic!Resolvable(d, m, refs) <=> Resolvable(d, m, refs)
      /\ Atomic!Resolved(d, m, refs) = Resolved(d, m, refs)
  BY DEF Atomic!Resolvable, Resolvable, Atomic!Resolved, Resolved, Atomic!IsMarked,
         IsMarked, Atomic!IsReference, IsReference, Atomic!CurrentSchema, CurrentSchema,
         Atomic!SchemaVersion, SchemaVersion
<1>5. Atomic!ClientRefFree(m, refs) <=> ClientRefFree(m, refs)
  BY DEF Atomic!ClientRefFree, ClientRefFree
<1>6. Atomic!Bind(refs, m, r) = Bind(refs, m, r)
  BY DEF Atomic!Bind, Bind
<1> QED
  BY <1>1, <1>2, <1>3, <1>4, <1>5, <1>6

LEMMA SameGuard ==
  ASSUME NEW d, NEW m, NEW r
  PROVE  Atomic!MayMutate(d, m, r) <=> MayMutate(d, m, r)
  BY DEF Atomic!MayMutate, MayMutate, Atomic!Fresh, Fresh, Atomic!MayCreate, MayCreate,
         Atomic!MayUpdate, MayUpdate, Atomic!MayDelete, MayDelete,
         Atomic!WithDefaults, WithDefaults, Atomic!Defaulted, Defaulted,
         Atomic!Validates, Validates, Atomic!ValidFieldValue, ValidFieldValue,
         Atomic!TargetsExist, TargetsExist, Atomic!Active, Active, Atomic!RefsOf, RefsOf,
         Atomic!Merge, Merge, Atomic!VersionMatches, VersionMatches,
         Atomic!Unreferenced, Unreferenced, Atomic!CurrentSchema, CurrentSchema,
         Atomic!SchemaVersion, SchemaVersion, Atomic!IsReference, IsReference

LEMMA SameMutation ==
  ASSUME NEW d, NEW m, NEW r, NEW actor, NEW tx
  PROVE  Atomic!Mutated(d, m, r, actor, tx) = Mutated(d, m, r, actor, tx)
<1>1. ASSUME NEW row, NEW refs, NEW x
      PROVE  Atomic!Written(d, x, row, refs, m, actor, tx) =
               Written(d, x, row, refs, m, actor, tx)
  BY DEF Atomic!Written, Written, Atomic!EntryOf, EntryOf, Atomic!EventOf, EventOf,
         Atomic!AsRequest, AsRequest, Atomic!NoAdds, NoAdds
<1>2. ASSUME NEW schema, NEW data
      PROVE  /\ Atomic!RefsOf(schema, data) = RefsOf(schema, data)
             /\ Atomic!WithDefaults(schema, data) = WithDefaults(schema, data)
  BY DEF Atomic!RefsOf, RefsOf, Atomic!IsReference, IsReference,
         Atomic!WithDefaults, WithDefaults, Atomic!Defaulted, Defaulted
<1>3. /\ Atomic!CreatedRow(d, m, actor) = CreatedRow(d, m, actor)
      /\ Atomic!UpdatedRow(d, m, actor) = UpdatedRow(d, m, actor)
      /\ Atomic!DeletedRow(d, m, actor) = DeletedRow(d, m, actor)
      /\ Atomic!NoRefs = NoRefs
  BY <1>2, SameReads
     DEF Atomic!CreatedRow, CreatedRow, Atomic!UpdatedRow, UpdatedRow,
         Atomic!DeletedRow, DeletedRow, Atomic!Merge, Merge, Atomic!NoRefs, NoRefs
<1>4. /\ Atomic!Created(d, m, r, actor, tx) = Created(d, m, r, actor, tx)
      /\ Atomic!Updated(d, m, actor, tx) = Updated(d, m, actor, tx)
      /\ Atomic!Deleted(d, m, actor, tx) = Deleted(d, m, actor, tx)
  BY <1>1, <1>2, <1>3, SameReads
     DEF Atomic!Created, Created, Atomic!Updated, Updated, Atomic!Deleted, Deleted
<1> QED
  BY <1>4 DEF Atomic!Mutated, Mutated

LEMMA SameClosing ==
  ASSUME NEW d, NEW q, NEW tx, NEW children, NEW snapshots
  PROVE  Atomic!Closed(d, q, tx, children, snapshots) =
           Closed(d, q, tx, children, snapshots)
  BY DEF Atomic!Closed, Closed, Atomic!ClosingEntry, ClosingEntry,
         Atomic!ClosingEvent, ClosingEvent, Atomic!SchemaVersion, SchemaVersion

LEMMA SameSchemas ==
  ASSUME NEW d, NEW schema, NEW adds, NEW q, NEW tx
  PROVE  /\ Atomic!MayAddFields(schema, adds) <=> MayAddFields(schema, adds)
         /\ Atomic!WithFields(schema, adds) = WithFields(schema, adds)
         /\ Atomic!Evolved(d, schema) = Evolved(d, schema)
         /\ Atomic!MayEnsure(d, q) <=> MayEnsure(d, q)
         /\ Atomic!Ensured(d, q, tx) = Ensured(d, q, tx)
<1>1. ASSUME NEW s, NEW more
      PROVE  /\ Atomic!MayAddFields(s, more) <=> MayAddFields(s, more)
             /\ Atomic!WithFields(s, more) = WithFields(s, more)
             /\ Atomic!Missing(s, more) = Missing(s, more)
             /\ Atomic!Compatible(s, more) <=> Compatible(s, more)
             /\ Atomic!Evolved(d, s) = Evolved(d, s)
             /\ Atomic!NoAdds = NoAdds
  BY DEF Atomic!MayAddFields, MayAddFields, Atomic!MayAddField, MayAddField,
         Atomic!ValidDefinition, ValidDefinition, Atomic!ValidFieldValue, ValidFieldValue,
         Atomic!WithFields, WithFields, Atomic!Missing, Missing,
         Atomic!Compatible, Compatible, Atomic!Evolved, Evolved, Atomic!NoAdds, NoAdds
<1>2. Atomic!MayEnsure(d, q) <=> MayEnsure(d, q)
  BY <1>1, SameReads DEF Atomic!MayEnsure, MayEnsure
<1>3. Atomic!Ensured(d, q, tx) = Ensured(d, q, tx)
  BY <1>1, SameReads, SameClosing DEF Atomic!Ensured, Ensured
<1> QED
  BY <1>1, <1>2, <1>3

LEMMA SameOutcome ==
  ASSUME NEW d, NEW r, NEW recs, NEW tx, Len(r.ops) \in Nat
  PROVE  Atomic!Outcome(d, r, recs, tx) = Outcome(d, r, recs, tx)
<1> DEFINE n == Len(r.ops)
           Run(f) == f = [k \in 0..Len(r.ops) |->
                            IF k = 0 THEN Atomic!Begun(d)
                            ELSE Atomic!Continued(f[k - 1], r.ops[k], recs[k], r.actor, tx)]
<1>1. Atomic!Outcome(d, r, recs, tx) = (CHOOSE f : Run(f))[n]
  BY DEF Atomic!Outcome
<1>2. ASSUME NEW f PROVE Run(f) <=> IsRun(f, d, r, recs, tx, n)
  <2>1. Atomic!Begun(d) = Begun(d)
    BY DEF Atomic!Begun, Begun
  <2>2. ASSUME NEW o, NEW m, NEW x, NEW actor
        PROVE  Atomic!Continued(o, m, x, actor, tx) = Continued(o, m, x, actor, tx)
    BY SameReads, SameGuard, SameMutation DEF Atomic!Continued, Continued
  <2> QED
    BY <2>1, <2>2 DEF IsRun
<1> HIDE DEF Run, n
<1>3. PICK f : IsRun(f, d, r, recs, tx, n)
  BY RunExists DEF n
<1>4. IsRun(CHOOSE g : Run(g), d, r, recs, tx, n)
  BY <1>2, <1>3
<1>5. PICK g : IsRun(g, d, r, recs, tx, n) /\ After(d, r, recs, tx, n) = g[n]
  BY AfterIsRun DEF n
<1>6. n \in Nat /\ n <= n /\ n \in 0..n
  BY DEF n
<1>7. (CHOOSE h : Run(h))[n] = g[n]
  <2> DEFINE c == CHOOSE h : Run(h)
  <2>1. IsRun(c, d, r, recs, tx, n)
    BY <1>4
  <2> HIDE DEF c
  <2>2. c[n] = g[n]
    BY <1>5, <1>6, <2>1, RunsAgree
  <2> QED
    BY <2>2 DEF c
<1> QED
  BY <1>1, <1>5, <1>7, OutcomeIsAfter DEF n

LEMMA SamePerformance ==
  ASSUME NEW d, NEW r, Len(r.ops) \in Nat
  PROVE  /\ Atomic!MayPerform(d, r) <=> MayPerform(d, r)
         /\ Atomic!Performed(d, r) = Performed(d, r)
<1>1. Atomic!MayPerform(d, r) <=> MayPerform(d, r)
  BY SameReads, SameSchemas DEF Atomic!MayPerform, MayPerform
<1>2. ASSUME NEW tx PROVE Atomic!Outcomes(d, r, tx) = Outcomes(d, r, tx)
  BY SameOutcome DEF Atomic!Outcomes, Outcomes
<1> DEFINE tx == Len(d.events) + 1
<1>3. /\ {o.image : o \in Atomic!Outcomes(d, r, 0)} = {o.image : o \in Outcomes(d, r, 0)}
      /\ {Atomic!Closed(o.image, r, tx, o.children, o.snapshots) :
            o \in Atomic!Outcomes(d, r, tx)}
           = {Closed(o.image, r, tx, o.children, o.snapshots) : o \in Outcomes(d, r, tx)}
      /\ {Atomic!Ensured(d, r, tx)} = {Ensured(d, r, tx)}
  BY <1>2, SameClosing, SameSchemas
<1>4. Atomic!Performed(d, r) = Performed(d, r)
  BY <1>3 DEF Atomic!Performed, Performed
<1> QED
  BY <1>1, <1>4

LEMMA SameRequests ==
  ASSUME NEW S, \A r \in S : Len(r.ops) \in Nat
  PROVE  (UNION {Atomic!Performed(store, q) : q \in {r \in S : Atomic!MayPerform(store, r)}})
           \cup {Atomic!Evolved(store, Atomic!WithFields(Atomic!CurrentSchema(store), adds)) :
                   adds \in {x \in Evolutions :
                              Atomic!MayAddFields(Atomic!CurrentSchema(store), x)}}
         = Requested(store, S, Evolutions)
<1>1. UNION {Atomic!Performed(store, q) : q \in {r \in S : Atomic!MayPerform(store, r)}}
        = UNION {Performed(store, q) : q \in {r \in S : MayPerform(store, r)}}
  BY SamePerformance
<1>2. {Atomic!Evolved(store, Atomic!WithFields(Atomic!CurrentSchema(store), adds)) :
         adds \in {x \in Evolutions : Atomic!MayAddFields(Atomic!CurrentSchema(store), x)}}
        = {Evolved(store, WithFields(CurrentSchema(store), adds)) :
             adds \in {x \in Evolutions : MayAddFields(CurrentSchema(store), x)}}
  <2>1. Atomic!CurrentSchema(store) = CurrentSchema(store)
    BY SameReads
  <2>2. \A schema, adds : /\ Atomic!MayAddFields(schema, adds) <=> MayAddFields(schema, adds)
                         /\ Atomic!WithFields(schema, adds) = WithFields(schema, adds)
                         /\ Atomic!Evolved(store, schema) = Evolved(store, schema)
    BY SameSchemas
  <2> QED
    BY <2>1, <2>2
<1> QED
  BY <1>1, <1>2 DEF Requested

(***************************************************************************)
(* Every step maps to a step of the atomic store or leaves the store alone.*)
(***************************************************************************)
Submitted == Submissions \cup {TransactionOf(b) : b \in BulkRequests}

LEMMA StepsSimulate ==
  ASSUME IInv, [Next]_vars
  PROVE  [Atomic!Next]_store
<1>1. ASSUME store' \in Requested(store, Submitted, Evolutions)
      PROVE  [Atomic!Next]_store
  <2>1. \A r \in Submitted : Len(r.ops) \in Nat
    BY BulkAssumption, CallersAssumption, BulkType, AcceptableType DEF Submitted, AcceptableCalls
  <2>2. Atomic!Requested(store, Submitted, Evolutions) = Requested(store, Submitted, Evolutions)
    BY <2>1, SameRequests DEF Atomic!Requested
  <2> QED
    BY <1>1, <2>2 DEF Atomic!Next, Submitted
<1>2. ASSUME NEW p \in Procs, CommitBulk(p)
      PROVE  store' \in Requested(store, Submitted, Evolutions)
  <2>1. PICK b \in BulkRequests :
          MayPerform(store, TransactionOf(b)) /\ store' \in Performed(store, TransactionOf(b))
    BY <1>2, IInvCommitBulk
  <2>2. TransactionOf(b) \in Submitted
    BY DEF Submitted
  <2> QED
    BY <2>1, <2>2, RequestedCases
<1>3. ASSUME Others
      PROVE  store' \in Requested(store, Submitted, Evolutions)
  <2>1. store' \in Requested(store, Submissions, Evolutions)
    BY <1>3 DEF Others
  <2> QED
    BY <2>1, RequestedCases DEF Submitted
<1>4. ASSUME NEW p \in Procs,
             Review(p) \/ Execute(p) \/ PrepareFresh(p) \/ Replay(p) \/ PreviewAgain(p)
               \/ Fail(p)
      PROVE  UNCHANGED store
  BY <1>4 DEF Review, Execute, PrepareFresh, Replay, PreviewAgain, Fail
<1>5. CASE UNCHANGED vars
  BY <1>5 DEF vars
<1> QED
  BY <1>1, <1>2, <1>3, <1>4, <1>5 DEF Next

LEMMA InitSimulates == Init => Atomic!Init
  BY DEF Init, Atomic!Init, Atomic!EmptyImage, EmptyImage, Atomic!NoRefs, NoRefs

\* However many processes preview, execute and retry, whatever fails in between
\* and whatever other callers do, the database changes only by one whole request
\* at a time, a caller's or the transaction of a bulk request, carried out on
\* the image the one before it left and at most once; previews change nothing.
THEOREM BulkRefinement == Spec => ImplementsAtomicStore
<1>1. IInv /\ [Next]_vars => [Atomic!Next]_store
  BY StepsSimulate
<1> QED
  BY <1>1, BulkInvariance, InitSimulates, PTL DEF Spec, ImplementsAtomicStore, Atomic!Spec

(***************************************************************************)
(* SchemaMigrations: what a proposal makes of a schema and of data.        *)
(***************************************************************************)
\* What holds first, and of each value if it holds of the one before, holds of
\* all of them.
LEMMA StepsStay ==
  ASSUME NEW S, NEW n \in Nat, NEW f, f[0] \in S,
         \A k \in 1..n : f[k - 1] \in S => f[k] \in S
  PROVE  \A k \in 0..n : f[k] \in S
<1> DEFINE T == {k \in Nat : k <= n => f[k] \in S}
<1>1. 0 \in T
  OBVIOUS
<1>2. ASSUME NEW k \in Nat, k \in T PROVE k + 1 \in T
  <2> SUFFICES ASSUME k + 1 <= n PROVE f[k + 1] \in S
    OBVIOUS
  <2>1. f[k] \in S /\ k + 1 \in 1..n /\ (k + 1) - 1 = k
    BY <1>2
  <2> QED
    BY <2>1
<1>3. Nat \subseteq T
  <2> HIDE DEF T
  <2> QED
    BY <1>1, <1>2, NumberInduction
<1> QED
  BY <1>3

LEMMA ChangedType ==
  ASSUME NEW schema \in Schemas, NEW c \in Changes
  PROVE  Changed(schema, c) \in Schemas
<1>1. /\ c.op \in ChangeOps /\ c.field \in Fields /\ c.newField \in Fields
      /\ c.def \in FieldDefinitions \cup {Undeclared}
  BY DEF Changes
<1>2. schema[c.field] \in FieldDefinitions \cup {Undeclared}
  BY <1>1 DEF Schemas
<1>3. CASE c.op \in {"add_field", "replace_field"}
  <2>1. Changed(schema, c) = [schema EXCEPT ![c.field] = c.def]
    BY <1>3 DEF Changed
  <2> QED
    BY <1>1, <2>1 DEF Schemas
<1>4. CASE c.op = "remove_field"
  <2>1. Changed(schema, c) = [schema EXCEPT ![c.field] = Undeclared]
    BY <1>4 DEF Changed
  <2> QED
    BY <1>1, <2>1 DEF Schemas
<1>5. CASE c.op = "rename_field"
  <2>1. Changed(schema, c) =
          [schema EXCEPT ![c.newField] = schema[c.field], ![c.field] = Undeclared]
    BY <1>5 DEF Changed
  <2> QED
    BY <1>1, <1>2, <2>1 DEF Schemas
<1> QED
  BY <1>1, <1>3, <1>4, <1>5 DEF ChangeOps

LEMMA StagesValues ==
  ASSUME NEW schema \in Schemas, NEW changes \in Seq(Changes)
  PROVE  LET stages == Stages(schema, changes)
         IN  /\ stages[0] = schema
             /\ \A n \in 1..Len(changes) : stages[n] = Changed(stages[n - 1], changes[n])
             /\ \A n \in 0..Len(changes) : stages[n] \in Schemas
<1> DEFINE len == Len(changes)
           step == [x \in (1..len) \X Schemas |-> Changed(x[2], changes[x[1]])]
           IsStages(f) == f = [n \in 0..len |->
                                 IF n = 0 THEN schema ELSE Changed(f[n - 1], changes[n])]
           stages == CHOOSE f : IsStages(f)
<1>1. len \in Nat /\ \A n \in 1..len : changes[n] \in Changes
  OBVIOUS
<1>2. step \in [(1..len) \X Schemas -> Schemas]
  BY <1>1, ChangedType
<1>3. PICK f \in [0..len -> Schemas] : Recursion(f, schema, len, step)
  <2> HIDE DEF len, step
  <2> QED
    BY <1>1, <1>2, RecursionExists
<1>4. \A k \in 1..len : f[k] = Changed(f[k - 1], changes[k])
  BY <1>1, <1>3 DEF Recursion
<1> HIDE DEF step, len
<1>5. IsStages(f)
  BY <1>1, <1>3, <1>4 DEF Recursion
<1>6. IsStages(stages)
  <2> HIDE DEF IsStages
  <2> QED
    BY <1>5
<1>7. stages = Stages(schema, changes)
  BY DEF Stages, len
<1> HIDE DEF stages
<1>8. /\ stages[0] = schema
      /\ \A n \in 1..len : stages[n] = Changed(stages[n - 1], changes[n])
  BY <1>1, <1>6
<1> HIDE DEF IsStages
<1>9. \A n \in 1..len : stages[n - 1] \in Schemas => stages[n] \in Schemas
  BY <1>1, <1>8, ChangedType
<1>10. \A n \in 0..len : stages[n] \in Schemas
  BY <1>1, <1>8, <1>9, StepsStay
<1> QED
  BY <1>7, <1>8, <1>10 DEF len

LEMMA MovedType ==
  ASSUME NEW data \in Data, NEW c \in Changes
  PROVE  Moved(data, c) \in Data
<1>1. c.field \in Fields /\ c.newField \in Fields
  BY DEF Changes
<1>2. data[c.field] \in Values \cup {Absent}
  BY <1>1 DEF Data
<1>3. \/ Moved(data, c) = [data EXCEPT ![c.field] = Absent]
      \/ Moved(data, c) = [data EXCEPT ![c.newField] = data[c.field], ![c.field] = Absent]
      \/ Moved(data, c) = data
  BY DEF Moved
<1> QED
  BY <1>1, <1>2, <1>3 DEF Data

LEMMA DataMovesType ==
  ASSUME NEW data \in Data, NEW changes \in Seq(Changes)
  PROVE  DataMoves(data, changes)[Len(changes)] \in Data
<1> DEFINE len == Len(changes)
           step == [x \in (1..len) \X Data |-> Moved(x[2], changes[x[1]])]
           AreMoves(f) == f = [n \in 0..len |->
                                 IF n = 0 THEN data ELSE Moved(f[n - 1], changes[n])]
           moved == CHOOSE f : AreMoves(f)
<1>1. len \in Nat /\ \A n \in 1..len : changes[n] \in Changes
  OBVIOUS
<1>2. step \in [(1..len) \X Data -> Data]
  BY <1>1, MovedType
<1>3. PICK f \in [0..len -> Data] : Recursion(f, data, len, step)
  <2> HIDE DEF len, step
  <2> QED
    BY <1>1, <1>2, RecursionExists
<1>4. \A k \in 1..len : f[k] = Moved(f[k - 1], changes[k])
  BY <1>1, <1>3 DEF Recursion
<1> HIDE DEF step, len
<1>5. AreMoves(f)
  BY <1>1, <1>3, <1>4 DEF Recursion
<1>6. AreMoves(moved)
  <2> HIDE DEF AreMoves
  <2> QED
    BY <1>5
<1>7. moved = DataMoves(data, changes)
  BY DEF DataMoves, len
<1> HIDE DEF moved
<1>8. /\ moved[0] = data
      /\ \A n \in 1..len : moved[n] = Moved(moved[n - 1], changes[n])
  BY <1>1, <1>6
<1> HIDE DEF AreMoves
<1>9. \A n \in 1..len : moved[n - 1] \in Data => moved[n] \in Data
  BY <1>1, <1>8, MovedType
<1>10. \A n \in 0..len : moved[n] \in Data
  BY <1>1, <1>8, <1>9, StepsStay
<1> QED
  BY <1>1, <1>7, <1>10 DEF len

LEMMA FillingsType ==
  ASSUME NEW data \in Data, NEW backfills \in Seq(Backfills)
  PROVE  Fillings(data, backfills)[Len(backfills)] \in Data
<1> DEFINE len == Len(backfills)
           step == [x \in (1..len) \X Data |-> Filled(x[2], backfills[x[1]])]
           AreFillings(f) == f = [n \in 0..len |->
                                    IF n = 0 THEN data ELSE Filled(f[n - 1], backfills[n])]
           filled == CHOOSE f : AreFillings(f)
<1>1. len \in Nat /\ \A n \in 1..len : backfills[n] \in Backfills
  OBVIOUS
<1>2. ASSUME NEW old \in Data, NEW backfill \in Backfills PROVE Filled(old, backfill) \in Data
  BY DEF Filled, Backfills, Data
<1>3. step \in [(1..len) \X Data -> Data]
  BY <1>1, <1>2
<1>4. PICK f \in [0..len -> Data] : Recursion(f, data, len, step)
  <2> HIDE DEF len, step
  <2> QED
    BY <1>1, <1>3, RecursionExists
<1>5. \A k \in 1..len : f[k] = Filled(f[k - 1], backfills[k])
  BY <1>1, <1>4 DEF Recursion
<1> HIDE DEF step, len
<1>6. AreFillings(f)
  BY <1>1, <1>4, <1>5 DEF Recursion
<1>7. AreFillings(filled)
  <2> HIDE DEF AreFillings
  <2> QED
    BY <1>6
<1>8. filled = Fillings(data, backfills)
  BY DEF Fillings, len
<1> HIDE DEF filled
<1>9. /\ filled[0] = data
      /\ \A n \in 1..len : filled[n] = Filled(filled[n - 1], backfills[n])
  BY <1>1, <1>7
<1> HIDE DEF AreFillings
<1>10. \A n \in 1..len : filled[n - 1] \in Data => filled[n] \in Data
  BY <1>1, <1>2, <1>9
<1>11. \A n \in 0..len : filled[n] \in Data
  BY <1>1, <1>9, <1>10, StepsStay
<1> QED
  BY <1>1, <1>8, <1>11 DEF len

\* A migration proposes a schema, and data for each record.
LEMMA ProposalType ==
  ASSUME NEW m \in Proposals
  PROVE  /\ m.actor \in Actors /\ m.changes \in Seq(Changes)
         /\ m.backfills \in Seq(Backfills)
         /\ \A schema \in Schemas : Proposed(schema, m) \in Schemas
<1>1. m.actor \in Actors /\ m.changes \in Seq(Changes) /\ m.backfills \in Seq(Backfills)
  BY MigrationAssumption
<1>2. ASSUME NEW schema \in Schemas PROVE Proposed(schema, m) \in Schemas
  <2>1. Len(m.changes) \in 0..Len(m.changes)
    BY <1>1
  <2> QED
    BY <1>1, <2>1, StagesValues DEF Proposed
<1> QED
  BY <1>1, <1>2

LEMMA RowDataType ==
  ASSUME NEW d \in Images, NEW r \in Ids, Active(d, r), NEW m \in Proposals
  PROVE  RowData(d, r, m) \in Data
<1>1. CurrentSchema(d) \in Schemas /\ d.records[r] \in Rows
  BY CurrentSchemaType DEF Active, Images
<1>2. d.records[r].data \in Data
  BY <1>1 DEF Rows
<1>3. Proposed(CurrentSchema(d), m) \in Schemas
  BY <1>1, ProposalType
<1> DEFINE moved == DataMoves(d.records[r].data, m.changes)[Len(m.changes)]
<1>4. moved \in Data
  BY <1>2, ProposalType, DataMovesType
<1> HIDE DEF moved
<1>5. Fillings(moved, m.backfills)[Len(m.backfills)] \in Data
  BY <1>4, ProposalType, FillingsType
<1>6. RowData(d, r, m) = WithDefaults(Proposed(CurrentSchema(d), m),
                                     Fillings(moved, m.backfills)[Len(m.backfills)])
  BY DEF RowData, Transformed, moved
<1> QED
  BY <1>3, <1>5, <1>6, WithDefaultsType

\* Only a destructive migration takes a field away.
LEMMA AddingKeepsFields ==
  ASSUME NEW schema \in Schemas, NEW m \in Proposals, Applicable(schema, m),
         ~Destructive(m)
  PROVE  KeepsFields(schema, Proposed(schema, m))
<1> DEFINE stages == Stages(schema, m.changes)
           len == Len(m.changes)
           S == {s \in Schemas : KeepsFields(schema, s)}
<1>1. len \in Nat /\ \A n \in 1..len : m.changes[n] \in Changes
  BY ProposalType
<1>2. /\ stages[0] = schema
      /\ \A n \in 1..len : stages[n] = Changed(stages[n - 1], m.changes[n])
      /\ \A n \in 0..len : stages[n] \in Schemas
  BY ProposalType, StagesValues
<1>3. \A n \in 1..len : MayChange(stages[n - 1], m.changes[n]) /\ m.changes[n].op = "add_field"
  BY DEF Applicable, Destructive
<1>4. Proposed(schema, m) = stages[len]
  BY DEF Proposed
<1> HIDE DEF stages, len
<1>5. stages[0] \in S
  BY <1>2 DEF KeepsFields
<1>6. ASSUME NEW n \in 1..len, stages[n - 1] \in S PROVE stages[n] \in S
  <2> DEFINE c == m.changes[n]
             old == stages[n - 1]
  <2>1. old[c.field] = Undeclared /\ c.op = "add_field" /\ c.field \in Fields
    BY <1>1, <1>3 DEF MayChange, Changes
  <2>2. stages[n] = [old EXCEPT ![c.field] = c.def]
    BY <1>2, <2>1 DEF Changed
  <2>3. old \in Schemas /\ KeepsFields(schema, old)
    BY <1>6
  <2> HIDE DEF c, old
  <2>4. KeepsFields(schema, stages[n])
    BY <2>1, <2>2, <2>3 DEF KeepsFields, Schemas
  <2>5. stages[n] \in Schemas
    BY <1>1, <1>2
  <2> QED
    BY <2>4, <2>5
<1>7. \A n \in 0..len : stages[n] \in S
  <2> HIDE DEF S
  <2> QED
    BY <1>1, <1>5, <1>6, StepsStay
<1> QED
  BY <1>1, <1>4, <1>7

(***************************************************************************)
(* The order of the rewrites.                                              *)
(***************************************************************************)
\* An active record has a first event, which is no other record's.
LEMMA CreatedAtFirst ==
  ASSUME NEW d, Kept(d), NEW r \in ActiveRecords(d)
  PROVE  CreatedAt(d, r) \in 1..Len(d.events) /\ d.events[CreatedAt(d, r)].rec = r
<1>1. r \in Ids /\ d.records[r] # Nil /\ d \in Images /\ HistoryLogged(d, r)
  BY DEF ActiveRecords, Active, Kept, LogSound, VersionsLogged
<1>2. d.records[r].version \in Nat \ {0}
  BY <1>1 DEF Images, Rows
<1>3. \E i \in EventsOf(d, r) : d.events[i].after = 1
  BY <1>1, <1>2 DEF HistoryLogged
<1>4. EventsOf(d, r) \in SUBSET Nat /\ EventsOf(d, r) # {}
  BY <1>3 DEF EventsOf
<1>5. \E i \in EventsOf(d, r) : \A j \in EventsOf(d, r) : i <= j
  BY <1>4, LeastNumber
<1>6. CreatedAt(d, r) \in EventsOf(d, r)
  BY <1>5 DEF CreatedAt
<1> QED
  BY <1>6 DEF EventsOf

LEMMA ActiveRecordsFinite ==
  ASSUME NEW d, Kept(d)
  PROVE  IsFiniteSet(ActiveRecords(d)) /\ Cardinality(ActiveRecords(d)) \in Nat
<1> DEFINE A == ActiveRecords(d)
           f == [r \in A |-> CreatedAt(d, r)]
<1>1. Len(d.events) \in Int
  BY DEF Kept, Images
<1>2. IsFiniteSet(1..Len(d.events))
  BY <1>1, FS_Interval
<1>3. f \in [A -> 1..Len(d.events)]
  BY CreatedAtFirst
<1>4. ASSUME NEW r \in A, NEW s \in A, f[r] = f[s] PROVE r = s
  <2>1. CreatedAt(d, r) = CreatedAt(d, s)
    BY <1>4
  <2> QED
    BY <2>1, CreatedAtFirst
<1> HIDE DEF f, A
<1>5. f \in Injection(A, 1..Len(d.events))
  BY <1>3, <1>4 DEF Injection, IsInjective
<1>6. IsFiniteSet(A)
  BY <1>2, <1>5, FS_Injection
<1> QED
  BY <1>6, FS_CardinalityType DEF A

\* InOrder numbers the active records.
LEMMA OrderNumbers ==
  ASSUME NEW d, Kept(d)
  PROVE  LET order == InOrder(d)
         IN  /\ Len(order) = Cardinality(ActiveRecords(d)) /\ Len(order) \in Nat
             /\ \A n \in 1..Len(order) : order[n] \in ActiveRecords(d)
             /\ \A i, j \in 1..Len(order) : order[i] = order[j] => i = j
             /\ \A r \in ActiveRecords(d) : \E n \in 1..Len(order) : order[n] = r
<1> DEFINE A == ActiveRecords(d)
           upTo(r) == {s \in A : CreatedAt(d, s) <= CreatedAt(d, r)}
           rank == [r \in A |-> Cardinality(upTo(r))]
           order == InOrder(d)
           size == Cardinality(A)
<1>1. IsFiniteSet(A) /\ size \in Nat
  BY ActiveRecordsFinite
<1>2. \A r \in A : CreatedAt(d, r) \in Nat /\ \A s \in A : CreatedAt(d, r) = CreatedAt(d, s) => r = s
  BY CreatedAtFirst
<1>3. ASSUME NEW r \in A
      PROVE  IsFiniteSet(upTo(r)) /\ Cardinality(upTo(r)) \in 1..size /\ r \in upTo(r)
  <2>1. upTo(r) \in SUBSET A /\ r \in upTo(r)
    BY <1>2
  <2> HIDE DEF upTo, A
  <2>2. IsFiniteSet(upTo(r)) /\ Cardinality(upTo(r)) <= size
    BY <1>1, <2>1, FS_Subset
  <2>3. Cardinality(upTo(r)) \in Nat /\ Cardinality(upTo(r)) # 0
    BY <2>1, <2>2, FS_CardinalityType, FS_EmptySet
  <2> QED
    BY <1>1, <2>1, <2>2, <2>3
<1>4. ASSUME NEW r \in A, NEW s \in A, CreatedAt(d, r) < CreatedAt(d, s)
      PROVE  Cardinality(upTo(r)) # Cardinality(upTo(s))
  <2>1. upTo(r) \in SUBSET upTo(s) /\ s \in upTo(s) /\ s \notin upTo(r)
    BY <1>2, <1>4
  <2> HIDE DEF upTo
  <2>2. IsFiniteSet(upTo(s))
    BY <1>3
  <2> QED
    BY <2>1, <2>2, FS_Subset
<1>5. ASSUME NEW r \in A, NEW s \in A, rank[r] = rank[s] PROVE r = s
  <2>1. ~(CreatedAt(d, r) < CreatedAt(d, s)) /\ ~(CreatedAt(d, s) < CreatedAt(d, r))
    BY <1>4, <1>5
  <2> QED
    BY <1>2, <2>1
<1>6. rank \in [A -> 1..size]
  BY <1>3
<1>7. order = [n \in 1..size |-> CHOOSE r \in A : Cardinality(upTo(r)) = n]
  BY DEF InOrder
<1>8. \A n \in 1..size : order[n] = CHOOSE r \in A : rank[r] = n
  <2> SUFFICES ASSUME NEW n \in 1..size PROVE order[n] = CHOOSE r \in A : rank[r] = n
    OBVIOUS
  <2>1. order[n] = CHOOSE r \in A : Cardinality(upTo(r)) = n
    BY <1>7
  <2>2. \A r \in A : (Cardinality(upTo(r)) = n) <=> (rank[r] = n)
    OBVIOUS
  <2> HIDE DEF rank, upTo
  <2>3. (CHOOSE r \in A : Cardinality(upTo(r)) = n) = (CHOOSE r \in A : rank[r] = n)
    BY <2>2
  <2> QED
    BY <2>1, <2>3
<1>9. DOMAIN order = 1..size /\ order = [n \in 1..size |-> order[n]]
  <2> HIDE DEF order, size, upTo
  <2> QED
    BY <1>7
<1>10. Len(order) = size
  <2> HIDE DEF order, size
  <2>1. order \in [1..size -> {order[n] : n \in 1..size}]
    <3> DEFINE T == {order[n] : n \in 1..size}
    <3>1. \A n \in 1..size : order[n] \in T
      OBVIOUS
    <3> QED
      BY <1>9, <3>1
  <2>2. order \in Seq({order[n] : n \in 1..size})
    BY <1>1, <2>1
  <2> QED
    BY <1>1, <1>9, <2>2
<1> HIDE DEF upTo, order, rank, size, A
<1>11. rank \in Surjection(A, 1..size)
  <2>1. rank \in Injection(A, 1..size)
    BY <1>5, <1>6 DEF Injection, IsInjective
  <2>2. IsFiniteSet(1..size) /\ Cardinality(1..size) = size
    BY <1>1, FS_Interval
  <2>3. Cardinality(A) = Cardinality(1..size)
    BY <2>2 DEF size
  <2> QED
    BY <2>1, <2>2, <2>3, FS_Injection
<1>12. \A n \in 1..size : \E r \in A : rank[r] = n
  BY <1>11 DEF Surjection
<1>13. \A n \in 1..size : order[n] \in A /\ rank[order[n]] = n
  <2> SUFFICES ASSUME NEW n \in 1..size PROVE order[n] \in A /\ rank[order[n]] = n
    OBVIOUS
  <2>1. order[n] = CHOOSE r \in A : rank[r] = n
    BY <1>8
  <2>2. \E r \in A : rank[r] = n
    BY <1>12
  <2> QED
    BY <2>1, <2>2
<1>14. \A r \in A : order[rank[r]] = r
  <2> SUFFICES ASSUME NEW r \in A PROVE order[rank[r]] = r
    OBVIOUS
  <2>1. rank[r] \in 1..size
    BY <1>6
  <2> QED
    BY <1>5, <1>13, <2>1
<1>15. \A r \in A : \E n \in 1..size : order[n] = r
  BY <1>6, <1>14
<1>16. \A i, j \in 1..size : order[i] = order[j] => i = j
  BY <1>13
<1> QED
  BY <1>1, <1>10, <1>13, <1>15, <1>16 DEF order, size, A

(***************************************************************************)
(* The rewrites of a migration.                                            *)
(***************************************************************************)
\* What a write leaves in the tables.
Wrote(d, r, row, m, actor, tx, e) ==
  /\ e.schemas = d.schemas
  /\ e.records[r] = row
  /\ \A s \in Ids : s # r => e.records[s] = d.records[s]
  /\ e.idem[m.key] = EntryOf(r, row, m, actor)
  /\ \A key \in Keys : key # m.key => e.idem[key] = d.idem[key]
  /\ Len(e.events) = Len(d.events) + 1
  /\ e.events[Len(d.events) + 1] = EventOf(r, row, m, actor, tx)
  /\ \A i \in 1..Len(d.events) : e.events[i] = d.events[i]

LEMMA WrittenLeaves ==
  ASSUME NEW d \in Images, NEW r \in Ids, NEW row, NEW refs, NEW m \in Mutations,
         NEW actor, NEW tx, NEW e, e = Written(d, r, row, refs, m, actor, tx)
  PROVE  Wrote(d, r, row, m, actor, tx, e)
<1> DEFINE entry == EntryOf(r, row, m, actor)
           event == EventOf(r, row, m, actor, tx)
<1>1. /\ e.schemas = d.schemas
      /\ e.records = [d.records EXCEPT ![r] = row]
      /\ e.idem = [d.idem EXCEPT ![m.key] = entry]
      /\ e.events = Append(d.events, event)
  BY DEF Written
<1>2. /\ d.records \in [Ids -> Rows \cup {Nil}] /\ d.idem \in [Keys -> Entries \cup {Nil}]
      /\ d.events \in Seq(Events) /\ m.key \in Keys
  BY DEF Images, Mutations
<1> HIDE DEF entry, event
<1>3. e.records[r] = row /\ \A s \in Ids : s # r => e.records[s] = d.records[s]
  BY <1>1, <1>2
<1>4. e.idem[m.key] = entry /\ \A key \in Keys : key # m.key => e.idem[key] = d.idem[key]
  BY <1>1, <1>2
<1>5. /\ Len(e.events) = Len(d.events) + 1
      /\ e.events[Len(d.events) + 1] = event
      /\ \A i \in 1..Len(d.events) : e.events[i] = d.events[i]
  BY <1>1, <1>2
<1> QED
  BY <1>1, <1>3, <1>4, <1>5 DEF Wrote, entry, event

\* A migration may be carried out under a key.
Planned(d, k, m) ==
  /\ Kept(d) /\ m \in Proposals /\ k \in MigrationKeys
  /\ Plannable(d, m)
  /\ \A r \in Ids : Fresh(d, ChildKey(k, r))

\* What the rewrite of a record writes.
LEMMA RewriteType ==
  ASSUME NEW d, NEW k, NEW m, Planned(d, k, m), NEW r \in ActiveRecords(d)
  PROVE  LET row == RewrittenRow(d, m, r)
             rewrite == Rewrite(d, k, m, r)
         IN  /\ row \in Rows
             /\ row.version = d.records[r].version + 1
             /\ row.schemaVersion = SchemaVersion(d) + 1
             /\ row.data = RowData(d, r, m)
             /\ ~row.deleted
             /\ row.createdBy = d.records[r].createdBy
             /\ rewrite \in Mutations
             /\ rewrite.op = "data.record.update"
             /\ rewrite.key = ChildKey(k, r) /\ ChildKey(k, r) \in Keys
             /\ rewrite.expected = row.version - 1
<1> DEFINE row == RewrittenRow(d, m, r)
           rewrite == Rewrite(d, k, m, r)
           old == d.records[r]
<1>1. /\ r \in Ids /\ Active(d, r) /\ d \in Images /\ m \in Proposals
      /\ k \in MigrationKeys
  BY DEF ActiveRecords, Planned, Kept
<1>2. old \in Rows /\ ~old.deleted
  BY <1>1 DEF Active, Images
<1>3. SchemaVersion(d) \in Nat /\ RowData(d, r, m) \in Data /\ m.actor \in Actors
  BY <1>1, CurrentSchemaType, RowDataType, ProposalType
<1>4. old.version \in Nat \ {0}
  BY <1>2 DEF Rows
<1>5. row = [old EXCEPT !.version = old.version + 1, !.schemaVersion = SchemaVersion(d) + 1,
                        !.data = RowData(d, r, m), !.updatedBy = m.actor]
  BY DEF RewrittenRow
<1>6. ChildKey(k, r) \in Keys
  BY <1>1, MigrationAssumption
<1>7. rewrite = [op |-> "data.record.update", key |-> ChildKey(k, r), rec |-> r,
                 expected |-> old.version, data |-> RowData(d, r, m), clientRef |-> Nil]
  BY DEF Rewrite
<1> HIDE DEF row, rewrite, old
<1>8. /\ row \in Rows /\ row.version = old.version + 1
      /\ row.schemaVersion = SchemaVersion(d) + 1 /\ row.data = RowData(d, r, m)
      /\ ~row.deleted /\ row.createdBy = old.createdBy
  <2> DEFINE version == old.version + 1
             schemaVersion == SchemaVersion(d) + 1
             data == RowData(d, r, m)
  <2>1. version \in Nat \ {0} /\ schemaVersion \in Nat \ {0} /\ data \in Data
    BY <1>3, <1>4
  <2>2. row = [old EXCEPT !.version = version, !.schemaVersion = schemaVersion,
                          !.data = data, !.updatedBy = m.actor]
    BY <1>5
  <2> HIDE DEF version, schemaVersion, data
  <2>3. /\ row \in Rows /\ row.version = version /\ row.schemaVersion = schemaVersion
        /\ row.data = data /\ row.deleted = old.deleted /\ row.createdBy = old.createdBy
    BY <1>2, <1>3, <2>1, <2>2 DEF Rows
  <2> QED
    BY <1>2, <2>3 DEF version, schemaVersion, data
<1>9. rewrite \in Mutations
  BY <1>1, <1>3, <1>4, <1>6, <1>7 DEF Mutations, MutationOps
<1>10. rewrite.expected = row.version - 1
  BY <1>4, <1>7, <1>8
<1> QED
  BY <1>6, <1>7, <1>8, <1>9, <1>10 DEF row, rewrite, old

\* The n-th rewrite has been made.
RewrittenIn(d, k, m, tx, n, e) ==
  LET r       == InOrder(d)[n]
      row     == RewrittenRow(d, m, r)
      rewrite == Rewrite(d, k, m, r)
  IN  /\ e.events[Len(d.events) + n] = EventOf(r, row, rewrite, m.actor, tx)
      /\ e.idem[ChildKey(k, r)] = EntryOf(r, row, rewrite, m.actor)
      /\ e.records[r] = row

\* The first n have, and nothing else.
FirstRewritten(d, k, m, tx, n, e) ==
  /\ Kept(e)
  /\ Extends(d, e)
  /\ e.schemas = Append(d.schemas, Proposed(CurrentSchema(d), m))
  /\ Len(e.events) = Len(d.events) + n
  /\ \A i \in 1..n : RewrittenIn(d, k, m, tx, i, e)
  /\ \A r \in Ids : (\A i \in 1..n : InOrder(d)[i] # r) => e.records[r] = d.records[r]
  /\ \A key \in Keys : (\A i \in 1..n : key # ChildKey(k, InOrder(d)[i])) =>
       e.idem[key] = d.idem[key]

NextRewrite(d, k, m, tx, r, e) ==
  Written(e, r, RewrittenRow(d, m, r), RewrittenRefs(d, m, r), Rewrite(d, k, m, r),
          m.actor, tx)

LEMMA NoneRewritten ==
  ASSUME NEW d, NEW k, NEW m, Planned(d, k, m), NEW tx
  PROVE  FirstRewritten(d, k, m, tx, 0, Evolved(d, Proposed(CurrentSchema(d), m)))
<1> DEFINE schema == Proposed(CurrentSchema(d), m)
           e == Evolved(d, schema)
<1>1. d \in Images /\ Kept(d) /\ m \in Proposals /\ Len(d.events) \in Nat
  BY DEF Planned, Kept, Images
<1>2. schema \in Schemas
  BY <1>1, CurrentSchemaType, ProposalType
<1>3. /\ e.schemas = Append(d.schemas, schema) /\ e.records = d.records
      /\ e.idem = d.idem /\ e.events = d.events
  BY DEF Evolved
<1> HIDE DEF schema
<1>4. Kept(e) /\ Extends(d, e)
  BY <1>1, <1>2, EvolvedSound, EvolvedLogSound, EvolvedExportable, EvolvedExtends DEF Kept
<1> HIDE DEF e
<1>5. FirstRewritten(d, k, m, tx, 0, e)
  BY <1>1, <1>3, <1>4 DEF FirstRewritten, schema
<1> QED
  BY <1>5 DEF e, schema

LEMMA OneMoreRewritten ==
  ASSUME NEW d, NEW k, NEW m, Planned(d, k, m), NEW tx \in Nat,
         NEW n \in Nat, n + 1 \in 1..Len(InOrder(d)),
         NEW e, FirstRewritten(d, k, m, tx, n, e)
  PROVE  FirstRewritten(d, k, m, tx, n + 1,
                        NextRewrite(d, k, m, tx, InOrder(d)[n + 1], e))
<1> DEFINE order == InOrder(d)
           r == order[n + 1]
           row == RewrittenRow(d, m, r)
           refs == RewrittenRefs(d, m, r)
           rewrite == Rewrite(d, k, m, r)
           schema == Proposed(CurrentSchema(d), m)
           g == NextRewrite(d, k, m, tx, r, e)
<1>1. /\ Kept(d) /\ d \in Images /\ m \in Proposals /\ k \in MigrationKeys
      /\ Kept(e) /\ e \in Images /\ Extends(d, e) /\ Len(e.events) = Len(d.events) + n
      /\ Len(d.events) \in Nat /\ e.schemas = Append(d.schemas, schema)
  BY DEF Planned, FirstRewritten, Kept, Images
<1>2. /\ r \in ActiveRecords(d) /\ \A i \in 1..n : order[i] # r /\ order[i] \in ActiveRecords(d)
  <2>1. n + 1 \in 1..Len(order)
    OBVIOUS
  <2>2. Len(order) \in Nat /\ \A i \in 1..n : i \in 1..Len(order) /\ i # n + 1
    BY <1>1, <2>1, OrderNumbers
  <2> QED
    BY <1>1, <2>1, <2>2, OrderNumbers
<1>3. r \in Ids /\ d.records[r] # Nil /\ \A s \in ActiveRecords(d) : s \in Ids
  BY <1>2 DEF ActiveRecords, Active
<1>4. /\ row \in Rows /\ row.version = d.records[r].version + 1
      /\ row.schemaVersion = SchemaVersion(d) + 1 /\ row.data = RowData(d, r, m)
      /\ ~row.deleted /\ row.createdBy = d.records[r].createdBy
      /\ rewrite \in Mutations /\ rewrite.op = "data.record.update"
      /\ rewrite.key = ChildKey(k, r) /\ rewrite.key \in Keys
      /\ rewrite.expected = row.version - 1
  BY <1>2, RewriteType
<1>5. e.records[r] = d.records[r] /\ Active(e, r)
  <2>1. e.records[r] = d.records[r]
    BY <1>2, <1>3 DEF FirstRewritten
  <2> QED
    BY <1>2, <2>1 DEF ActiveRecords, Active
<1>6. SchemaVersion(e) = SchemaVersion(d) + 1 /\ CurrentSchema(e) = schema
  <2>1. d.schemas \in Seq(Schemas)
    BY <1>1 DEF Images
  <2>2. Len(e.schemas) = Len(d.schemas) + 1 /\ e.schemas[Len(d.schemas) + 1] = schema
    BY <1>1, <2>1
  <2> QED
    BY <2>2 DEF SchemaVersion, CurrentSchema
<1>7. Migrates(d, r, m)
  BY <1>2 DEF Planned, Plannable
<1>8. Validates(CurrentSchema(e), row.data) /\ refs = RefsOf(CurrentSchema(e), row.data)
  BY <1>4, <1>6, <1>7 DEF Migrates, RewrittenRefs
<1>9. \A s \in Ids : Active(d, s) => Active(e, s)
  <2> SUFFICES ASSUME NEW s \in Ids, Active(d, s) PROVE Active(e, s)
    OBVIOUS
  <2>1. CASE \A i \in 1..n : order[i] # s
    BY <2>1 DEF FirstRewritten, Active
  <2>2. CASE \E i \in 1..n : order[i] = s
    <3>1. PICK i \in 1..n : order[i] = s
      BY <2>2
    <3>2. e.records[s] = RewrittenRow(d, m, s)
      BY <3>1 DEF FirstRewritten, RewrittenIn
    <3>3. s \in ActiveRecords(d)
      BY DEF ActiveRecords
    <3>4. ~RewrittenRow(d, m, s).deleted /\ RewrittenRow(d, m, s) # Nil
      BY <3>3, RewriteType, DistinctValues
    <3> QED
      BY <3>2, <3>4 DEF Active
  <2> QED
    BY <2>1, <2>2
<1>10. TargetsExist(e, refs)
  <2>1. TargetsExist(d, refs)
    BY <1>7 DEF Migrates, RewrittenRefs
  <2>2. refs \in [Fields -> Ids \cup {Nil}]
    <3>1. CurrentSchema(e) \in Schemas /\ row.data \in Data
      BY <1>1, <1>4, CurrentSchemaType DEF Rows
    <3> QED
      BY <1>8, <3>1, RefsOfType
  <2> HIDE DEF refs
  <2> QED
    BY <1>9, <2>1, <2>2 DEF TargetsExist
<1>11. \A s \in ActiveRecords(d) : s # r => ChildKey(k, s) # ChildKey(k, r)
  BY <1>1, <1>3, MigrationAssumption
<1>12. Fresh(e, rewrite.key)
  <2>1. \A i \in 1..n : rewrite.key # ChildKey(k, order[i])
    BY <1>2, <1>4, <1>11
  <2>2. e.idem[rewrite.key] = d.idem[rewrite.key]
    BY <1>4, <2>1 DEF FirstRewritten
  <2> QED
    BY <1>3, <1>4, <2>2 DEF Planned, Fresh
<1>13. m.actor \in Actors
  BY <1>1, ProposalType
<1>14. g = Written(e, r, row, refs, rewrite, m.actor, tx)
  BY DEF NextRewrite
<1> HIDE DEF row, refs, rewrite, schema, g, r
<1>15. OneMore(e, g, rewrite, r)
  BY <1>1, <1>3, <1>4, <1>5, <1>6, <1>8, <1>10, <1>12, <1>13, <1>14, WrittenKept
<1>16. Kept(g) /\ g \in Images /\ Extends(d, g)
  <2>1. Kept(g) /\ Extends(e, g) /\ g \in Images
    BY <1>15 DEF OneMore, Kept
  <2> QED
    BY <1>1, <2>1, ExtendsTransitive
<1>17. /\ g.schemas = e.schemas /\ g.records[r] = row
       /\ \A s \in Ids : s # r => g.records[s] = e.records[s]
       /\ g.idem[rewrite.key] = EntryOf(r, row, rewrite, m.actor)
       /\ \A key \in Keys : key # rewrite.key => g.idem[key] = e.idem[key]
       /\ Len(g.events) = Len(e.events) + 1
       /\ g.events[Len(e.events) + 1] = EventOf(r, row, rewrite, m.actor, tx)
       /\ \A i \in 1..Len(e.events) : g.events[i] = e.events[i]
  <2>1. e \in Images /\ r \in Ids /\ rewrite \in Mutations
    BY <1>1, <1>3, <1>4
  <2>2. Wrote(e, r, row, rewrite, m.actor, tx, g)
    BY <1>14, <2>1, WrittenLeaves
  <2> QED
    BY <2>2 DEF Wrote
<1>18. Len(e.events) + 1 = Len(d.events) + (n + 1) /\ Len(g.events) = Len(d.events) + (n + 1)
  <2> DEFINE before == Len(d.events)
             done == Len(e.events)
  <2>1. done = before + n /\ before \in Nat /\ Len(g.events) = done + 1
    BY <1>1, <1>17
  <2> HIDE DEF before, done
  <2>2. done + 1 = before + (n + 1)
    BY <2>1
  <2> QED
    BY <2>1, <2>2 DEF before, done
<1>19. RewrittenIn(d, k, m, tx, n + 1, g)
  <2> QED
    BY <1>4, <1>17, <1>18 DEF RewrittenIn, row, rewrite, r
<1>20. ASSUME NEW i \in 1..n PROVE RewrittenIn(d, k, m, tx, i, g)
  <2>1. RewrittenIn(d, k, m, tx, i, e)
    BY DEF FirstRewritten
  <2>2. Len(d.events) + i \in 1..Len(e.events)
    BY <1>1
  <2>3. order[i] # r /\ order[i] \in ActiveRecords(d) /\ order[i] \in Ids
    BY <1>2, <1>3
  <2>4. ChildKey(k, order[i]) # rewrite.key /\ ChildKey(k, order[i]) \in Keys
    BY <1>1, <1>4, <1>11, <2>3, MigrationAssumption
  <2>5. /\ g.events[Len(d.events) + i] = e.events[Len(d.events) + i]
        /\ g.idem[ChildKey(k, order[i])] = e.idem[ChildKey(k, order[i])]
        /\ g.records[order[i]] = e.records[order[i]]
    BY <1>17, <2>2, <2>3, <2>4
  <2> QED
    BY <2>1, <2>5 DEF RewrittenIn
<1>21. ASSUME NEW i \in 1..(n + 1) PROVE RewrittenIn(d, k, m, tx, i, g)
  <2>1. i \in 1..n \/ i = n + 1
    OBVIOUS
  <2> QED
    BY <1>19, <1>20, <2>1
<1>22. ASSUME NEW s \in Ids, \A i \in 1..(n + 1) : order[i] # s
       PROVE  g.records[s] = d.records[s]
  <2>1. n + 1 \in 1..(n + 1) /\ 1..n \subseteq 1..(n + 1)
    OBVIOUS
  <2>2. s # r /\ \A i \in 1..n : order[i] # s
    BY <1>22, <2>1 DEF r
  <2>3. e.records[s] = d.records[s]
    BY <2>2 DEF FirstRewritten
  <2> QED
    BY <1>17, <2>2, <2>3
<1>23. ASSUME NEW key \in Keys, \A i \in 1..(n + 1) : key # ChildKey(k, order[i])
       PROVE  g.idem[key] = d.idem[key]
  <2>1. n + 1 \in 1..(n + 1) /\ 1..n \subseteq 1..(n + 1)
    OBVIOUS
  <2>2. key # rewrite.key /\ \A i \in 1..n : key # ChildKey(k, order[i])
    BY <1>4, <1>23, <2>1 DEF r
  <2>3. e.idem[key] = d.idem[key]
    BY <2>2 DEF FirstRewritten
  <2> QED
    BY <1>17, <2>2, <2>3
<1>24. g.schemas = Append(d.schemas, Proposed(CurrentSchema(d), m))
  BY <1>1, <1>17 DEF schema
<1>25. FirstRewritten(d, k, m, tx, n + 1, g)
  BY <1>16, <1>18, <1>21, <1>22, <1>23, <1>24 DEF FirstRewritten
<1> QED
  BY <1>25 DEF g, r

\* The rewrites of a plan rewrite all active records.
LEMMA AllRewritten ==
  ASSUME NEW d, NEW k, NEW m, Planned(d, k, m), NEW tx \in Nat
  PROVE  FirstRewritten(d, k, m, tx, Len(InOrder(d)), Rewrites(d, k, m, tx))
<1> DEFINE order == InOrder(d)
           len == Len(order)
           base == Evolved(d, Proposed(CurrentSchema(d), m))
           step == [x \in (1..len) \X Images |-> NextRewrite(d, k, m, tx, order[x[1]], x[2])]
           AreRewrites(f) == f = [n \in 0..len |->
                                    IF n = 0 THEN base
                                    ELSE NextRewrite(d, k, m, tx, order[n], f[n - 1])]
           after == CHOOSE f : AreRewrites(f)
<1>1. d \in Images /\ Kept(d) /\ m \in Proposals
  BY DEF Planned, Kept
<1>2. len \in Nat /\ \A n \in 1..len : order[n] \in ActiveRecords(d)
  BY <1>1, OrderNumbers
<1>3. base \in Images /\ FirstRewritten(d, k, m, tx, 0, base)
  BY NoneRewritten DEF FirstRewritten, Kept
<1>4. ASSUME NEW r \in ActiveRecords(d), NEW e \in Images
      PROVE  NextRewrite(d, k, m, tx, r, e) \in Images
  <2>1. /\ RewrittenRow(d, m, r) \in Rows /\ Rewrite(d, k, m, r) \in Mutations
        /\ m.actor \in Actors /\ r \in Ids /\ Active(d, r)
    BY <1>1, RewriteType, ProposalType DEF ActiveRecords
  <2>2. RewrittenRefs(d, m, r) \in [Fields -> Ids \cup {Nil}]
    <3>1. RowData(d, r, m) \in Data /\ Proposed(CurrentSchema(d), m) \in Schemas
      BY <1>1, <2>1, RowDataType, CurrentSchemaType, ProposalType
    <3> QED
      BY <3>1, RefsOfType DEF RewrittenRefs
  <2> QED
    BY <2>1, <2>2, WrittenType DEF NextRewrite
<1> HIDE DEF base, order
<1>5. step \in [(1..len) \X Images -> Images]
  BY <1>2, <1>4
<1>6. PICK f \in [0..len -> Images] : Recursion(f, base, len, step)
  <2> HIDE DEF len, step
  <2> QED
    BY <1>2, <1>3, <1>5, RecursionExists
<1>7. ASSUME NEW n \in 1..len
      PROVE  f[n] = NextRewrite(d, k, m, tx, order[n], f[n - 1])
  <2>1. f[n] = step[<<n, f[n - 1]>>]
    <3> HIDE DEF step, len
    <3> QED
      BY <1>6 DEF Recursion
  <2>2. f[n - 1] \in Images
    <3> HIDE DEF len
    <3>1. n - 1 \in 0..len
      BY <1>2
    <3> QED
      BY <1>6, <3>1
  <2> QED
    BY <2>1, <2>2
<1> HIDE DEF step, len
<1>8. AreRewrites(f)
  BY <1>2, <1>6, <1>7 DEF Recursion
<1>9. AreRewrites(after)
  <2> HIDE DEF AreRewrites
  <2> QED
    BY <1>8
<1>10. after[len] = Rewrites(d, k, m, tx)
  BY DEF Rewrites, NextRewrite, len, order, base
<1> HIDE DEF after
<1>11. /\ after[0] = base
       /\ \A n \in 1..len : after[n] = NextRewrite(d, k, m, tx, order[n], after[n - 1])
  BY <1>2, <1>9
<1> HIDE DEF AreRewrites
<1> DEFINE T == {n \in Nat : n <= len => FirstRewritten(d, k, m, tx, n, after[n])}
<1>12. 0 \in T
  BY <1>3, <1>11
<1>13. ASSUME NEW n \in Nat, n \in T PROVE n + 1 \in T
  <2> SUFFICES ASSUME n + 1 <= len PROVE FirstRewritten(d, k, m, tx, n + 1, after[n + 1])
    OBVIOUS
  <2>1. /\ FirstRewritten(d, k, m, tx, n, after[n])
        /\ n + 1 \in 1..len /\ (n + 1) - 1 = n
    BY <1>2, <1>13
  <2>2. after[n + 1] = NextRewrite(d, k, m, tx, order[n + 1], after[n])
    BY <1>11, <2>1
  <2>3. n + 1 \in 1..Len(InOrder(d))
    BY <2>1 DEF len, order
  <2> QED
    BY <2>1, <2>2, <2>3, OneMoreRewritten DEF order
<1>14. Nat \subseteq T
  <2> HIDE DEF T
  <2> QED
    BY <1>12, <1>13, NumberInduction
<1> QED
  BY <1>2, <1>10, <1>14 DEF len, order

(***************************************************************************)
(* The transaction of a migration.                                         *)
(***************************************************************************)
\* The child at position i rewrote a record as the digest said.
ChildAsReviewed(d, i, records) ==
  /\ i \in 1..Len(d.events)
  /\ d.idem[d.events[i].key] # Nil
  /\ \E x \in records : d.events[i].rec = x.rec
  /\ \A x \in records : d.events[i].rec = x.rec =>
       /\ d.events[i].before = x.row.version
       /\ d.idem[d.events[i].key].result.snapshots[1].row.data = x.after

ChildrenAsReviewed(d, children, records) ==
  /\ \A n \in 1..Len(children) : ChildAsReviewed(d, children[n], records)
  /\ \A x \in records : \E n \in 1..Len(children) : d.events[children[n]].rec = x.rec

\* What is to be read of a migration in every image after its commit.
CarriedOut(d, k, entry) ==
  /\ entry.version \in 2..SchemaVersion(d)
  /\ entry.receipt \in 1..Len(d.events)
  /\ entry.digest.proposal = entry.proposal
  /\ d.schemas[entry.version - 1] = entry.digest.from
  /\ d.schemas[entry.version] = entry.digest.to
  /\ d.events[entry.receipt].key = k
  /\ ChildrenAsReviewed(d, d.events[entry.receipt].children, entry.digest.records)
  /\ \A r \in Ids : Active(d, r) => d.records[r].schemaVersion >= entry.version

\* The n-th event of the transaction is the rewrite of the n-th record.
LEMMA RewriteAsReviewed ==
  ASSUME NEW d, NEW k, NEW m, Planned(d, k, m), NEW tx, NEW e \in Images,
         NEW n \in 1..Len(InOrder(d)), RewrittenIn(d, k, m, tx, n, e),
         Len(d.events) + n \in 1..Len(e.events)
  PROVE  /\ ChildAsReviewed(e, Len(d.events) + n, PlanDigest(d, m).records)
         /\ e.events[Len(d.events) + n].rec = InOrder(d)[n]
         /\ e.events[Len(d.events) + n].tx = tx
         /\ e.events[Len(d.events) + n].op = "data.record.update"
<1> DEFINE r == InOrder(d)[n]
           row == RewrittenRow(d, m, r)
           rewrite == Rewrite(d, k, m, r)
           i == Len(d.events) + n
           records == PlanDigest(d, m).records
<1>1. Kept(d) /\ d \in Images
  BY DEF Planned, Kept
<1>2. r \in ActiveRecords(d)
  BY <1>1, OrderNumbers
<1>3. r \in Ids /\ Active(d, r) /\ d.records[r] \in Rows
  BY <1>1, <1>2 DEF ActiveRecords, Active, Images
<1>4. d.records[r].version \in Nat
  BY <1>3 DEF Rows
<1>5. /\ row \in Rows /\ row.version = d.records[r].version + 1
      /\ row.data = RowData(d, r, m) /\ rewrite \in Mutations
      /\ rewrite.op = "data.record.update" /\ rewrite.key = ChildKey(k, r)
  BY <1>2, RewriteType
<1>6. m.actor \in Actors
  BY ProposalType DEF Planned
<1>7. e.events[i] = EventOf(r, row, rewrite, m.actor, tx)
      /\ e.idem[rewrite.key] = EntryOf(r, row, rewrite, m.actor)
  BY <1>5 DEF RewrittenIn
<1>8. records = {[rec |-> s, row |-> d.records[s], after |-> RowData(d, s, m)] :
                   s \in ActiveRecords(d)}
  BY DEF PlanDigest
<1> HIDE DEF r, row, rewrite, i, records
<1>9. /\ e.events[i].rec = r /\ e.events[i].tx = tx /\ e.events[i].op = "data.record.update"
      /\ e.events[i].key = rewrite.key /\ e.events[i].before = d.records[r].version
  BY <1>4, <1>5, <1>7 DEF EventOf
<1>10. e.idem[rewrite.key] # Nil
  BY <1>3, <1>5, <1>6, <1>7, EntryType, DistinctValues
<1>11. e.idem[rewrite.key].result.snapshots[1].row.data = RowData(d, r, m)
  BY <1>5, <1>7 DEF EntryOf
<1>12. \A x \in records : x.rec = r => /\ x.row.version = d.records[r].version
                                       /\ x.after = RowData(d, r, m)
  BY <1>8
<1>13. \E x \in records : x.rec = r
  <2> DEFINE x == [rec |-> r, row |-> d.records[r], after |-> RowData(d, r, m)]
  <2>1. x \in records /\ x.rec = r
    BY <1>2, <1>8
  <2> QED
    BY <2>1
<1>14. i \in 1..Len(e.events)
  BY DEF i
<1>15. ChildAsReviewed(e, i, records)
  <2>1. e.idem[e.events[i].key] # Nil
    BY <1>9, <1>10
  <2>2. \E x \in records : e.events[i].rec = x.rec
    BY <1>9, <1>13
  <2>3. ASSUME NEW x \in records, e.events[i].rec = x.rec
        PROVE  /\ e.events[i].before = x.row.version
               /\ e.idem[e.events[i].key].result.snapshots[1].row.data = x.after
    <3>1. /\ x.row.version = d.records[r].version
          /\ x.after = RowData(d, r, m)
      BY <1>9, <1>12, <2>3
    <3> QED
      BY <1>9, <1>11, <3>1
  <2> QED
    BY <1>14, <2>1, <2>2, <2>3, Zenon DEF ChildAsReviewed
<1> QED
  BY <1>9, <1>15 DEF i, r, records

\* It can be read in every later image.
LEMMA ChildStands ==
  ASSUME NEW d \in Images, NEW e \in Images, Extends(d, e), NEW i, NEW records,
         ChildAsReviewed(d, i, records)
  PROVE  ChildAsReviewed(e, i, records) /\ e.events[i] = d.events[i]
<1>1. /\ i \in 1..Len(d.events) /\ Len(d.events) \in Nat /\ Len(e.events) \in Nat
      /\ d.events[i] \in Events
  <2>1. i \in 1..Len(d.events)
    BY Zenon DEF ChildAsReviewed
  <2>2. d.events \in Seq(Events) /\ e.events \in Seq(Events)
    BY DEF Images
  <2> QED
    BY <2>1, <2>2
<1>2. e.events[i] = d.events[i] /\ i \in 1..Len(e.events)
  BY <1>1 DEF Extends
<1>3. d.events[i].key \in Keys
  <2>1. PICK x : x = d.events[i]
    OBVIOUS
  <2>2. x.key \in Keys
    BY <1>1, <2>1 DEF Events
  <2> QED
    BY <2>1, <2>2
<1>4. d.idem[d.events[i].key] # Nil
  BY Zenon DEF ChildAsReviewed
<1>5. e.idem[d.events[i].key] = d.idem[d.events[i].key]
  BY <1>3, <1>4 DEF Extends
<1>6. e.idem[e.events[i].key] # Nil
  BY <1>2, <1>4, <1>5
<1>7. \E x \in records : e.events[i].rec = x.rec
  BY <1>2, Zenon DEF ChildAsReviewed
<1>8. ASSUME NEW x \in records, e.events[i].rec = x.rec
      PROVE  /\ e.events[i].before = x.row.version
             /\ e.idem[e.events[i].key].result.snapshots[1].row.data = x.after
  <2>1. /\ d.events[i].before = x.row.version
        /\ d.idem[d.events[i].key].result.snapshots[1].row.data = x.after
    BY <1>2, <1>8, Zenon DEF ChildAsReviewed
  <2> QED
    BY <1>2, <1>5, <2>1
<1>9. ChildAsReviewed(e, i, records)
  BY <1>2, <1>6, <1>7, <1>8, Zenon DEF ChildAsReviewed
<1> QED
  BY <1>2, <1>9

LEMMA ChildrenStand ==
  ASSUME NEW d \in Images, NEW e \in Images, Extends(d, e), NEW children, NEW records,
         ChildrenAsReviewed(d, children, records)
  PROVE  ChildrenAsReviewed(e, children, records)
<1>1. \A n \in 1..Len(children) : ChildAsReviewed(d, children[n], records)
  BY DEF ChildrenAsReviewed
<1>2. \A n \in 1..Len(children) :
        ChildAsReviewed(e, children[n], records) /\ e.events[children[n]] = d.events[children[n]]
  BY <1>1, ChildStands
<1> QED
  BY <1>2 DEF ChildrenAsReviewed

\* The transaction of a migration is whole, and did what its digest said.
LEMMA FinishedAsReviewed ==
  ASSUME NEW d, NEW k, NEW m, Planned(d, k, m), Fresh(d, k), BlocksWhole(d),
         NEW e, e = Finished(d, k, m)
  PROVE  /\ Kept(e) /\ Extends(d, e) /\ BlocksWhole(e)
         /\ e.schemas = Append(d.schemas, Proposed(CurrentSchema(d), m))
         /\ \A key \in Keys : key # k /\ (\A r \in Ids : key # ChildKey(k, r)) =>
              e.idem[key] = d.idem[key]
         /\ \A r \in Ids : Active(e, r) =>
              e.records[r].schemaVersion = SchemaVersion(d) + 1
         /\ Len(e.events) \in Nat \ {0}
         /\ e.events[Len(e.events)].key = k
         /\ ChildrenAsReviewed(e, e.events[Len(e.events)].children, PlanDigest(d, m).records)
<1> DEFINE before == Len(d.events)
           tx == before + 1
           order == InOrder(d)
           n == Len(order)
           image == Rewrites(d, k, m, tx)
           req == MigrationRequest(k, m)
           children == [i \in 1..n |-> before + i]
           records == PlanDigest(d, m).records
<1>1. /\ Kept(d) /\ d \in Images /\ m \in Proposals /\ k \in MigrationKeys /\ k \in Keys
      /\ before \in Nat /\ tx \in Nat /\ tx # 0
  BY MigrationAssumption DEF Planned, Kept, Images
<1>2. n \in Nat /\ \A i \in 1..n : order[i] \in ActiveRecords(d) /\ order[i] \in Ids
  <2>1. n \in Nat /\ \A i \in 1..n : order[i] \in ActiveRecords(d)
    BY <1>1, OrderNumbers
  <2> QED
    BY <2>1 DEF ActiveRecords
<1>3. FirstRewritten(d, k, m, tx, n, image)
  BY <1>1, AllRewritten
<1>4. /\ Kept(image) /\ image \in Images /\ Extends(d, image)
      /\ Len(image.events) = before + n
      /\ image.schemas = Append(d.schemas, Proposed(CurrentSchema(d), m))
  BY <1>3 DEF FirstRewritten, Kept
<1>5. req \in Requests /\ req.key = k
  BY <1>1, ProposalType DEF MigrationRequest, Requests, NoAdds, Schemas
<1>6. e = Closed(image, req, tx, children, <<>>)
  <2>1. Len(image.events) - before = n
    <3> HIDE DEF before, n
    <3> QED
      BY <1>1, <1>2, <1>4
  <2> QED
    BY <2>1 DEF Finished
<1>7. children \in Seq(Nat) /\ Len(children) = n
  BY <1>1, <1>2
<1>8. \A i \in 1..n : children[i] = before + i
  OBVIOUS
<1> HIDE DEF before, tx, order, n, image, req, children, records
<1>9. <<>> \in Seq(Snapshots) /\ Len(<<>>) = 0
  OBVIOUS
<1>10. Fresh(image, k)
  <2>1. \A i \in 1..n : k # ChildKey(k, order[i])
    BY <1>1, <1>2, MigrationAssumption
  <2> QED
    BY <1>1, <1>3, <2>1 DEF FirstRewritten, Fresh, order
<1>11. /\ e \in Images /\ Sound(e) /\ LogSound(e) /\ Exportable(e) /\ Extends(image, e)
  <2>1. e \in Images /\ Sound(e)
    BY <1>1, <1>4, <1>5, <1>6, <1>7, <1>9, ClosedSound DEF Kept
  <2>2. LogSound(e)
    BY <1>1, <1>4, <1>5, <1>6, <1>7, <1>9, <1>10, ClosedLogSound DEF Kept
  <2>3. Exportable(e)
    <3>1. \A i \in 1..Len(<<>>) : <<>>[i].rec \in Stored(image)
      BY <1>9
    <3>2. image \in Images /\ Exportable(image) /\ tx # 0 /\ req \in Requests
      BY <1>1, <1>4, <1>5 DEF Kept
    <3> QED
      BY <1>6, <3>1, <3>2, ClosedExportable
  <2>4. Extends(image, e)
    BY <1>4, <1>5, <1>6, <1>10, ClosedExtends
  <2> QED
    BY <2>1, <2>2, <2>3, <2>4
<1>12. Kept(e) /\ Extends(d, e)
  BY <1>1, <1>4, <1>11, ExtendsTransitive DEF Kept
<1>13. ASSUME NEW i \in 1..n
       PROVE  /\ ChildAsReviewed(image, before + i, records)
              /\ image.events[before + i].rec = order[i]
              /\ image.events[before + i].tx = tx
              /\ image.events[before + i].op = "data.record.update"
  <2>1. before + i \in 1..Len(image.events)
    BY <1>1, <1>2, <1>4
  <2>2. RewrittenIn(d, k, m, tx, i, image)
    BY <1>3 DEF FirstRewritten
  <2> QED
    BY <1>4, <2>1, <2>2, RewriteAsReviewed DEF order, n, before, records
<1>14. BlocksWhole(e)
  <2>1. \A i \in 1..n : /\ image.events[Len(d.events) + i].tx = tx
                        /\ image.events[Len(d.events) + i].op # "data.transaction.execute"
    BY <1>13 DEF before
  <2>2. e = Closed(image, req, tx, [i \in 1..n |-> Len(d.events) + i], <<>>)
    BY <1>6 DEF children, before
  <2>3. tx = Len(d.events) + 1 /\ Len(image.events) = Len(d.events) + n
    BY <1>4 DEF tx, before
  <2> QED
    BY <1>1, <1>2, <1>4, <1>5, <1>11, <2>1, <2>2, <2>3, ClosedBlocks
<1>15. /\ e.schemas = image.schemas /\ e.records = image.records
       /\ \A key \in Keys : key # k => e.idem[key] = image.idem[key]
       /\ Len(e.events) = before + n + 1
       /\ e.events[Len(e.events)] = ClosingEvent(req, tx, children)
  <2>1. /\ Len(e.events) = Len(image.events) + 1
        /\ e.events[Len(image.events) + 1] = ClosingEvent(req, tx, children)
    BY <1>4, <1>5, <1>6, ClosedLeaves
  <2>2. \A key \in Keys : key # k => e.idem[key] = image.idem[key]
    <3>1. image.idem \in [Keys -> Entries \cup {Nil}]
      BY <1>4 DEF Images
    <3> QED
      BY <1>5, <1>6, <3>1 DEF Closed
  <2> QED
    BY <1>4, <1>6, <2>1, <2>2 DEF Closed
<1>16. /\ e.events[Len(e.events)].key = k /\ e.events[Len(e.events)].children = children
       /\ Len(e.events) \in Nat \ {0}
  BY <1>1, <1>2, <1>5, <1>15 DEF ClosingEvent
<1>17. ChildrenAsReviewed(e, children, records)
  <2>1. ASSUME NEW i \in 1..Len(children) PROVE ChildAsReviewed(image, children[i], records)
    BY <1>7, <1>8, <1>13
  <2>2. ASSUME NEW x \in records
        PROVE  \E i \in 1..Len(children) : image.events[children[i]].rec = x.rec
    <3>1. x.rec \in ActiveRecords(d)
      BY DEF records, PlanDigest
    <3>2. PICK i \in 1..n : order[i] = x.rec
      BY <1>1, <3>1, OrderNumbers DEF n, order
    <3> QED
      BY <1>7, <1>8, <1>13, <3>2
  <2>3. ChildrenAsReviewed(image, children, records)
    BY <2>1, <2>2 DEF ChildrenAsReviewed
  <2> QED
    BY <1>4, <1>11, <2>3, ChildrenStand
<1>18. ASSUME NEW r \in Ids, Active(e, r)
       PROVE  e.records[r].schemaVersion = SchemaVersion(d) + 1
  <2>1. PICK i \in 1..n : order[i] = r
    <3>1. CASE \A i \in 1..n : order[i] # r
      <4>1. e.records[r] = d.records[r]
        BY <1>3, <1>15, <3>1 DEF FirstRewritten, order
      <4>2. r \in ActiveRecords(d)
        BY <1>18, <4>1 DEF Active, ActiveRecords
      <4> QED
        BY <1>1, <3>1, <4>2, OrderNumbers DEF n, order
    <3> QED
      BY <3>1
  <2>2. e.records[r] = RewrittenRow(d, m, r)
    BY <1>3, <1>15, <2>1 DEF FirstRewritten, RewrittenIn, order
  <2> QED
    BY <1>2, <2>1, <2>2, RewriteType
<1>19. ASSUME NEW key \in Keys, key # k, \A r \in Ids : key # ChildKey(k, r)
       PROVE  e.idem[key] = d.idem[key]
  <2>1. \A i \in 1..n : key # ChildKey(k, order[i])
    BY <1>2, <1>19
  <2>2. image.idem[key] = d.idem[key]
    BY <1>3, <2>1 DEF FirstRewritten, order
  <2> QED
    BY <1>15, <1>19, <2>2
<1> QED
  BY <1>4, <1>12, <1>14, <1>15, <1>16, <1>17, <1>18, <1>19 DEF records

(***************************************************************************)
(* The inductive invariant of SchemaMigrations.                            *)
(***************************************************************************)
\* Schema version n is that of an approved migration.
ApprovedAs(n, ms) ==
  \E k \in MigrationKeys : ms[k] # Nil /\ ms[k].version = n /\ ms[k].approved

\* A schema version without a field of the one before is.
LostByApproval(d, ms) ==
  \A n \in 2..SchemaVersion(d) :
    ~KeepsFields(d.schemas[n - 1], d.schemas[n]) => ApprovedAs(n, ms)

\* Migrations that have been are not forgotten.
Remembers(ms, ns) == \A k \in MigrationKeys : ms[k] # Nil => ns[k] = ms[k]

\* The keys of rewrites are unused before their migration, and what has been
\* carried out stays so.
AllCarriedOut(d, ms) ==
  /\ \A k \in MigrationKeys, r \in Ids : ms[k] = Nil => Fresh(d, ChildKey(k, r))
  /\ \A k \in MigrationKeys : ms[k] # Nil => CarriedOut(d, k, ms[k])
  /\ LostByApproval(d, ms)

MigrationIInv ==
  /\ MigrationTypeOK
  /\ Kept(store)
  /\ BlocksWhole(store)
  /\ AllCarriedOut(store, migrated)

LEMMA CarriedOutStands ==
  ASSUME NEW d \in Images, NEW e \in Images, Extends(d, e),
         \A r \in Ids : Active(e, r) =>
           e.records[r] = d.records[r] \/ e.records[r].schemaVersion >= SchemaVersion(d),
         NEW k, NEW entry, CarriedOut(d, k, entry)
  PROVE  CarriedOut(e, k, entry)
<1>1. /\ SchemaVersion(d) \in Nat /\ SchemaVersion(e) \in Nat
      /\ SchemaVersion(d) <= SchemaVersion(e)
      /\ Len(d.events) \in Nat /\ Len(e.events) \in Nat /\ Len(d.events) <= Len(e.events)
  BY CurrentSchemaType DEF Extends, SchemaVersion, Images
<1>2. entry.version \in 2..SchemaVersion(d) /\ entry.receipt \in 1..Len(d.events)
  BY DEF CarriedOut
<1>3. /\ entry.version \in 2..SchemaVersion(e) /\ entry.receipt \in 1..Len(e.events)
      /\ entry.version - 1 \in 1..SchemaVersion(d) /\ entry.version \in 1..SchemaVersion(d)
  <2> DEFINE old == SchemaVersion(d)
             new == SchemaVersion(e)
             version == entry.version
             receipt == entry.receipt
             earlier == Len(d.events)
             later == Len(e.events)
  <2>1. /\ old \in Nat /\ new \in Nat /\ old <= new /\ version \in 2..old
        /\ earlier \in Nat /\ later \in Nat /\ earlier <= later /\ receipt \in 1..earlier
    BY <1>1, <1>2
  <2> HIDE DEF old, new, version, receipt, earlier, later
  <2>2. version \in 2..new /\ receipt \in 1..later
        /\ version - 1 \in 1..old /\ version \in 1..old
    BY <2>1
  <2> QED
    BY <2>2 DEF old, new, version, receipt, later
<1>4. /\ e.schemas[entry.version - 1] = d.schemas[entry.version - 1]
      /\ e.schemas[entry.version] = d.schemas[entry.version]
  BY <1>3 DEF Extends, SchemaVersion
<1>5. e.events[entry.receipt] = d.events[entry.receipt]
  BY <1>2 DEF Extends
<1>6. ChildrenAsReviewed(e, d.events[entry.receipt].children, entry.digest.records)
  BY ChildrenStand DEF CarriedOut
<1>7. ASSUME NEW r \in Ids, Active(e, r)
      PROVE  e.records[r].schemaVersion >= entry.version
  <2>1. CASE e.records[r] = d.records[r]
    <3>1. Active(d, r)
      BY <1>7, <2>1 DEF Active
    <3> QED
      BY <2>1, <3>1 DEF CarriedOut
  <2>2. CASE e.records[r].schemaVersion >= SchemaVersion(d)
    <3>1. e.records[r].schemaVersion \in Nat
      BY <1>7, RowNumbers DEF Active
    <3> QED
      BY <1>1, <1>2, <2>2, <3>1
  <2> QED
    BY <1>7, <2>1, <2>2
<1> QED
  BY <1>3, <1>4, <1>5, <1>6, <1>7 DEF CarriedOut

\* An appended schema version loses fields, or keeps them.
LEMMA LostByApprovalOn ==
  ASSUME NEW d \in Images, NEW e \in Images, NEW schema,
         e.schemas = Append(d.schemas, schema), NEW ms, LostByApproval(d, ms),
         NEW ns, Remembers(ms, ns),
         ~KeepsFields(CurrentSchema(d), schema) => ApprovedAs(SchemaVersion(d) + 1, ns)
  PROVE  LostByApproval(e, ns)
<1>1. d.schemas \in Seq(Schemas) /\ SchemaVersion(d) \in Nat \ {0}
  BY CurrentSchemaType DEF Images
<1>2. /\ SchemaVersion(e) = SchemaVersion(d) + 1
      /\ e.schemas[SchemaVersion(d) + 1] = schema
      /\ \A n \in 1..SchemaVersion(d) : e.schemas[n] = d.schemas[n]
  BY <1>1 DEF SchemaVersion
<1> SUFFICES ASSUME NEW n \in 2..SchemaVersion(e),
                    ~KeepsFields(e.schemas[n - 1], e.schemas[n])
             PROVE  ApprovedAs(n, ns)
  BY DEF LostByApproval
<1>3. CASE n = SchemaVersion(e)
  <2>1. n - 1 = SchemaVersion(d) /\ SchemaVersion(d) \in 1..SchemaVersion(d)
    BY <1>1, <1>2, <1>3
  <2>2. e.schemas[n - 1] = CurrentSchema(d) /\ e.schemas[n] = schema
    BY <1>2, <1>3, <2>1 DEF CurrentSchema
  <2> QED
    BY <1>2, <1>3, <2>2
<1>4. CASE n # SchemaVersion(e)
  <2> DEFINE last == SchemaVersion(d)
  <2>1. n \in 2..last /\ n \in 1..last /\ n - 1 \in 1..last
    <3>1. last \in Nat \ {0} /\ n \in 2..(last + 1) /\ n # last + 1
      BY <1>1, <1>2, <1>4
    <3> HIDE DEF last
    <3> QED
      BY <3>1
  <2>2. ~KeepsFields(d.schemas[n - 1], d.schemas[n])
    BY <1>2, <2>1
  <2>3. ApprovedAs(n, ms)
    BY <2>1, <2>2 DEF LostByApproval
  <2> QED
    BY <2>3 DEF ApprovedAs, Remembers
<1> QED
  BY <1>3, <1>4

\* Other callers' writes undo nothing of a migration.
LEMMA OthersLeaveMigrations ==
  ASSUME NEW d, Kept(d), NEW ms, AllCarriedOut(d, ms),
         NEW e \in Requested(d, Submissions, Evolutions)
  PROVE  AllCarriedOut(e, ms)
<1>1. /\ d \in Images /\ e \in Images /\ Extends(d, e)
      /\ \A key \in Keys : (\A req \in Submissions : key \notin KeysOf(req)) =>
           e.idem[key] = d.idem[key]
  BY CallersAssumption, RequestedKept DEF Kept
<1>2. ASSUME NEW r \in Ids, Active(e, r)
      PROVE  e.records[r] = d.records[r] \/ e.records[r].schemaVersion >= SchemaVersion(d)
  BY <1>2, RequestedMoves DEF Moves, Active
<1>3. ASSUME NEW k \in MigrationKeys, NEW r \in Ids, ms[k] = Nil
      PROVE  Fresh(e, ChildKey(k, r))
  <2>1. ChildKey(k, r) \in Keys /\ \A req \in Submissions : ChildKey(k, r) \notin KeysOf(req)
    BY MigrationAssumption DEF KeysOf
  <2>2. Fresh(d, ChildKey(k, r))
    BY <1>3 DEF AllCarriedOut
  <2> QED
    BY <1>1, <2>1, <2>2 DEF Fresh
<1>4. ASSUME NEW k \in MigrationKeys, ms[k] # Nil
      PROVE  CarriedOut(e, k, ms[k])
  BY <1>1, <1>2, <1>4, CarriedOutStands DEF AllCarriedOut
<1>5. LostByApproval(e, ms)
  <2>1. LostByApproval(d, ms)
    BY DEF AllCarriedOut
  <2>2. OneSchemaMore(d, e)
    BY CallersAssumption, RequestedSchemas
  <2>3. CASE e.schemas = d.schemas
    BY <2>1, <2>3 DEF LostByApproval, SchemaVersion
  <2>4. CASE \E schema \in Schemas :
               e.schemas = Append(d.schemas, schema) /\ KeepsFields(CurrentSchema(d), schema)
    <3>1. Remembers(ms, ms)
      BY DEF Remembers
    <3> QED
      BY <1>1, <2>1, <2>4, <3>1, LostByApprovalOn
  <2> QED
    BY <2>2, <2>3, <2>4 DEF OneSchemaMore
<1> QED
  BY <1>3, <1>4, <1>5 DEF AllCarriedOut

\* A key that a migration was carried out under is bound.
LEMMA CarriedOutBinds ==
  ASSUME NEW d, Kept(d), NEW k \in MigrationKeys, NEW entry, CarriedOut(d, k, entry)
  PROVE  ~Fresh(d, k) /\ ReceiptsFor(d, k) = {entry.receipt}
<1>1. k \in Keys /\ entry.receipt \in ReceiptsFor(d, k)
  BY MigrationAssumption DEF CarriedOut, ReceiptsFor
<1> QED
  BY <1>1 DEF Kept, LogSound, LedgerMatchesLog, Fresh

\* The migration carries out what its entry says.
LEMMA ExecutedCarriesOut ==
  ASSUME NEW d, NEW k, NEW m, Planned(d, k, m), Fresh(d, k), BlocksWhole(d),
         NEW e, e = Finished(d, k, m),
         NEW ms \in [Keys -> MigrationResults \cup {Nil}], AllCarriedOut(d, ms),
         NEW entry, entry # Nil, entry.proposal = m, entry.digest = PlanDigest(d, m),
         entry.version = SchemaVersion(d) + 1, entry.receipt = Len(e.events),
         Destructive(m) => entry.approved
  PROVE  AllCarriedOut(e, [ms EXCEPT ![k] = entry])
<1> DEFINE ns == [ms EXCEPT ![k] = entry]
           schema == Proposed(CurrentSchema(d), m)
           records == PlanDigest(d, m).records
<1>1. /\ Kept(d) /\ d \in Images /\ m \in Proposals /\ k \in MigrationKeys /\ k \in Keys
      /\ SchemaVersion(d) \in Nat \ {0}
  BY MigrationAssumption, CurrentSchemaType DEF Planned, Kept
<1>2. /\ e \in Images /\ Extends(d, e) /\ e.schemas = Append(d.schemas, schema)
      /\ \A key \in Keys : key # k /\ (\A r \in Ids : key # ChildKey(k, r)) =>
           e.idem[key] = d.idem[key]
      /\ \A r \in Ids : Active(e, r) => e.records[r].schemaVersion = SchemaVersion(d) + 1
      /\ Len(e.events) \in Nat \ {0}
      /\ e.events[Len(e.events)].key = k
      /\ ChildrenAsReviewed(e, e.events[Len(e.events)].children, records)
  BY FinishedAsReviewed DEF Kept
<1>3. ns[k] = entry /\ \A l \in MigrationKeys : l # k => ns[l] = ms[l]
  BY <1>1, MigrationAssumption
<1>4. ms[k] = Nil
  BY <1>1, CarriedOutBinds DEF AllCarriedOut
<1>5. /\ SchemaVersion(e) = SchemaVersion(d) + 1
      /\ e.schemas[SchemaVersion(d) + 1] = schema
      /\ e.schemas[SchemaVersion(d)] = CurrentSchema(d)
  <2>1. d.schemas \in Seq(Schemas)
    BY <1>1 DEF Images
  <2> QED
    BY <1>1, <1>2, <2>1 DEF SchemaVersion, CurrentSchema
<1> HIDE DEF ns, schema, records
<1>6. CarriedOut(e, k, entry)
  <2>1. entry.version \in 2..SchemaVersion(e) /\ entry.version - 1 = SchemaVersion(d)
    BY <1>1, <1>5
  <2>2. entry.receipt \in 1..Len(e.events)
    BY <1>2
  <2>3. /\ entry.digest.proposal = m /\ entry.digest.from = CurrentSchema(d)
        /\ entry.digest.to = schema /\ entry.digest.records = records
    BY DEF PlanDigest, schema, records
  <2>4. \A r \in Ids : Active(e, r) => e.records[r].schemaVersion >= entry.version
    BY <1>1, <1>2
  <2> QED
    BY <1>2, <1>5, <2>1, <2>2, <2>3, <2>4 DEF CarriedOut
<1>7. ASSUME NEW l \in MigrationKeys, ns[l] # Nil PROVE CarriedOut(e, l, ns[l])
  <2>1. CASE l = k
    BY <1>3, <1>6, <2>1
  <2>2. CASE l # k
    <3>1. CarriedOut(d, l, ms[l]) /\ ns[l] = ms[l]
      BY <1>3, <1>7, <2>2 DEF AllCarriedOut
    <3>2. \A r \in Ids : Active(e, r) => e.records[r].schemaVersion >= SchemaVersion(d)
      BY <1>1, <1>2
    <3>3. CarriedOut(e, l, ms[l])
      BY <1>1, <1>2, <3>1, <3>2, CarriedOutStands
    <3> QED
      BY <3>1, <3>3
  <2> QED
    BY <2>1, <2>2
<1>8. ASSUME NEW l \in MigrationKeys, NEW r \in Ids, ns[l] = Nil
      PROVE  Fresh(e, ChildKey(l, r))
  <2>1. l # k /\ ms[l] = Nil
    BY <1>3, <1>8
  <2>2. /\ ChildKey(l, r) \in Keys /\ ChildKey(l, r) # k
        /\ \A s \in Ids : ChildKey(l, r) # ChildKey(k, s)
    BY <1>1, <2>1, MigrationAssumption
  <2>3. Fresh(d, ChildKey(l, r))
    BY <2>1 DEF AllCarriedOut
  <2> QED
    BY <1>2, <2>2, <2>3 DEF Fresh
<1>9. LostByApproval(e, ns)
  <2>1. LostByApproval(d, ms)
    BY DEF AllCarriedOut
  <2>2. Remembers(ms, ns)
    BY <1>3, <1>4 DEF Remembers
  <2>3. ~KeepsFields(CurrentSchema(d), schema) =>
          ns[k] # Nil /\ ns[k].version = SchemaVersion(d) + 1 /\ entry.approved
    <3>1. CurrentSchema(d) \in Schemas /\ Applicable(CurrentSchema(d), m)
      BY <1>1, CurrentSchemaType DEF Planned, Plannable
    <3>2. ~KeepsFields(CurrentSchema(d), schema) => Destructive(m)
      BY <1>1, <3>1, AddingKeepsFields DEF schema
    <3> QED
      BY <1>3, <3>2
  <2>4. ~KeepsFields(CurrentSchema(d), schema) => ApprovedAs(SchemaVersion(d) + 1, ns)
    BY <1>1, <1>3, <2>3 DEF ApprovedAs
  <2> QED
    BY <1>1, <1>2, <2>1, <2>2, <2>4, LostByApprovalOn
<1>10. AllCarriedOut(e, ns)
  BY <1>7, <1>8, <1>9 DEF AllCarriedOut
<1> QED
  BY <1>10 DEF ns

LEMMA PlanDigestType ==
  ASSUME NEW d \in Images, NEW m \in Proposals
  PROVE  PlanDigest(d, m) \in PlanDigests
<1> DEFINE records == {[rec |-> r, row |-> d.records[r], after |-> RowData(d, r, m)] :
                         r \in ActiveRecords(d)}
<1>1. ASSUME NEW r \in ActiveRecords(d)
      PROVE  [rec |-> r, row |-> d.records[r], after |-> RowData(d, r, m)] \in PlannedRecords
  <2>1. r \in Ids /\ Active(d, r) /\ d.records[r] \in Rows
    BY DEF ActiveRecords, Active, Images
  <2> QED
    BY <2>1, RowDataType DEF PlannedRecords
<1>2. records \in SUBSET PlannedRecords
  BY <1>1
<1>3. CurrentSchema(d) \in Schemas /\ Proposed(CurrentSchema(d), m) \in Schemas
  BY CurrentSchemaType, ProposalType
<1> HIDE DEF records
<1>4. [proposal |-> m, from |-> CurrentSchema(d), to |-> Proposed(CurrentSchema(d), m),
       records |-> records] \in PlanDigests
  BY <1>2, <1>3 DEF PlanDigests
<1> QED
  BY <1>4 DEF PlanDigest, records

LEMMA MigrationIInvInit == MigrationInit => MigrationIInv
<1> SUFFICES ASSUME MigrationInit PROVE MigrationIInv
  OBVIOUS
<1>1. /\ store = EmptyImage(BaseSchema)
      /\ migrated = [k \in Keys |-> Nil]
      /\ reviewed = [p \in Procs |-> NoReview]
  BY DEF MigrationInit
<1>2. BaseSchema \in Schemas /\ MigrationKeys \subseteq Keys
  BY CallersAssumption, MigrationAssumption DEF AcceptableCalls
<1>3. Kept(store) /\ store \in Images
  BY <1>1, <1>2, EmptyKept DEF Kept
<1>4. Len(store.events) = 0 /\ SchemaVersion(store) = 1 /\ \A k \in Keys : Fresh(store, k)
  BY <1>1 DEF EmptyImage, SchemaVersion, Fresh
<1>5. BlocksWhole(store)
  BY <1>4 DEF BlocksWhole
<1>6. MigrationTypeOK
  BY <1>1, <1>3 DEF MigrationTypeOK, NoReview
<1>7. AllCarriedOut(store, migrated)
  <2>1. \A k \in MigrationKeys : migrated[k] = Nil
    BY <1>1, <1>2
  <2>2. LostByApproval(store, migrated)
    BY <1>4 DEF LostByApproval
  <2>3. \A k \in MigrationKeys, r \in Ids : Fresh(store, ChildKey(k, r))
    BY <1>4, MigrationAssumption
  <2> QED
    BY <2>1, <2>2, <2>3 DEF AllCarriedOut
<1> QED
  BY <1>3, <1>5, <1>6, <1>7 DEF MigrationIInv

LEMMA MigrationIInvStays ==
  ASSUME MigrationIInv, UNCHANGED <<store, migrated>>,
         reviewed' \in [Procs -> [proposal : Proposals \cup {Nil},
                                  digest   : PlanDigests \cup {Nil}]]
  PROVE  MigrationIInv'
<1>1. MigrationTypeOK /\ Kept(store) /\ BlocksWhole(store) /\ AllCarriedOut(store, migrated)
  BY DEF MigrationIInv
<1>2. MigrationTypeOK'
  BY <1>1 DEF MigrationTypeOK
<1>3. Kept(store') /\ BlocksWhole(store') /\ AllCarriedOut(store', migrated')
  <2>1. store' = store /\ migrated' = migrated
    OBVIOUS
  <2> QED
    BY <1>1, <2>1
<1> QED
  BY <1>2, <1>3 DEF MigrationIInv

LEMMA MigrationIInvPreview ==
  ASSUME MigrationIInv, NEW p \in Procs, PreviewMigration(p)
  PROVE  MigrationIInv'
<1>1. PICK m \in Proposals :
        reviewed' = [reviewed EXCEPT ![p] = [proposal |-> m, digest |-> PlanDigest(store, m)]]
  BY DEF PreviewMigration
<1>2. MigrationTypeOK /\ store \in Images
  BY DEF MigrationIInv, MigrationTypeOK
<1>3. PlanDigest(store, m) \in PlanDigests
  BY <1>2, PlanDigestType
<1>4. reviewed' \in [Procs -> [proposal : Proposals \cup {Nil},
                               digest   : PlanDigests \cup {Nil}]]
  <2> DEFINE review == [proposal |-> m, digest |-> PlanDigest(store, m)]
  <2>1. review \in [proposal : Proposals \cup {Nil}, digest : PlanDigests \cup {Nil}]
    BY <1>3
  <2> HIDE DEF review
  <2>2. reviewed' = [reviewed EXCEPT ![p] = review]
    BY <1>1 DEF review
  <2> QED
    BY <1>2, <2>1, <2>2 DEF MigrationTypeOK
<1>5. UNCHANGED <<store, migrated>>
  BY DEF PreviewMigration
<1> QED
  BY <1>4, <1>5, MigrationIInvStays

LEMMA MigrationIInvExecute ==
  ASSUME MigrationIInv, NEW p \in Procs, ExecuteMigration(p)
  PROVE  MigrationIInv'
<1> DEFINE m == reviewed[p].proposal
<1>1. PICK k \in MigrationKeys, approved \in BOOLEAN :
        /\ Fresh(store, k) /\ Plannable(store, m) /\ PlanAsReviewed(p, m)
        /\ Approved(m, approved)
        /\ store' = Finished(store, k, m)
        /\ migrated' = [migrated EXCEPT ![k] = MigrationResult(p, m, approved)]
  BY DEF ExecuteMigration
<1>2. /\ MigrationTypeOK /\ Kept(store) /\ BlocksWhole(store)
      /\ AllCarriedOut(store, migrated) /\ store \in Images
      /\ migrated \in [Keys -> MigrationResults \cup {Nil}] /\ k \in Keys
  BY MigrationAssumption DEF MigrationIInv, MigrationTypeOK
<1>3. m \in Proposals /\ UNCHANGED reviewed
  BY <1>2 DEF ExecuteMigration, MigrationTypeOK
<1> DEFINE entry == MigrationResult(p, m, approved)
<1>4. /\ entry.proposal = m /\ entry.digest = PlanDigest(store, m)
      /\ entry.approved = approved
      /\ entry.version = SchemaVersion(store) + 1 /\ entry.receipt = Len(store'.events)
      /\ Destructive(m) => entry.approved
  BY <1>1 DEF MigrationResult, PlanAsReviewed, Approved
<1>5. entry = [proposal |-> entry.proposal, digest |-> entry.digest,
               approved |-> entry.approved, version |-> entry.version,
               receipt |-> entry.receipt]
  BY DEF MigrationResult
<1> HIDE DEF entry, m
<1>6. migrated' = [migrated EXCEPT ![k] = entry]
  BY <1>1 DEF entry
<1>7. Planned(store, k, m)
  <2>1. migrated[k] = Nil
    BY <1>1, <1>2, CarriedOutBinds DEF AllCarriedOut
  <2> QED
    BY <1>1, <1>2, <1>3, <2>1 DEF Planned, AllCarriedOut
<1>8. PICK e : e = store'
  OBVIOUS
<1>9. e = Finished(store, k, m)
  BY <1>1, <1>8
<1>10. /\ Kept(e) /\ e \in Images /\ Extends(store, e) /\ BlocksWhole(e)
       /\ e.schemas = Append(store.schemas, Proposed(CurrentSchema(store), m))
       /\ Len(e.events) \in Nat \ {0}
  BY <1>1, <1>2, <1>7, <1>9, FinishedAsReviewed DEF Kept
<1>11. SchemaVersion(e) = SchemaVersion(store) + 1 /\ SchemaVersion(store) \in Nat \ {0}
  <2>1. store.schemas \in Seq(Schemas)
    BY <1>2 DEF Images
  <2> QED
    BY <1>2, <1>10, <2>1, CurrentSchemaType DEF SchemaVersion
<1>12. entry \in MigrationResults /\ entry # Nil
  <2>1. PlanDigest(store, m) \in PlanDigests
    BY <1>2, <1>3, PlanDigestType
  <2>2. entry.version \in Nat /\ entry.receipt \in Nat
    BY <1>4, <1>8, <1>10, <1>11
  <2>3. entry \in MigrationResults
    BY <1>3, <1>4, <1>5, <2>1, <2>2 DEF MigrationResults
  <2> QED
    BY <2>3, MigrationAssumption
<1>13. AllCarriedOut(e, [migrated EXCEPT ![k] = entry])
  <2>1. entry.receipt = Len(e.events)
    BY <1>4, <1>8
  <2> QED
    BY <1>1, <1>2, <1>4, <1>7, <1>9, <1>12, <2>1, ExecutedCarriesOut
<1>14. MigrationTypeOK'
  <2>1. migrated' \in [Keys -> MigrationResults \cup {Nil}]
    BY <1>2, <1>6, <1>12
  <2>2. ASSUME NEW l \in Keys, migrated'[l] # Nil
        PROVE  /\ l \in MigrationKeys
               /\ migrated'[l].version \in 2..SchemaVersion(e)
               /\ migrated'[l].receipt \in 1..Len(e.events)
    <3>1. l \in MigrationKeys
      BY <1>2, <1>6, <2>2 DEF MigrationTypeOK
    <3>2. CarriedOut(e, l, migrated'[l])
      BY <1>6, <1>13, <2>2, <3>1 DEF AllCarriedOut
    <3> QED
      BY <3>1, <3>2 DEF CarriedOut
  <2> QED
    BY <1>2, <1>3, <1>8, <1>10, <2>1, <2>2 DEF MigrationTypeOK
<1> QED
  BY <1>6, <1>8, <1>10, <1>13, <1>14 DEF MigrationIInv

LEMMA MigrationIInvOthers ==
  ASSUME MigrationIInv, OthersWrite
  PROVE  MigrationIInv'
<1>1. /\ MigrationTypeOK /\ Kept(store) /\ BlocksWhole(store)
      /\ AllCarriedOut(store, migrated)
      /\ store' \in Requested(store, Submissions, Evolutions)
      /\ UNCHANGED <<migrated, reviewed>>
  BY DEF MigrationIInv, OthersWrite
<1>2. PICK e : e = store'
  OBVIOUS
<1>3. e \in Requested(store, Submissions, Evolutions)
  BY <1>1, <1>2
<1>4. Kept(e) /\ e \in Images /\ Extends(store, e)
  BY <1>1, <1>3, CallersAssumption, RequestedKept DEF Kept
<1>5. BlocksWhole(e)
  BY <1>1, <1>3, CallersAssumption, RequestedBlocks
<1>6. AllCarriedOut(e, migrated)
  BY <1>1, <1>3, OthersLeaveMigrations
<1>7. MigrationTypeOK'
  <2>1. ASSUME NEW k \in Keys, migrated[k] # Nil
        PROVE  /\ k \in MigrationKeys
               /\ migrated[k].version \in 2..SchemaVersion(e)
               /\ migrated[k].receipt \in 1..Len(e.events)
    <3>1. k \in MigrationKeys
      BY <1>1, <2>1 DEF MigrationTypeOK
    <3>2. CarriedOut(e, k, migrated[k])
      BY <1>6, <2>1, <3>1 DEF AllCarriedOut
    <3> QED
      BY <3>1, <3>2 DEF CarriedOut
  <2> QED
    BY <1>1, <1>2, <1>4, <2>1 DEF MigrationTypeOK
<1> QED
  BY <1>1, <1>2, <1>4, <1>5, <1>6, <1>7 DEF MigrationIInv

\* The tables are sound, the history whole and the schemas' losses approved,
\* and every migration stays carried out as its digest said, in every state.
THEOREM MigrationInvariance == MigrationSpec => []MigrationIInv
<1>1. MigrationIInv /\ [MigrationNext]_migrationVars => MigrationIInv'
  <2> SUFFICES ASSUME MigrationIInv, [MigrationNext]_migrationVars PROVE MigrationIInv'
    OBVIOUS
  <2>1. ASSUME NEW p \in Procs, PreviewMigration(p) PROVE MigrationIInv'
    BY <2>1, MigrationIInvPreview
  <2>2. ASSUME NEW p \in Procs, ExecuteMigration(p) PROVE MigrationIInv'
    BY <2>2, MigrationIInvExecute
  <2>3. CASE OthersWrite
    BY <2>3, MigrationIInvOthers
  <2>4. CASE UNCHANGED migrationVars
    <3>1. UNCHANGED <<store, migrated>> /\ UNCHANGED reviewed
      BY <2>4 DEF migrationVars
    <3>2. reviewed' \in [Procs -> [proposal : Proposals \cup {Nil},
                                   digest   : PlanDigests \cup {Nil}]]
      BY <3>1 DEF MigrationIInv, MigrationTypeOK
    <3> QED
      BY <3>1, <3>2, MigrationIInvStays
  <2> QED
    BY <2>1, <2>2, <2>3, <2>4 DEF MigrationNext
<1> QED
  BY <1>1, MigrationIInvInit, PTL DEF MigrationSpec

\* Under schema versions that take fields away, every record still reads back
\* under its own version, the index is exact and no reference dangles, and no
\* active record is left behind the last migration.
THEOREM MigrationsStaySound == MigrationSpec => []ImagesStaySound
<1>1. MigrationIInv => ImagesStaySound
  <2> SUFFICES ASSUME MigrationIInv PROVE ImagesStaySound
    OBVIOUS
  <2>1. MigrationTypeOK /\ Sound(store) /\ AllCarriedOut(store, migrated)
    BY DEF MigrationIInv, Kept
  <2>2. ASSUME NEW k \in Executed, NEW r \in ActiveRecords(store)
        PROVE  store.records[r].schemaVersion >= migrated[k].version
    <3>1. CarriedOut(store, k, migrated[k])
      BY <2>1 DEF Executed, AllCarriedOut
    <3>2. r \in Ids /\ Active(store, r)
      BY DEF ActiveRecords
    <3> QED
      BY <3>1, <3>2 DEF CarriedOut
  <2> QED
    BY <2>1, <2>2 DEF Sound, ImagesStaySound
<1> QED
  BY <1>1, MigrationInvariance, PTL

\* What MigratedAsReviewed says of one migration.
ReviewedBlock(k) ==
  LET digest == migrated[k].digest
      done   == BlockOf(k)
  IN  /\ digest.proposal = migrated[k].proposal
      /\ store.schemas[migrated[k].version - 1] = digest.from
      /\ store.schemas[migrated[k].version] = digest.to
      /\ {store.events[i].rec : i \in done} = {x.rec : x \in digest.records}
      /\ \A i \in done, x \in digest.records :
           LET event == store.events[i]
               child == store.idem[event.key]
           IN  event.rec = x.rec =>
                 /\ event.before = x.row.version
                 /\ child.result.snapshots[1].row.data = x.after

\* What a migration committed is what the digest its caller had reviewed said,
\* whatever was written between the preview and the commit and is written
\* afterwards; and no field is lost without an approved migration.
THEOREM MigrationsAsReviewed == MigrationSpec => []MigratedAsReviewed
<1>1. MigrationIInv => MigratedAsReviewed
  <2> SUFFICES ASSUME MigrationIInv PROVE MigratedAsReviewed
    OBVIOUS
  <2>1. AllCarriedOut(store, migrated)
    BY DEF MigrationIInv
  <2>2. ASSUME NEW k \in Executed
        PROVE  ReviewedBlock(k)
    <3> DEFINE records == migrated[k].digest.records
               children == store.events[migrated[k].receipt].children
               done == BlockOf(k)
    <3>1. CarriedOut(store, k, migrated[k])
      BY <2>1 DEF Executed, AllCarriedOut
    <3>2. ChildrenAsReviewed(store, children, records)
      BY <3>1 DEF CarriedOut
    <3>3. done = {children[n] : n \in 1..Len(children)}
      BY DEF BlockOf
    <3> HIDE DEF records, children, done
    <3>4. \A i \in done : ChildAsReviewed(store, i, records)
      BY <3>2, <3>3 DEF ChildrenAsReviewed
    <3>5. \A x \in records : \E i \in done : store.events[i].rec = x.rec
      BY <3>2, <3>3 DEF ChildrenAsReviewed
    <3>6. {store.events[i].rec : i \in done} = {x.rec : x \in records}
      <4>1. \A i \in done : \E x \in records : store.events[i].rec = x.rec
        BY <3>4 DEF ChildAsReviewed
      <4> QED
        BY <3>5, <4>1
    <3>7. \A i \in done, x \in records : store.events[i].rec = x.rec =>
            /\ store.events[i].before = x.row.version
            /\ store.idem[store.events[i].key].result.snapshots[1].row.data = x.after
      <4>1. ASSUME NEW i \in done, NEW x \in records, store.events[i].rec = x.rec
            PROVE  /\ store.events[i].before = x.row.version
                   /\ store.idem[store.events[i].key].result.snapshots[1].row.data
                        = x.after
        <5>1. ChildAsReviewed(store, i, records)
          BY <3>4
        <5> QED
          BY <4>1, <5>1, Zenon DEF ChildAsReviewed
      <4> QED
        BY <4>1, Zenon
    <3>8. /\ migrated[k].digest.proposal = migrated[k].proposal
          /\ store.schemas[migrated[k].version - 1] = migrated[k].digest.from
          /\ store.schemas[migrated[k].version] = migrated[k].digest.to
      BY <3>1 DEF CarriedOut
    <3> QED
      BY <3>6, <3>7, <3>8, Zenon DEF ReviewedBlock, records, done
  <2>3. ASSUME NEW n \in 2..SchemaVersion(store), LosesField(n)
        PROVE  \E k \in Executed : migrated[k].version = n /\ migrated[k].approved
    <3>1. ~KeepsFields(store.schemas[n - 1], store.schemas[n])
      BY <2>3 DEF LosesField, KeepsFields
    <3>2. ApprovedAs(n, migrated)
      BY <2>1, <3>1 DEF AllCarriedOut, LostByApproval
    <3> QED
      BY <3>2 DEF ApprovedAs, Executed
  <2> QED
    BY <2>2, <2>3, Zenon DEF MigratedAsReviewed, ReviewedBlock
<1> QED
  BY <1>1, MigrationInvariance, PTL

\* Rewriting every record leaves each one's versions numbered and logged, each
\* key with its one receipt, a migration's too, and transactions in contiguous
\* blocks.
THEOREM MigrationHistoryStaysWhole == MigrationSpec => []HistoryStaysWhole
<1>1. MigrationIInv => HistoryStaysWhole
  <2> SUFFICES ASSUME MigrationIInv PROVE HistoryStaysWhole
    OBVIOUS
  <2>1. Kept(store) /\ BlocksWhole(store) /\ AllCarriedOut(store, migrated)
    BY DEF MigrationIInv
  <2>2. ASSUME NEW k \in Executed
        PROVE  ReceiptsFor(store, k) = {migrated[k].receipt}
    <3>1. k \in MigrationKeys /\ CarriedOut(store, k, migrated[k])
      BY <2>1 DEF Executed, AllCarriedOut
    <3> QED
      BY <2>1, <3>1, CarriedOutBinds
  <2>3. VersionsLogged(store) /\ LedgerMatchesLog(store)
    BY <2>1 DEF Kept, LogSound
  <2> QED
    BY <2>1, <2>2, <2>3 DEF HistoryStaysWhole
<1> QED
  BY <1>1, MigrationInvariance, PTL
===============================================================================
