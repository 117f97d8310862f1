----------------------- MODULE CanvasDocumentsProofs -----------------------
(***************************************************************************)
(* Proofs about Canvas documents, for every set of documents, actors, keys *)
(* and edits, and every limit of a board.                                  *)
(*                                                                         *)
(* Archived(d) relates the three parts of a database: a revision is in the *)
(* archive exactly when its key is in the ledger, a revision of the        *)
(* version a document has is that version, and an update or deletion that  *)
(* is in the ledger has moved its document on.  Every part of a            *)
(* transaction keeps it; the lemmas about the calls compose those of their *)
(* parts.                                                                  *)
(***************************************************************************)
EXTENDS CanvasDocuments, FiniteSetTheorems, TLAPS

(***************************************************************************)
(* The invariant of a database.                                            *)
(***************************************************************************)
Typed(d) ==
  /\ d = [docs |-> d.docs, revisions |-> d.revisions, ledger |-> d.ledger]
  /\ d.docs \in [Ids -> Documents \cup {Nil}]
  /\ d.revisions \in Seq(Revisions)
  /\ \A id \in Ids : d.docs[id] # Nil => ValidBoard(d.docs[id].board)
  /\ \A i \in 1..Len(d.revisions) : ValidBoard(d.revisions[i].document.board)

KeyOf(r) == ArchivalKey(r.document.id, r.document.version)

KeysBindOnce(d) == \A e, f \in d.ledger : e.key = f.key => e = f

RevisionsFiled(d) ==
  \A e \in d.ledger : e.key \in ArchivalKeys =>
    \E i \in 1..Len(d.revisions) : e.key = KeyOf(d.revisions[i]) /\ e.request = d.revisions[i]

RevisionsKeyed(d) ==
  \A i \in 1..Len(d.revisions) : \E e \in d.ledger : e.key = KeyOf(d.revisions[i])

Readable(d) ==
  \A i, j \in 1..Len(d.revisions) :
    KeyOf(d.revisions[i]) = KeyOf(d.revisions[j]) => i = j

\* r is the version its document has now.
IsCurrent(d, r) ==
  /\ r.document.id \in Ids
  /\ Live(d, r.document.id)
  /\ r = Revision(View(d, r.document.id), d.docs[r.document.id].updatedBy)

RevisionsPast(d) ==
  \A i \in 1..Len(d.revisions) :
    LET then == d.revisions[i].document
        now  == d.docs[then.id]
    IN  /\ now # Nil
        /\ then.version <= now.version
        /\ then.version = now.version => IsCurrent(d, d.revisions[i])

EntryDone(d, e) ==
  /\ e.result.id \in Ids
  /\ e.request.op \in {"data.record.update", "data.record.delete"} =>
       /\ e.request.id \in Ids
       /\ e.request.expected \in Nat
       /\ d.docs[e.request.id] # Nil
       /\ e.request.expected < d.docs[e.request.id].version

EntriesDone(d) == \A e \in d.ledger : e.key \notin ArchivalKeys => EntryDone(d, e)

Archived(d) ==
  /\ KeysBindOnce(d)
  /\ RevisionsFiled(d)
  /\ RevisionsKeyed(d)
  /\ Readable(d)
  /\ RevisionsPast(d)
  /\ EntriesDone(d)

Sound(d) == Typed(d) /\ Archived(d)

(***************************************************************************)
(* What a part of a transaction leaves: every document is as it was or     *)
(* later, the archive and the ledger have grown.                           *)
(***************************************************************************)
Advances(d, e) ==
  \A x \in Ids : d.docs[x] # Nil /\ e.docs[x] # d.docs[x] =>
                   e.docs[x] # Nil /\ d.docs[x].version < e.docs[x].version

Keeps(d, e) ==
  /\ Advances(d, e)
  /\ d.ledger \subseteq e.ledger
  /\ Len(d.revisions) <= Len(e.revisions)
  /\ \A i \in 1..Len(d.revisions) : e.revisions[i] = d.revisions[i]

\* What is new in the archive was current before or is current now.
ArchivesCurrent(d, e) ==
  \A i \in 1..Len(e.revisions) :
    \/ \E j \in 1..Len(d.revisions) : e.revisions[i] = d.revisions[j]
    \/ IsCurrent(d, e.revisions[i])
    \/ IsCurrent(e, e.revisions[i])

\* Only the given keys are new in the ledger, apart from the archive's.
Binds(d, e, keys) ==
  \A n \in e.ledger : n \in d.ledger \/ n.key \in keys \cup ArchivalKeys

Entry(key, request, result) == [key |-> key, request |-> request, result |-> result]

(***************************************************************************)
(* Keys.                                                                   *)
(***************************************************************************)
LEMMA ArchivalKeyInjective ==
  ASSUME NEW i, NEW j, NEW v, NEW w, ArchivalKey(i, v) = ArchivalKey(j, w)
  PROVE  i = j /\ v = w
BY DEF ArchivalKey

LEMMA KeysApart ==
  /\ \A k : IntentKey(k) \notin ArchivalKeys
  /\ \A k : CopyKey(k) \notin ArchivalKeys
  /\ \A k : RevertKey(k) \notin ArchivalKeys
  /\ \A k, l : IntentKey(k) # CopyKey(l)
  /\ \A k, l : IntentKey(k) # RevertKey(l)
  /\ \A k, l : CopyKey(k) # RevertKey(l)
  /\ \A k, l : IntentKey(k) = IntentKey(l) => k = l
  /\ \A k, l : CopyKey(k) = CopyKey(l) => k = l
  /\ \A k, l : RevertKey(k) = RevertKey(l) => k = l
BY DEF IntentKey, CopyKey, RevertKey, ArchivalKeys, ArchivalKey

LEMMA CallerKeys ==
  ASSUME NEW k \in Keys \cup {NewKey}
  PROVE  /\ k \notin ArchivalKeys
         /\ \A l \in Keys \cup {NewKey} :
              k # IntentKey(l) /\ k # CopyKey(l) /\ k # RevertKey(l)
BY KeysAssumption DEF DerivedKeys

LEMMA KeyOfRevision ==
  ASSUME NEW r \in Revisions
  PROVE  KeyOf(r) \in ArchivalKeys
BY DEF KeyOf, Revisions, Snapshots, ArchivalKeys

(***************************************************************************)
(* Parts of a transaction.                                                 *)
(***************************************************************************)
LEMMA OnceOk ==
  ASSUME NEW d, NEW key, NEW request, NEW fresh,
         Once(d, key, request, fresh).ok
  PROVE  \/ \E e \in d.ledger : /\ e.key = key /\ e.request = request
                                /\ Once(d, key, request, fresh) = Done(d, e.result)
         \/ /\ \A e \in d.ledger : e.key # key
            /\ fresh.ok
            /\ Once(d, key, request, fresh) =
                 Done([fresh.db EXCEPT !.ledger =
                         @ \cup {Entry(key, request, fresh.result)}], fresh.result)
<1>1. CASE \E e \in d.ledger : e.key = key
  <2> DEFINE f == CHOOSE e \in d.ledger : e.key = key
  <2>1. f \in d.ledger /\ f.key = key
    BY <1>1
  <2>2. Once(d, key, request, fresh) =
          IF f.request = request THEN Done(d, f.result) ELSE Failed(d)
    BY <1>1 DEF Once
  <2>3. f.request = request
    BY <2>2 DEF Failed
  <2> QED
    BY <2>1, <2>2, <2>3
<1>2. CASE \A e \in d.ledger : e.key # key
  BY <1>2 DEF Once, Failed, Entry
<1> QED
  BY <1>1, <1>2

\* What is bound is answered, and nothing is done.
LEMMA OnceBound ==
  ASSUME NEW d, NEW key, NEW request, NEW fresh,
         \E e \in d.ledger : e.key = key
  PROVE  Once(d, key, request, fresh).db = d
<1> DEFINE f == CHOOSE e \in d.ledger : e.key = key
<1>1. Once(d, key, request, fresh) =
        IF f.request = request THEN Done(d, f.result) ELSE Failed(d)
  BY DEF Once
<1> QED
  BY <1>1 DEF Done, Failed

LEMMA OnceAnswered ==
  ASSUME NEW d, NEW key, NEW request, NEW fresh, NEW e \in d.ledger,
         KeysBindOnce(d), e.key = key, e.request = request
  PROVE  Once(d, key, request, fresh) = Done(d, e.result)
<1>1. e = CHOOSE f \in d.ledger : f.key = key
  BY DEF KeysBindOnce
<1> QED
  BY <1>1 DEF Once

\* A write of documents with its ledger entry, or of an entry alone.
LEMMA WrittenSound ==
  ASSUME NEW d, NEW docs, NEW entry,
         Sound(d),
         docs \in [Ids -> Documents \cup {Nil}],
         \A id \in Ids : docs[id] # Nil => ValidBoard(docs[id].board),
         entry.key \notin ArchivalKeys,
         \A e \in d.ledger : e.key # entry.key,
         Advances(d, [docs |-> docs, revisions |-> d.revisions,
                      ledger |-> d.ledger \cup {entry}]),
         EntryDone([docs |-> docs, revisions |-> d.revisions,
                    ledger |-> d.ledger \cup {entry}], entry)
  PROVE  LET e == [docs |-> docs, revisions |-> d.revisions,
                   ledger |-> d.ledger \cup {entry}]
         IN  Sound(e) /\ Keeps(d, e) /\ Binds(d, e, {entry.key})
<1> DEFINE e == [docs |-> docs, revisions |-> d.revisions,
                 ledger |-> d.ledger \cup {entry}]
<1>1. /\ e.docs = docs /\ e.revisions = d.revisions /\ e.ledger = d.ledger \cup {entry}
      /\ Advances(d, e) /\ EntryDone(e, entry) /\ Typed(d)
      /\ KeysBindOnce(d) /\ RevisionsFiled(d) /\ RevisionsKeyed(d) /\ Readable(d)
      /\ RevisionsPast(d) /\ EntriesDone(d)
  BY DEF Sound, Archived
<1> HIDE DEF e
<1>2. Typed(e)
  <2>1. e = [docs |-> e.docs, revisions |-> e.revisions, ledger |-> e.ledger]
    BY <1>1 DEF e
  <2> QED
    BY <1>1, <2>1 DEF Typed
<1>3. KeysBindOnce(e)
  BY <1>1 DEF KeysBindOnce
<1>4. RevisionsFiled(e) /\ RevisionsKeyed(e) /\ Readable(e)
  BY <1>1 DEF RevisionsFiled, RevisionsKeyed, Readable
<1>5. ASSUME NEW x \in Ids, d.docs[x] # Nil
      PROVE  /\ e.docs[x] # Nil
             /\ d.docs[x].version \in Nat /\ e.docs[x].version \in Nat
             /\ d.docs[x].version <= e.docs[x].version
             /\ d.docs[x].version = e.docs[x].version => e.docs[x] = d.docs[x]
  <2>1. d.docs[x] \in Documents /\ e.docs[x] \in Documents \cup {Nil}
    BY <1>1, <1>5 DEF Typed
  <2>2. e.docs[x] # d.docs[x] => e.docs[x] # Nil /\ d.docs[x].version < e.docs[x].version
    BY <1>1, <1>5 DEF Advances
  <2>3. e.docs[x] \in Documents
    BY <2>1, <2>2, <1>5
  <2>4. d.docs[x].version \in Nat /\ e.docs[x].version \in Nat
    BY <2>1, <2>3, CanvasAssumption DEF Documents, Versions
  <2> QED
    BY <2>1, <2>2, <2>4, <2>3, DocumentsAssumption
<1>6. RevisionsPast(e)
  <2> SUFFICES ASSUME NEW i \in 1..Len(e.revisions)
               PROVE  LET then == e.revisions[i].document
                          now  == e.docs[then.id]
                      IN  /\ now # Nil
                          /\ then.version <= now.version
                          /\ then.version = now.version => IsCurrent(e, e.revisions[i])
    BY DEF RevisionsPast
  <2> DEFINE r == d.revisions[i]
             x == r.document.id
  <2>1. r \in Revisions
    BY <1>1 DEF Typed
  <2>2. x \in Ids /\ r.document.version \in Nat
    BY <2>1, CanvasAssumption DEF Revisions, Snapshots, Versions
  <2>3. /\ d.docs[x] # Nil
        /\ r.document.version <= d.docs[x].version
        /\ r.document.version = d.docs[x].version => IsCurrent(d, r)
    BY <1>1 DEF RevisionsPast
  <2> HIDE DEF r, x
  <2>4. /\ e.docs[x] # Nil
        /\ r.document.version <= e.docs[x].version
        /\ r.document.version = e.docs[x].version =>
             e.docs[x] = d.docs[x] /\ r.document.version = d.docs[x].version
    BY <1>5, <2>2, <2>3
  <2>5. e.docs[x] = d.docs[x] /\ IsCurrent(d, r) => IsCurrent(e, r)
    BY DEF IsCurrent, Live, View, x
  <2> QED
    BY <2>3, <2>4, <2>5, <1>1 DEF r, x
<1>7. EntriesDone(e)
  <2> SUFFICES ASSUME NEW f \in d.ledger, f.key \notin ArchivalKeys
               PROVE  EntryDone(e, f)
    BY <1>1 DEF EntriesDone
  <2>1. EntryDone(d, f)
    BY <1>1 DEF EntriesDone
  <2>2. SUFFICES ASSUME f.request.op \in {"data.record.update", "data.record.delete"}
                 PROVE  /\ e.docs[f.request.id] # Nil
                        /\ f.request.expected < e.docs[f.request.id].version
    BY <2>1 DEF EntryDone
  <2>3. /\ f.request.id \in Ids /\ f.request.expected \in Nat
        /\ d.docs[f.request.id] # Nil
        /\ f.request.expected < d.docs[f.request.id].version
    BY <2>1, <2>2 DEF EntryDone
  <2>4. e.docs[f.request.id] # d.docs[f.request.id] =>
          /\ e.docs[f.request.id] # Nil
          /\ d.docs[f.request.id].version < e.docs[f.request.id].version
    BY <1>1, <2>3 DEF Advances
  <2> QED
    BY <2>3, <2>4, <1>5
<1>8. Keeps(d, e) /\ Binds(d, e, {entry.key})
  <2>1. Len(d.revisions) \in Nat
    BY <1>1 DEF Typed
  <2> QED
    BY <1>1, <2>1 DEF Keeps, Binds
<1> QED
  BY <1>2, <1>3, <1>4, <1>6, <1>7, <1>8 DEF Sound, Archived, e

\* A version that is archived: its revision, and its key.
LEMMA AppendedSound ==
  ASSUME NEW d, NEW r,
         Sound(d), IsCurrent(d, r),
         \A n \in d.ledger : n.key # KeyOf(r)
  PROVE  LET e == [docs |-> d.docs, revisions |-> Append(d.revisions, r),
                   ledger |-> d.ledger \cup {Entry(KeyOf(r), r, Nil)}]
         IN  /\ Sound(e) /\ Keeps(d, e) /\ Binds(d, e, {})
             /\ ArchivesCurrent(d, e)
             /\ Matching(e, r.document.id, r.document.version) # {}
<1> DEFINE n == Entry(KeyOf(r), r, Nil)
           e == [docs |-> d.docs, revisions |-> Append(d.revisions, r),
                 ledger |-> d.ledger \cup {n}]
           x == r.document.id
           last == Len(d.revisions) + 1
<1>1. /\ e.docs = d.docs /\ e.revisions = Append(d.revisions, r)
      /\ e.ledger = d.ledger \cup {n}
      /\ n.key = KeyOf(r) /\ n.request = r
      /\ Typed(d)
      /\ KeysBindOnce(d) /\ RevisionsFiled(d) /\ RevisionsKeyed(d) /\ Readable(d)
      /\ RevisionsPast(d) /\ EntriesDone(d)
  BY DEF Sound, Archived, Entry
<1>2. /\ x \in Ids /\ d.docs[x] \in Documents /\ d.docs[x] # Nil
      /\ ~d.docs[x].deleted
      /\ r = Revision(View(d, x), d.docs[x].updatedBy)
      /\ ValidBoard(d.docs[x].board)
  BY <1>1 DEF IsCurrent, Typed, Live
<1>3. /\ r \in Revisions /\ ValidBoard(r.document.board)
      /\ r.document.version = d.docs[x].version
      /\ r.document.version \in Nat
  BY <1>2, CanvasAssumption DEF Revision, View, Revisions, Snapshots, Documents, Versions
<1>4. KeyOf(r) \in ArchivalKeys
  BY <1>3, KeyOfRevision
<1>5. /\ d.revisions \in Seq(Revisions)
      /\ Len(d.revisions) \in Nat
      /\ Len(e.revisions) = last
      /\ e.revisions \in Seq(Revisions)
      /\ e.revisions[last] = r
      /\ \A i \in 1..Len(d.revisions) : e.revisions[i] = d.revisions[i]
      /\ \A i \in 1..last : i \in 1..Len(d.revisions) \/ i = last
      /\ last \in 1..last /\ \A i \in 1..Len(d.revisions) : i \in 1..last
  BY <1>1, <1>3 DEF Typed
<1> HIDE DEF e, n, last
<1>6. Typed(e)
  <2>1. e = [docs |-> e.docs, revisions |-> e.revisions, ledger |-> e.ledger]
    BY <1>1 DEF e
  <2>2. \A i \in 1..Len(e.revisions) : ValidBoard(e.revisions[i].document.board)
    BY <1>1, <1>3, <1>5 DEF Typed
  <2> QED
    BY <1>1, <1>5, <2>1, <2>2 DEF Typed
<1>7. KeysBindOnce(e)
  BY <1>1 DEF KeysBindOnce
<1>8. RevisionsFiled(e)
  <2> SUFFICES ASSUME NEW f \in e.ledger, f.key \in ArchivalKeys
               PROVE  \E i \in 1..Len(e.revisions) :
                        f.key = KeyOf(e.revisions[i]) /\ f.request = e.revisions[i]
    BY DEF RevisionsFiled
  <2>1. CASE f = n
    BY <2>1, <1>1, <1>5
  <2>2. CASE f \in d.ledger
    <3>1. PICK i \in 1..Len(d.revisions) :
            f.key = KeyOf(d.revisions[i]) /\ f.request = d.revisions[i]
      BY <1>1, <2>2 DEF RevisionsFiled
    <3> QED
      BY <3>1, <1>5
  <2> QED
    BY <2>1, <2>2, <1>1
<1>9. RevisionsKeyed(e)
  <2> SUFFICES ASSUME NEW i \in 1..Len(e.revisions)
               PROVE  \E f \in e.ledger : f.key = KeyOf(e.revisions[i])
    BY DEF RevisionsKeyed
  <2> QED
    BY <1>1, <1>5 DEF RevisionsKeyed
<1>10. ASSUME NEW i \in 1..Len(d.revisions)
       PROVE  KeyOf(d.revisions[i]) # KeyOf(r)
  BY <1>1 DEF RevisionsKeyed
<1>11. Readable(e)
  BY <1>1, <1>5, <1>10 DEF Readable
<1>12. IsCurrent(e, r)
  BY <1>1 DEF IsCurrent, Live, View
<1>13. RevisionsPast(e)
  <2> SUFFICES ASSUME NEW i \in 1..Len(e.revisions)
               PROVE  LET then == e.revisions[i].document
                          now  == e.docs[then.id]
                      IN  /\ now # Nil
                          /\ then.version <= now.version
                          /\ then.version = now.version => IsCurrent(e, e.revisions[i])
    BY DEF RevisionsPast
  <2>1. CASE i = last
    BY <2>1, <1>1, <1>2, <1>3, <1>5, <1>12
  <2>2. CASE i \in 1..Len(d.revisions)
    <3>1. \A s : IsCurrent(d, s) => IsCurrent(e, s)
      BY <1>1 DEF IsCurrent, Live, View
    <3> QED
      BY <2>2, <3>1, <1>1, <1>5 DEF RevisionsPast
  <2> QED
    BY <2>1, <2>2, <1>5
<1>14. EntriesDone(e)
  BY <1>1, <1>4 DEF EntriesDone, EntryDone
<1>15. Keeps(d, e) /\ Binds(d, e, {})
  BY <1>1, <1>4, <1>5 DEF Keeps, Binds, Advances, last
<1>16. ArchivesCurrent(d, e)
  BY <1>5, <1>12 DEF ArchivesCurrent
<1>17. last \in Matching(e, r.document.id, r.document.version)
  BY <1>5 DEF Matching
<1>18. Sound(e)
  BY <1>6, <1>7, <1>8, <1>9, <1>11, <1>13, <1>14 DEF Sound, Archived
<1> QED
  BY <1>15, <1>16, <1>17, <1>18 DEF e, n

LEMMA Entered ==
  ASSUME NEW docs, NEW revisions, NEW ledger, NEW entry, NEW base,
         base = [docs |-> docs, revisions |-> revisions, ledger |-> ledger]
  PROVE  [base EXCEPT !.ledger = @ \cup {entry}] =
           [docs |-> docs, revisions |-> revisions, ledger |-> ledger \cup {entry}]
OBVIOUS

LEMMA KeepsSame ==
  ASSUME NEW d, Typed(d)
  PROVE  Keeps(d, d) /\ Binds(d, d, {}) /\ ArchivesCurrent(d, d)
BY DEF Typed, Keeps, Binds, ArchivesCurrent, Advances

LEMMA FiledMatches ==
  ASSUME NEW d, NEW id \in Ids, NEW v \in Versions, NEW n \in d.ledger,
         Sound(d), n.key = ArchivalKey(id, v)
  PROVE  \E i \in 1..Len(d.revisions) :
           /\ n.request = d.revisions[i]
           /\ d.revisions[i].document.id = id
           /\ d.revisions[i].document.version = v
<1>1. PICK i \in 1..Len(d.revisions) :
        n.key = KeyOf(d.revisions[i]) /\ n.request = d.revisions[i]
  BY DEF Sound, Archived, RevisionsFiled, ArchivalKeys
<1> DEFINE document == d.revisions[i].document
<1>2. ArchivalKey(document.id, document.version) = ArchivalKey(id, v)
  BY <1>1 DEF KeyOf
<1>3. document.id = id /\ document.version = v
  BY <1>2, ArchivalKeyInjective
<1> QED
  BY <1>1, <1>3

LEMMA ArchiveOk ==
  ASSUME NEW d, NEW document,
         Sound(d), document.id \in Ids, Archive(d, document).ok
  PROVE  LET e == Archive(d, document).db
         IN  /\ Live(d, document.id) /\ View(d, document.id) = document
             /\ e.docs = d.docs
             /\ Sound(e) /\ Keeps(d, e) /\ Binds(d, e, {}) /\ ArchivesCurrent(d, e)
             /\ Matching(e, document.id, document.version) # {}
             /\ \E n \in e.ledger : n.key = ArchivalKey(document.id, document.version)
<1> DEFINE key == ArchivalKey(document.id, document.version)
           r   == Revision(document, d.docs[document.id].updatedBy)
           fresh == Done([d EXCEPT !.revisions = Append(@, r)], Nil)
<1>1. /\ Live(d, document.id) /\ View(d, document.id) = document
      /\ Archive(d, document) = Once(d, key, r, fresh)
  BY DEF Archive, Failed
<1>2. IsCurrent(d, r) /\ KeyOf(r) = key /\ r.document = document
  BY <1>1 DEF IsCurrent, Revision, KeyOf
<1>3. CASE \E n \in d.ledger : n.key = key /\ Once(d, key, r, fresh) = Done(d, n.result)
  <2>1. PICK n \in d.ledger : n.key = key /\ Once(d, key, r, fresh) = Done(d, n.result)
    BY <1>3
  <2>2. Archive(d, document).db = d
    BY <1>1, <2>1 DEF Done
  <2>3. document.version \in Versions
    BY <1>1 DEF Live, View, Sound, Typed, Documents
  <2>4. Matching(d, document.id, document.version) # {}
    BY <2>1, <2>3, FiledMatches DEF Matching
  <2> QED
    BY <1>1, <2>1, <2>2, <2>4, KeepsSame DEF Sound
<1>4. CASE /\ \A n \in d.ledger : n.key # key
           /\ Once(d, key, r, fresh) =
                Done([fresh.db EXCEPT !.ledger = @ \cup {Entry(key, r, fresh.result)}],
                     fresh.result)
  <2> DEFINE e == [docs |-> d.docs, revisions |-> Append(d.revisions, r),
                   ledger |-> d.ledger \cup {Entry(KeyOf(r), r, Nil)}]
  <2>1. d = [docs |-> d.docs, revisions |-> d.revisions, ledger |-> d.ledger]
    BY DEF Sound, Typed
  <2>2. [d EXCEPT !.revisions = Append(@, r)] =
          [docs |-> d.docs, revisions |-> Append(d.revisions, r), ledger |-> d.ledger]
    BY <2>1, SMTT(60)
  <2>3. fresh.db = [docs |-> d.docs, revisions |-> Append(d.revisions, r),
                    ledger |-> d.ledger] /\ fresh.result = Nil
    BY <2>2 DEF Done
  <2>4. Archive(d, document).db =
          [fresh.db EXCEPT !.ledger = @ \cup {Entry(key, r, Nil)}]
    BY <1>1, <1>4, <2>3, SMTT(60) DEF Done
  <2>5. Archive(d, document).db = e
    <3> DEFINE entry == Entry(key, r, Nil)
    <3> HIDE DEF entry, fresh
    <3>1. [fresh.db EXCEPT !.ledger = @ \cup {entry}] =
            [docs |-> d.docs, revisions |-> Append(d.revisions, r),
             ledger |-> d.ledger \cup {entry}]
      <4> DEFINE base == fresh.db
                 revisions == Append(d.revisions, r)
      <4>1. base = [docs |-> d.docs, revisions |-> revisions, ledger |-> d.ledger]
        BY <2>3
      <4> HIDE DEF base, revisions
      <4>2. [base EXCEPT !.ledger = @ \cup {entry}] =
              [docs |-> d.docs, revisions |-> revisions, ledger |-> d.ledger \cup {entry}]
        BY <4>1, Entered
      <4> QED
        BY <4>2 DEF base, revisions
    <3>2. Archive(d, document).db =
            [docs |-> d.docs, revisions |-> Append(d.revisions, r),
             ledger |-> d.ledger \cup {entry}]
      BY <2>4, <3>1 DEF entry
    <3> QED
      BY <1>2, <3>2 DEF entry
  <2>6. /\ Sound(e) /\ Keeps(d, e) /\ Binds(d, e, {}) /\ ArchivesCurrent(d, e)
        /\ Matching(e, r.document.id, r.document.version) # {}
    BY <1>2, <1>4, AppendedSound
  <2>7. e.docs = d.docs /\ e.ledger = d.ledger \cup {Entry(key, r, Nil)}
    BY <1>2
  <2> HIDE DEF e, key, fresh
  <2>8. Entry(key, r, Nil).key = key
    BY DEF Entry
  <2>9. \E n \in e.ledger : n.key = key
    BY <2>7, <2>8
  <2> HIDE DEF r
  <2>10. /\ Live(d, document.id) /\ View(d, document.id) = document
         /\ e.docs = d.docs
         /\ Sound(e) /\ Keeps(d, e) /\ Binds(d, e, {}) /\ ArchivesCurrent(d, e)
         /\ Matching(e, document.id, document.version) # {}
         /\ \E n \in e.ledger : n.key = ArchivalKey(document.id, document.version)
    BY <1>1, <1>2, <2>6, <2>7, <2>9 DEF key
  <2> QED
    BY <2>5, <2>10
<1>5. Once(d, key, r, fresh).ok
  BY <1>1
<1> HIDE DEF fresh, r, key
<1>6. \/ \E n \in d.ledger : n.key = key /\ Once(d, key, r, fresh) = Done(d, n.result)
      \/ /\ \A n \in d.ledger : n.key # key
         /\ Once(d, key, r, fresh) =
              Done([fresh.db EXCEPT !.ledger = @ \cup {Entry(key, r, fresh.result)}],
                   fresh.result)
  BY <1>5, OnceOk
<1> QED
  BY <1>3, <1>4, <1>6

\* The version a live document has can always be archived.
LEMMA ArchiveSucceeds ==
  ASSUME NEW d, NEW id \in Ids, Sound(d), Live(d, id)
  PROVE  Archive(d, View(d, id)).ok
<1> DEFINE document == View(d, id)
           key == ArchivalKey(document.id, document.version)
           r   == Revision(document, d.docs[document.id].updatedBy)
           fresh == Done([d EXCEPT !.revisions = Append(@, r)], Nil)
<1>1. Archive(d, document) = Once(d, key, r, fresh)
  BY DEF Archive, View
<1>2. CASE \A n \in d.ledger : n.key # key
  <2>1. fresh.ok
    BY DEF Done
  <2> HIDE DEF fresh
  <2>2. Once(d, key, r, fresh).ok
    BY <1>2, <2>1 DEF Once, Done
  <2> QED
    BY <1>1, <2>2
<1>3. ASSUME NEW n \in d.ledger, n.key = key
      PROVE  Once(d, key, r, fresh) = Done(d, n.result)
  <2>1. document.id = id /\ document.version = d.docs[id].version
    BY DEF View
  <2>2. document.version \in Versions
    BY <2>1 DEF Live, Sound, Typed, Documents
  <2>3. PICK i \in 1..Len(d.revisions) :
           /\ n.request = d.revisions[i]
           /\ d.revisions[i].document.id = id
           /\ d.revisions[i].document.version = document.version
    BY <1>3, <2>1, <2>2, FiledMatches
  <2>4. IsCurrent(d, d.revisions[i])
    BY <2>1, <2>3 DEF Sound, Archived, RevisionsPast
  <2>5. n.request = r
    BY <2>1, <2>3, <2>4 DEF IsCurrent
  <2> QED
    BY <1>3, <2>5, OnceAnswered DEF Sound, Archived
<1> QED
  <2>1. \A n : Done(d, n).ok
    BY DEF Done
  <2> QED
    BY <1>1, <1>2, <1>3, <2>1

(***************************************************************************)
(* Writes of a document.                                                   *)
(***************************************************************************)
CreateRequest(actor, content) ==
  [op |-> "data.record.create", actor |-> actor, content |-> content]
UpdateRequest(actor, id, expected, content) ==
  [op |-> "data.record.update", actor |-> actor, id |-> id,
   expected |-> expected, content |-> content]
DeleteRequest(actor, id, expected) ==
  [op |-> "data.record.delete", actor |-> actor, id |-> id, expected |-> expected]

\* The document that an update, a deletion and a creation make.
Rewritten(x, actor, content) ==
  [x EXCEPT !.version = @ + 1, !.title = content.title, !.board = content.board,
            !.updatedBy = actor]
Removed(x, actor) ==
  [x EXCEPT !.version = @ + 1, !.updatedBy = actor, !.deleted = TRUE]
Fresh(actor, content) ==
  [version |-> 1, title |-> content.title, board |-> content.board,
   createdBy |-> actor, updatedBy |-> actor, deleted |-> FALSE]

Replayed(d, key, request, o) ==
  /\ o.db = d
  /\ \E n \in d.ledger : n.key = key /\ n.request = request /\ o.result = n.result

\* The document id has been written, and nothing else, under key.
Wrote(d, key, request, id, o) ==
  LET e == o.db
  IN  /\ \A n \in d.ledger : n.key # key
      /\ Sound(e) /\ Keeps(d, e) /\ Binds(d, e, {key})
      /\ e.revisions = d.revisions
      /\ \A x \in Ids : x # id => e.docs[x] = d.docs[x]
      /\ o.result = View(e, id)
      /\ Entry(key, request, o.result) \in e.ledger

\* o writes the document id, which becomes new, with the entry of the request.
Writes(d, key, request, id, new, o) ==
  LET after == [d EXCEPT !.docs[id] = new]
  IN  /\ key \notin ArchivalKeys
      /\ \A n \in d.ledger : n.key # key
      /\ new \in Documents /\ ValidBoard(new.board)
      /\ d.docs[id] # Nil => d.docs[id].version < new.version
      /\ request.op \in {"data.record.update", "data.record.delete"} =>
           request.id = id /\ request.expected \in Nat /\ request.expected < new.version
      /\ o = Done([after EXCEPT !.ledger = @ \cup {Entry(key, request, View(after, id))}],
                  View(after, id))

LEMMA OneWritten ==
  ASSUME NEW d, NEW key, NEW request, NEW id \in Ids, NEW new, NEW o,
         Sound(d), Writes(d, key, request, id, new, o)
  PROVE  Wrote(d, key, request, id, o) /\ o.db.docs[id] = new
<1> DEFINE after == [d EXCEPT !.docs[id] = new]
           docs  == [d.docs EXCEPT ![id] = new]
           entry == Entry(key, request, View(after, id))
           e     == [docs |-> docs, revisions |-> d.revisions,
                     ledger |-> d.ledger \cup {entry}]
<1>0. /\ key \notin ArchivalKeys
      /\ \A n \in d.ledger : n.key # key
      /\ new \in Documents /\ ValidBoard(new.board)
      /\ d.docs[id] # Nil => d.docs[id].version < new.version
      /\ request.op \in {"data.record.update", "data.record.delete"} =>
           request.id = id /\ request.expected \in Nat /\ request.expected < new.version
  BY DEF Writes
<1>1. /\ Typed(d)
      /\ d = [docs |-> d.docs, revisions |-> d.revisions, ledger |-> d.ledger]
      /\ d.docs \in [Ids -> Documents \cup {Nil}]
  BY DEF Sound, Typed
<1>2. after = [docs |-> docs, revisions |-> d.revisions, ledger |-> d.ledger]
  BY <1>1
<1>3. o.result = View(after, id) /\ o.db = [after EXCEPT !.ledger = @ \cup {entry}]
  BY DEF Done, Writes
<1> HIDE DEF entry, docs, after
<1>4. o.db = e
  <2>1. [after EXCEPT !.ledger = @ \cup {entry}] = e
    BY ONLY <1>2, Entered
  <2> QED
    BY <1>3, <2>1
<1>5. /\ entry.key = key /\ entry.request = request /\ entry.result.id = id
      /\ entry.result = View(after, id)
  BY DEF entry, Entry, View
<1>6. /\ docs \in [Ids -> Documents \cup {Nil}] /\ docs[id] = new
      /\ \A x \in Ids : x # id => docs[x] = d.docs[x]
  BY <1>0, <1>1 DEF docs
<1>7. \A x \in Ids : docs[x] # Nil => ValidBoard(docs[x].board)
  BY <1>0, <1>1, <1>6 DEF Typed
<1>8. e.docs = docs /\ e.revisions = d.revisions /\ e.ledger = d.ledger \cup {entry}
  OBVIOUS
<1> HIDE DEF e
<1>9. new # Nil
  BY <1>0, DocumentsAssumption
<1>10. Advances(d, e)
  BY <1>0, <1>6, <1>8, <1>9 DEF Advances
<1>11. EntryDone(e, entry)
  BY <1>0, <1>5, <1>6, <1>8, <1>9 DEF EntryDone
<1>12. Sound(e) /\ Keeps(d, e) /\ Binds(d, e, {entry.key})
  BY <1>0, <1>5, <1>6, <1>7, <1>10, <1>11, WrittenSound DEF e
<1>13. View(e, id) = View(after, id)
  <2>1. after.docs = e.docs
    BY <1>2, <1>8
  <2> QED
    BY <2>1 DEF View
<1>14. entry = Entry(key, request, o.result)
  BY <1>3 DEF entry
<1> QED
  BY <1>0, <1>3, <1>4, <1>5, <1>6, <1>8, <1>12, <1>13, <1>14 DEF Wrote

LEMMA UpdateOk ==
  ASSUME NEW d, NEW key, NEW actor \in Actors, NEW id \in Ids,
         NEW expected \in Versions, NEW content,
         Sound(d), key \notin ArchivalKeys,
         content.title \in Titles, ValidBoard(content.board),
         RecordUpdate(d, key, actor, id, expected, content).ok
  PROVE  LET o == RecordUpdate(d, key, actor, id, expected, content)
             request == UpdateRequest(actor, id, expected, content)
         IN  \/ Replayed(d, key, request, o)
             \/ /\ Wrote(d, key, request, id, o)
                /\ Live(d, id)
                /\ d.docs[id].version = expected
                /\ o.db.docs[id] = Rewritten(d.docs[id], actor, content)
<1> DEFINE o == RecordUpdate(d, key, actor, id, expected, content)
           request == UpdateRequest(actor, id, expected, content)
           new == Rewritten(d.docs[id], actor, content)
           after == [d EXCEPT !.docs[id] = new]
           fresh == IF Live(d, id) /\ d.docs[id].version = expected /\ expected < MaxVersion
                      THEN Done(after, View(after, id)) ELSE Failed(d)
<1>1. o = Once(d, key, request, fresh)
  BY DEF RecordUpdate, UpdateRequest, Rewritten
<1>2. \/ \E n \in d.ledger : /\ n.key = key /\ n.request = request
                             /\ o = Done(d, n.result)
      \/ /\ \A n \in d.ledger : n.key # key
         /\ fresh.ok
         /\ o = Done([fresh.db EXCEPT !.ledger =
                        @ \cup {Entry(key, request, fresh.result)}], fresh.result)
  <2> HIDE DEF fresh, request
  <2> QED
    BY <1>1, OnceOk
<1>3. ASSUME NEW n \in d.ledger, n.key = key, n.request = request, o = Done(d, n.result)
      PROVE  Replayed(d, key, request, o)
  <2> HIDE DEF o, request
  <2> QED
    BY <1>3 DEF Replayed, Done
<1>4. CASE /\ \A n \in d.ledger : n.key # key
           /\ fresh.ok
           /\ o = Done([fresh.db EXCEPT !.ledger =
                          @ \cup {Entry(key, request, fresh.result)}], fresh.result)
  <2>1. Live(d, id) /\ d.docs[id].version = expected /\ expected < MaxVersion
    BY <1>4 DEF Failed
  <2>2. fresh.db = after /\ fresh.result = View(after, id)
    BY <2>1 DEF Done
  <2>3. d.docs[id] \in Documents
    BY <2>1 DEF Live, Sound, Typed
  <2>4. expected \in Nat /\ expected + 1 \in Versions
    BY <2>1, CanvasAssumption DEF Versions
  <2>5. content.board \in BoardValues
    BY DEF ValidBoard
  <2>6. new \in Documents /\ new.board = content.board /\ new.version = expected + 1
    BY <2>1, <2>3, <2>4, <2>5 DEF Documents, Rewritten
  <2>7. /\ request.op = "data.record.update" /\ request.id = id
        /\ request.expected = expected
    BY DEF UpdateRequest
  <2> HIDE DEF fresh, o, new, request
  <2>8. o = Done([after EXCEPT !.ledger = @ \cup {Entry(key, request, View(after, id))}],
                 View(after, id))
    BY <1>4, <2>2
  <2>9. /\ d.docs[id] # Nil => d.docs[id].version < new.version
        /\ request.op \in {"data.record.update", "data.record.delete"} =>
             request.id = id /\ request.expected \in Nat /\ request.expected < new.version
    BY <2>1, <2>4, <2>6, <2>7
  <2>10. Writes(d, key, request, id, new, o)
    BY <1>4, <2>6, <2>8, <2>9 DEF Writes
  <2>11. Wrote(d, key, request, id, o) /\ o.db.docs[id] = new
    BY <2>10, OneWritten
  <2> QED
    BY <2>1, <2>11 DEF o, new, request
<1> QED
  <2> HIDE DEF fresh
  <2> QED
    BY <1>2, <1>3, <1>4

\* An update that names the version a document has is not a replay: one that is
\* in the ledger has moved its document on.
LEMMA UpdateFresh ==
  ASSUME NEW d, NEW key, NEW actor \in Actors, NEW id \in Ids, NEW content,
         Sound(d), key \notin ArchivalKeys, Live(d, id),
         content.title \in Titles, ValidBoard(content.board),
         RecordUpdate(d, key, actor, id, d.docs[id].version, content).ok
  PROVE  LET o == RecordUpdate(d, key, actor, id, d.docs[id].version, content)
         IN  /\ Wrote(d, key, UpdateRequest(actor, id, d.docs[id].version, content), id, o)
             /\ o.db.docs[id] = Rewritten(d.docs[id], actor, content)
<1> DEFINE expected == d.docs[id].version
           o == RecordUpdate(d, key, actor, id, expected, content)
           request == UpdateRequest(actor, id, expected, content)
<1>1. d.docs[id] \in Documents /\ expected \in Versions
  BY DEF Live, Sound, Typed, Documents
<1>2. ~Replayed(d, key, request, o)
  <2> SUFFICES ASSUME NEW n \in d.ledger, n.key = key, n.request = request
               PROVE  FALSE
    BY DEF Replayed
  <2>1. EntryDone(d, n)
    BY DEF Sound, Archived, EntriesDone
  <2>2. n.request.op = "data.record.update" /\ n.request.id = id
        /\ n.request.expected = expected
    BY DEF UpdateRequest
  <2> QED
    BY <2>1, <2>2, <1>1 DEF EntryDone
<1>3. RecordUpdate(d, key, actor, id, expected, content).ok
  OBVIOUS
<1>4. /\ Wrote(d, key, request, id, o)
      /\ o.db.docs[id] = Rewritten(d.docs[id], actor, content)
  <2> HIDE DEF expected
  <2>1. \/ Replayed(d, key, request, o)
        \/ /\ Wrote(d, key, request, id, o)
           /\ Live(d, id)
           /\ d.docs[id].version = expected
           /\ o.db.docs[id] = Rewritten(d.docs[id], actor, content)
    BY <1>1, <1>3, UpdateOk
  <2> HIDE DEF o, request
  <2> QED
    BY <1>2, <2>1
<1> QED
  BY <1>4

LEMMA DeleteOk ==
  ASSUME NEW d, NEW key, NEW actor \in Actors, NEW id \in Ids,
         Sound(d), key \notin ArchivalKeys, Live(d, id),
         RecordDelete(d, key, actor, id, d.docs[id].version).ok
  PROVE  LET o == RecordDelete(d, key, actor, id, d.docs[id].version)
         IN  /\ Wrote(d, key, DeleteRequest(actor, id, d.docs[id].version), id, o)
             /\ o.db.docs[id] = Removed(d.docs[id], actor)
<1> DEFINE expected == d.docs[id].version
           o == RecordDelete(d, key, actor, id, expected)
           request == DeleteRequest(actor, id, expected)
           new == Removed(d.docs[id], actor)
           after == [d EXCEPT !.docs[id] = new]
           fresh == IF Live(d, id) /\ d.docs[id].version = expected /\ expected < MaxVersion
                      THEN Done(after, View(after, id)) ELSE Failed(d)
<1>1. d.docs[id] \in Documents /\ expected \in Versions
  BY DEF Live, Sound, Typed, Documents
<1>2. o = Once(d, key, request, fresh)
  BY DEF RecordDelete, DeleteRequest, Removed
<1>3. \/ \E n \in d.ledger : n.key = key /\ n.request = request
      \/ /\ \A n \in d.ledger : n.key # key
         /\ fresh.ok
         /\ o = Done([fresh.db EXCEPT !.ledger =
                        @ \cup {Entry(key, request, fresh.result)}], fresh.result)
  <2> HIDE DEF fresh, request
  <2> QED
    BY <1>2, OnceOk
<1>4. ASSUME NEW n \in d.ledger, n.key = key, n.request = request
      PROVE  FALSE
  <2>1. EntryDone(d, n)
    BY <1>4 DEF Sound, Archived, EntriesDone
  <2>2. n.request.op = "data.record.delete" /\ n.request.id = id
        /\ n.request.expected = expected
    BY <1>4 DEF DeleteRequest
  <2> QED
    BY <2>1, <2>2, <1>1 DEF EntryDone
<1>5. /\ \A n \in d.ledger : n.key # key
      /\ fresh.ok
      /\ o = Done([fresh.db EXCEPT !.ledger =
                     @ \cup {Entry(key, request, fresh.result)}], fresh.result)
  <2> HIDE DEF fresh, request
  <2> QED
    BY <1>3, <1>4
<1>6. expected < MaxVersion
  BY <1>5 DEF Failed
<1>7. fresh.db = after /\ fresh.result = View(after, id)
  BY <1>6 DEF Done
<1>8. expected \in Nat /\ expected + 1 \in Versions
  BY <1>1, <1>6, CanvasAssumption DEF Versions
<1>9. new \in Documents /\ new.board = d.docs[id].board /\ new.version = expected + 1
  BY <1>1, <1>8 DEF Documents, Removed
<1>10. ValidBoard(d.docs[id].board)
  BY DEF Live, Sound, Typed
<1>11. request.id = id /\ request.expected = expected
  BY DEF DeleteRequest
<1> HIDE DEF fresh, o, new, request
<1>12. o = Done([after EXCEPT !.ledger = @ \cup {Entry(key, request, View(after, id))}],
                View(after, id))
  BY <1>5, <1>7
<1>13. /\ d.docs[id] # Nil => d.docs[id].version < new.version
       /\ request.op \in {"data.record.update", "data.record.delete"} =>
            request.id = id /\ request.expected \in Nat /\ request.expected < new.version
  BY <1>8, <1>9, <1>11
<1>14. Writes(d, key, request, id, new, o)
  BY <1>5, <1>9, <1>10, <1>12, <1>13 DEF Writes
<1>15. Wrote(d, key, request, id, o) /\ o.db.docs[id] = new
  BY <1>14, OneWritten
<1> QED
  BY <1>15 DEF o, new, request

\* A document that is created, or that the key has created before.
LEMMA CreateOk ==
  ASSUME NEW d, NEW key, NEW actor \in Actors, NEW id \in Ids, NEW content,
         Sound(d), key \notin ArchivalKeys,
         content.title \in Titles, ValidBoard(content.board),
         RecordCreate(d, key, actor, content, id).ok
  PROVE  LET o == RecordCreate(d, key, actor, content, id)
             request == CreateRequest(actor, content)
         IN  \/ Replayed(d, key, request, o)
             \/ /\ Wrote(d, key, request, id, o)
                /\ d.docs[id] = Nil
                /\ o.db.docs[id] = Fresh(actor, content)
<1> DEFINE o == RecordCreate(d, key, actor, content, id)
           request == CreateRequest(actor, content)
           new == Fresh(actor, content)
           after == [d EXCEPT !.docs[id] = new]
           fresh == IF d.docs[id] = Nil THEN Done(after, View(after, id)) ELSE Failed(d)
<1>1. o = Once(d, key, request, fresh)
  BY DEF RecordCreate, CreateRequest, Fresh
<1>2. \/ \E n \in d.ledger : /\ n.key = key /\ n.request = request
                             /\ o = Done(d, n.result)
      \/ /\ \A n \in d.ledger : n.key # key
         /\ fresh.ok
         /\ o = Done([fresh.db EXCEPT !.ledger =
                        @ \cup {Entry(key, request, fresh.result)}], fresh.result)
  <2> HIDE DEF fresh, request
  <2> QED
    BY <1>1, OnceOk
<1>3. ASSUME NEW n \in d.ledger, n.key = key, n.request = request, o = Done(d, n.result)
      PROVE  Replayed(d, key, request, o)
  <2> HIDE DEF o, request
  <2> QED
    BY <1>3 DEF Replayed, Done
<1>4. CASE /\ \A n \in d.ledger : n.key # key
           /\ fresh.ok
           /\ o = Done([fresh.db EXCEPT !.ledger =
                          @ \cup {Entry(key, request, fresh.result)}], fresh.result)
  <2>1. d.docs[id] = Nil
    BY <1>4 DEF Failed
  <2>2. fresh.db = after /\ fresh.result = View(after, id)
    BY <2>1 DEF Done
  <2>3. content.board \in BoardValues
    BY DEF ValidBoard
  <2>4. new \in Documents /\ new.board = content.board
    BY <2>3, CanvasAssumption DEF Versions, Documents, Fresh
  <2>5. request.op = "data.record.create"
    BY DEF CreateRequest
  <2> HIDE DEF fresh, o, new, request
  <2>6. o = Done([after EXCEPT !.ledger = @ \cup {Entry(key, request, View(after, id))}],
                 View(after, id))
    BY <1>4, <2>2
  <2>7. ~(request.op \in {"data.record.update", "data.record.delete"})
    BY <2>5
  <2>8. Writes(d, key, request, id, new, o)
    BY <1>4, <2>1, <2>4, <2>6, <2>7 DEF Writes
  <2>9. Wrote(d, key, request, id, o) /\ o.db.docs[id] = new
    BY <2>8, OneWritten
  <2> QED
    BY <2>1, <2>9 DEF o, new, request
<1> QED
  <2> HIDE DEF fresh
  <2> QED
    BY <1>2, <1>3, <1>4

(***************************************************************************)
(* Several parts after one another.                                        *)
(***************************************************************************)
LEMMA SameDocuments ==
  ASSUME NEW d, NEW e, d.docs = e.docs
  PROVE  \A r : IsCurrent(d, r) <=> IsCurrent(e, r)
BY DEF IsCurrent, Live, View

LEMMA KeepsTransitive ==
  ASSUME NEW d, NEW e, NEW f, Typed(d), Typed(e), Typed(f), Keeps(d, e), Keeps(e, f)
  PROVE  Keeps(d, f)
<1>1. Len(d.revisions) \in Nat /\ Len(e.revisions) \in Nat /\ Len(f.revisions) \in Nat
  BY DEF Typed
<1>2. Advances(d, f)
  <2> SUFFICES ASSUME NEW x \in Ids, d.docs[x] # Nil, f.docs[x] # d.docs[x]
               PROVE  f.docs[x] # Nil /\ d.docs[x].version < f.docs[x].version
    BY DEF Advances
  <2>1. \A y \in {d.docs[x], e.docs[x], f.docs[x]} : y # Nil => y.version \in Nat
    BY CanvasAssumption DEF Typed, Documents, Versions
  <2>2. CASE e.docs[x] = d.docs[x]
    BY <2>2 DEF Keeps, Advances
  <2>3. CASE e.docs[x] # d.docs[x]
    <3>1. e.docs[x] # Nil /\ d.docs[x].version < e.docs[x].version
      BY <2>3 DEF Keeps, Advances
    <3>2. f.docs[x] # e.docs[x] =>
            f.docs[x] # Nil /\ e.docs[x].version < f.docs[x].version
      BY <3>1 DEF Keeps, Advances
    <3> QED
      BY <2>1, <3>1, <3>2
  <2> QED
    BY <2>2, <2>3
<1>3. \A i \in 1..Len(d.revisions) : i \in 1..Len(e.revisions)
  BY <1>1 DEF Keeps
<1> QED
  BY <1>1, <1>2, <1>3 DEF Keeps

LEMMA MatchingKept ==
  ASSUME NEW d, NEW e, NEW id, NEW v,
         Typed(d), Typed(e), Keeps(d, e), Matching(d, id, v) # {}
  PROVE  Matching(e, id, v) # {}
<1>1. PICK i \in 1..Len(d.revisions) :
        d.revisions[i].document.id = id /\ d.revisions[i].document.version = v
  BY DEF Matching
<1>2. i \in 1..Len(e.revisions) /\ e.revisions[i] = d.revisions[i]
  BY DEF Keeps, Typed
<1> QED
  BY <1>1, <1>2 DEF Matching

\* e is d with the document id changed at most, under the given keys.
Changed(d, e, keys, id) ==
  /\ Sound(e) /\ Keeps(d, e) /\ Binds(d, e, keys) /\ ArchivesCurrent(d, e)
  /\ \A x \in Ids : x # id => e.docs[x] = d.docs[x]

\* A part that archives, and then one that writes what it has archived.
LEMMA ArchivedThenWritten ==
  ASSUME NEW d, NEW b, NEW key, NEW request, NEW id \in Ids, NEW o,
         Sound(d), Sound(b), Keeps(d, b), Binds(d, b, {}), ArchivesCurrent(d, b),
         b.docs = d.docs, Wrote(b, key, request, id, o)
  PROVE  Changed(d, o.db, {key}, id)
<1> DEFINE e == o.db
<1>1. /\ Sound(e) /\ Keeps(b, e) /\ Binds(b, e, {key})
      /\ e.revisions = b.revisions
      /\ \A x \in Ids : x # id => e.docs[x] = b.docs[x]
  BY DEF Wrote
<1> HIDE DEF e
<1>2. Keeps(d, e)
  BY <1>1, KeepsTransitive DEF Sound
<1>3. Binds(d, e, {key})
  BY <1>1 DEF Binds
<1>4. ArchivesCurrent(d, e)
  BY <1>1, SameDocuments DEF ArchivesCurrent
<1> QED
  BY <1>1, <1>2, <1>3, <1>4 DEF Changed, e

\* A change, and then an archiving.
LEMMA ChangedThenArchived ==
  ASSUME NEW d, NEW b, NEW keys, NEW id \in Ids, NEW e,
         Sound(d), Changed(d, b, keys, id),
         Sound(e), Keeps(b, e), Binds(b, e, {}), ArchivesCurrent(b, e), e.docs = b.docs
  PROVE  Changed(d, e, keys, id)
<1>1. /\ Sound(b) /\ Keeps(d, b) /\ Binds(d, b, keys) /\ ArchivesCurrent(d, b)
      /\ \A x \in Ids : x # id => b.docs[x] = d.docs[x]
  BY DEF Changed
<1>2. Keeps(d, e)
  BY <1>1, KeepsTransitive DEF Sound
<1>3. Binds(d, e, keys)
  BY <1>1 DEF Binds
<1>4. ArchivesCurrent(d, e)
  <2> SUFFICES ASSUME NEW i \in 1..Len(e.revisions)
               PROVE  \/ \E j \in 1..Len(d.revisions) : e.revisions[i] = d.revisions[j]
                      \/ IsCurrent(d, e.revisions[i])
                      \/ IsCurrent(e, e.revisions[i])
    BY DEF ArchivesCurrent
  <2>1. IsCurrent(b, e.revisions[i]) <=> IsCurrent(e, e.revisions[i])
    BY SameDocuments
  <2>2. CASE \E j \in 1..Len(b.revisions) : e.revisions[i] = b.revisions[j]
    BY <2>1, <2>2, <1>1 DEF ArchivesCurrent
  <2>3. CASE IsCurrent(e, e.revisions[i])
    BY <2>3
  <2> QED
    BY <2>1, <2>2, <2>3 DEF ArchivesCurrent
<1> QED
  BY <1>1, <1>2, <1>3, <1>4 DEF Changed

\* o is the outcome of a patch: the version before and the one after it are in
\* the archive.
Patched(d, c, key, content, o) ==
  LET e == o.db
  IN  /\ Live(d, c.id) /\ d.docs[c.id].version = c.expected
      /\ Changed(d, e, {key}, c.id)
      /\ e.docs[c.id] = Rewritten(d.docs[c.id], c.actor, content)
      /\ o.result = View(e, c.id)
      /\ Matching(e, c.id, d.docs[c.id].version) # {}
      /\ Matching(e, c.id, e.docs[c.id].version) # {}

MayPatch(d, c, key, content) ==
  /\ Sound(d) /\ c.id \in Ids /\ c.actor \in Actors /\ key \notin ArchivalKeys
  /\ content.title \in Titles /\ ValidBoard(content.board)

LEMMA PatchOk ==
  ASSUME NEW d, NEW c, NEW key, NEW content,
         MayPatch(d, c, key, content), Patch(d, c, key, content).ok
  PROVE  Patched(d, c, key, content, Patch(d, c, key, content))
<1> DEFINE id     == c.id
           before == Archive(d, View(d, id))
           b      == before.db
           saved  == RecordUpdate(b, key, c.actor, id, c.expected, content)
           after  == Archive(saved.db, saved.result)
           e      == after.db
<1>0. /\ Sound(d) /\ id \in Ids /\ c.actor \in Actors /\ key \notin ArchivalKeys
      /\ content.title \in Titles /\ ValidBoard(content.board)
  BY DEF MayPatch
<1>1. /\ Live(d, id) /\ d.docs[id].version = c.expected
      /\ before.ok /\ saved.ok /\ after.ok
      /\ Patch(d, c, key, content) = Done(e, saved.result)
  BY DEF Patch, Failed
<1>2. View(d, id).id = id /\ View(d, id).version = d.docs[id].version
  BY DEF View
<1>3. /\ b.docs = d.docs
      /\ Sound(b) /\ Keeps(d, b) /\ Binds(d, b, {}) /\ ArchivesCurrent(d, b)
      /\ Matching(b, id, d.docs[id].version) # {}
  BY <1>0, <1>1, <1>2, ArchiveOk, SMTT(60)
<1> HIDE DEF b
<1>4. /\ Wrote(b, key, UpdateRequest(c.actor, id, c.expected, content), id, saved)
      /\ saved.db.docs[id] = Rewritten(d.docs[id], c.actor, content)
  <2>1. Live(b, id) /\ b.docs[id].version = c.expected /\ b.docs[id] = d.docs[id]
    BY <1>1, <1>3 DEF Live
  <2>2. RecordUpdate(b, key, c.actor, id, b.docs[id].version, content).ok
    BY <1>1, <2>1
  <2>3. LET o == RecordUpdate(b, key, c.actor, id, b.docs[id].version, content)
        IN  /\ Wrote(b, key, UpdateRequest(c.actor, id, b.docs[id].version, content), id, o)
            /\ o.db.docs[id] = Rewritten(b.docs[id], c.actor, content)
    BY <1>0, <1>3, <2>1, <2>2, UpdateFresh
  <2> QED
    BY <2>1, <2>3
<1> HIDE DEF saved
<1>5. /\ \A n \in b.ledger : n.key # key
      /\ Sound(saved.db) /\ Keeps(b, saved.db)
      /\ saved.result = View(saved.db, id)
      /\ Entry(key, UpdateRequest(c.actor, id, c.expected, content), saved.result)
           \in saved.db.ledger
  BY <1>4 DEF Wrote
<1>6. saved.result.id = id /\ saved.result.version = saved.db.docs[id].version
  BY <1>5 DEF View
<1>7. /\ e.docs = saved.db.docs
      /\ Sound(e) /\ Keeps(saved.db, e) /\ Binds(saved.db, e, {})
      /\ ArchivesCurrent(saved.db, e)
      /\ Matching(e, id, saved.db.docs[id].version) # {}
  BY <1>0, <1>1, <1>5, <1>6, ArchiveOk
<1> HIDE DEF e
<1>8. Changed(d, saved.db, {key}, id)
  BY <1>0, <1>3, <1>4, ArchivedThenWritten
<1>9. Changed(d, e, {key}, id)
  BY <1>0, <1>7, <1>8, ChangedThenArchived
<1>10. Matching(e, id, d.docs[id].version) # {}
  BY <1>0, <1>3, <1>5, <1>7, MatchingKept DEF Sound
<1>11. saved.result = View(e, id)
  BY <1>5, <1>7 DEF View
<1>12. Patch(d, c, key, content).db = e /\ Patch(d, c, key, content).result = saved.result
  BY <1>1 DEF Done
<1> QED
  BY <1>1, <1>4, <1>7, <1>9, <1>10, <1>11, <1>12 DEF Patched

(***************************************************************************)
(* Calls.                                                                  *)
(***************************************************************************)
LEMMA CallTyped ==
  ASSUME NEW c \in Calls
  PROVE  /\ c.key \in Keys /\ c.actor \in Actors
         /\ c.op \in {"create", "rename", "edit", "duplicate", "revert", "delete", "other"}
         /\ c.op # "create" => c.id \in Ids /\ c.expected \in Versions
         /\ c.op \in {"create", "rename", "duplicate", "other"} => c.title \in Titles
         /\ c.op = "edit" => c.edit \in Edits
         /\ c.op = "revert" => c.toVersion \in Versions
         /\ c.op = "other" => c.board \in Boards
BY DEF Calls

LEMMA EmptyBoardValid == ValidBoard(EmptyBoard)
<1>1. \A limit \in Nat : AtMost({}, limit)
  BY FS_EmptySet DEF AtMost
<1> QED
  BY <1>1, CanvasAssumption DEF EmptyBoard, ValidBoard, ValidEdges, ValidGroups,
                                BoardValues, EdgeIds, GroupIds

\* The record set of a document's version is typed.
LEMMA DocumentTyped ==
  ASSUME NEW d, NEW id \in Ids, Sound(d), d.docs[id] # Nil
  PROVE  /\ d.docs[id] \in Documents /\ d.docs[id].version \in Versions
         /\ d.docs[id].version \in Nat /\ d.docs[id].version >= 1
         /\ d.docs[id].title \in Titles /\ ValidBoard(d.docs[id].board)
         /\ d.docs[id].updatedBy \in Actors
BY DEF Sound, Typed, Documents, Versions

Bound(d, key, request, result) ==
  \E n \in d.ledger : n.key = key /\ n.request = request /\ n.result = result

\* What is answered under a key of its own, around the parts that do it.
\* What may be kept under key: fresh, which changes id under the other keys.
MayWrap(d, key, request, fresh, keys, id) ==
  /\ Sound(d) /\ key \notin ArchivalKeys /\ key \notin keys
  /\ request.op \notin {"data.record.update", "data.record.delete"}
  /\ fresh.ok => Changed(d, fresh.db, keys, id) /\ fresh.result.id \in Ids

Wrapped(d, key, request, fresh, keys, id, o) ==
  /\ fresh.ok
  /\ o.result = fresh.result
  /\ Changed(d, o.db, keys \cup {key}, id)
  /\ Keeps(fresh.db, o.db)
  /\ o.db.docs = fresh.db.docs /\ o.db.revisions = fresh.db.revisions
  /\ Bound(o.db, key, request, o.result)

LEMMA WrappedOk ==
  ASSUME NEW d, NEW key, NEW request, NEW fresh, NEW keys, NEW id \in Ids,
         MayWrap(d, key, request, fresh, keys, id),
         Once(d, key, request, fresh).ok
  PROVE  LET o == Once(d, key, request, fresh)
         IN  o.db = d \/ Wrapped(d, key, request, fresh, keys, id, o)
<1> DEFINE o == Once(d, key, request, fresh)
           b == fresh.db
           entry == Entry(key, request, fresh.result)
           e == [docs |-> b.docs, revisions |-> b.revisions,
                 ledger |-> b.ledger \cup {entry}]
<1>0. /\ Sound(d) /\ key \notin ArchivalKeys /\ key \notin keys
      /\ request.op \notin {"data.record.update", "data.record.delete"}
      /\ fresh.ok => Changed(d, fresh.db, keys, id) /\ fresh.result.id \in Ids
  BY DEF MayWrap
<1>1. CASE \E n \in d.ledger : n.key = key
  BY <1>1, OnceBound
<1>2. CASE ~\E n \in d.ledger : n.key = key
  <2>1. /\ fresh.ok
        /\ o = Done([b EXCEPT !.ledger = @ \cup {entry}], fresh.result)
    BY <1>2, OnceOk
  <2>2. /\ Changed(d, b, keys, id) /\ fresh.result.id \in Ids
    BY <1>0, <2>1
  <2> HIDE DEF b
  <2>3. /\ Sound(b) /\ Keeps(d, b) /\ Binds(d, b, keys) /\ ArchivesCurrent(d, b)
        /\ \A x \in Ids : x # id => b.docs[x] = d.docs[x]
        /\ b = [docs |-> b.docs, revisions |-> b.revisions, ledger |-> b.ledger]
        /\ Typed(d) /\ Typed(b)
    BY <1>0, <2>2 DEF Changed, Sound, Typed
  <2>4. entry.key = key /\ entry.request = request /\ entry.result = fresh.result
    BY DEF Entry
  <2> HIDE DEF entry
  <2>5. [b EXCEPT !.ledger = @ \cup {entry}] = e
    BY <2>3, Entered
  <2>6. o.db = e /\ o.result = fresh.result
    BY <2>1, <2>5 DEF Done
  <2>7. e.docs = b.docs /\ e.revisions = b.revisions /\ e.ledger = b.ledger \cup {entry}
    OBVIOUS
  <2>8. Sound(e) /\ Keeps(b, e) /\ Binds(b, e, {key})
    <3>1. \A n \in b.ledger : n.key # entry.key
      BY <1>0, <1>2, <2>3, <2>4 DEF Binds
    <3>2. Advances(b, e) /\ EntryDone(e, entry)
      BY <1>0, <2>2, <2>4, <2>7 DEF Advances, EntryDone
    <3>3. /\ b.docs \in [Ids -> Documents \cup {Nil}]
          /\ \A x \in Ids : b.docs[x] # Nil => ValidBoard(b.docs[x].board)
      BY <2>3 DEF Typed
    <3> QED
      BY <1>0, <2>3, <2>4, <3>1, <3>2, <3>3, WrittenSound
  <2> HIDE DEF e
  <2>9. Keeps(d, e)
    BY <1>0, <2>3, <2>8, KeepsTransitive DEF Sound
  <2>10. Binds(d, e, keys \cup {key})
    BY <2>3, <2>4, <2>7 DEF Binds
  <2>11. ArchivesCurrent(d, e)
    BY <2>3, <2>7, SameDocuments DEF ArchivesCurrent
  <2>12. Changed(d, e, keys \cup {key}, id)
    BY <2>3, <2>7, <2>8, <2>9, <2>10, <2>11 DEF Changed
  <2>13. Bound(e, key, request, fresh.result)
    BY <2>4, <2>7 DEF Bound
  <2> QED
    BY <2>1, <2>6, <2>7, <2>8, <2>12, <2>13 DEF b, Wrapped
<1> QED
  BY <1>1, <1>2

\* How a retry of the call c is recognised, once it has been answered result.
Answered(d, c, result) ==
  /\ c.op = "create" =>
       /\ Bound(d, c.key, CreateRequest(c.actor, Content(c.title, EmptyBoard)), result)
       /\ result.id \in Ids /\ d.docs[result.id] # Nil
       /\ \E n \in d.ledger : n.key = ArchivalKey(result.id, result.version)
  /\ c.op \in {"rename", "delete"} =>
       d.docs[c.id] # Nil /\ c.expected < d.docs[c.id].version
  /\ c.op = "edit" => Bound(d, IntentKey(c.key), c, result)
  /\ c.op \in {"duplicate", "revert"} => Bound(d, c.key, c, result)
  /\ c.op = "other" =>
       Bound(d, c.key, UpdateRequest(c.actor, c.id, c.expected, Content(c.title, c.board)),
             result)

CallKeys(c) == {c.key, IntentKey(c.key), CopyKey(c.key), RevertKey(c.key)}

\* What the call c has done, answering o, if it has changed the database d: it
\* has written the document id, archived it as it was and as it is, and can be
\* recognised.
Effect(d, c, id, o) ==
  LET e == o.db
  IN  /\ Changed(d, e, CallKeys(c), id)
      /\ e.docs[id] # d.docs[id] =>
           /\ e.docs[id] # Nil
           /\ d.docs[id] # Nil => e.docs[id].version = d.docs[id].version + 1
           /\ c.op \notin {"other", "delete"} =>
                Matching(e, id, e.docs[id].version) # {}
           /\ c.op # "other" /\ d.docs[id] # Nil =>
                Matching(e, id, d.docs[id].version) # {}
      /\ Answered(e, c, o.result)

LEMMA ChangedMore ==
  ASSUME NEW d, NEW e, NEW keys, NEW more, NEW id, Changed(d, e, keys, id),
         keys \subseteq more
  PROVE  Changed(d, e, more, id)
BY DEF Changed, Binds

LEMMA RewrittenVersion ==
  ASSUME NEW d, NEW id \in Ids, NEW actor, NEW content, Sound(d), d.docs[id] # Nil
  PROVE  /\ Rewritten(d.docs[id], actor, content).version = d.docs[id].version + 1
         /\ Removed(d.docs[id], actor).version = d.docs[id].version + 1
         /\ Rewritten(d.docs[id], actor, content).title = content.title
         /\ Rewritten(d.docs[id], actor, content).board = content.board
         /\ Rewritten(d.docs[id], actor, content).deleted = d.docs[id].deleted
BY DEF Rewritten, Removed, Sound, Typed, Documents

LEMMA ChangedDocument ==
  ASSUME NEW d, NEW e, NEW keys, NEW id \in Ids, Changed(d, e, keys, id),
         d.docs[id] # Nil
  PROVE  e.docs[id] # Nil
BY DEF Changed, Keeps, Advances

\* The request has created the document id, or had been answered before.
Created(d, key, request, id, e, result) ==
  /\ Changed(d, e, {key}, id)
  /\ result.id \in Ids /\ e.docs[result.id] # Nil
  /\ e.docs[id] # d.docs[id] =>
       /\ d.docs[id] = Nil /\ e.docs[id] # Nil
       /\ Matching(e, id, e.docs[id].version) # {}
  /\ Bound(e, key, request, result)
  /\ \E n \in e.ledger : n.key = ArchivalKey(result.id, result.version)

LEMMA CreatedAndArchived ==
  ASSUME NEW d, NEW key, NEW actor \in Actors, NEW content, NEW id \in Ids,
         Sound(d), key \notin ArchivalKeys,
         content.title \in Titles, ValidBoard(content.board),
         RecordCreate(d, key, actor, content, id).ok,
         Archive(RecordCreate(d, key, actor, content, id).db,
                 RecordCreate(d, key, actor, content, id).result).ok
  PROVE  LET saved == RecordCreate(d, key, actor, content, id)
             e     == Archive(saved.db, saved.result).db
         IN  Created(d, key, CreateRequest(actor, content), id, e, saved.result)
<1> DEFINE saved == RecordCreate(d, key, actor, content, id)
           b     == saved.db
           request == CreateRequest(actor, content)
           e     == Archive(b, saved.result).db
<1>1. \/ Replayed(d, key, request, saved)
      \/ Wrote(d, key, request, id, saved) /\ d.docs[id] = Nil
  BY CreateOk
<1> HIDE DEF saved, request
<1>2. /\ Changed(d, b, {key}, id) /\ saved.result.id \in Ids
      /\ Bound(b, key, request, saved.result)
      /\ b.docs[id] # d.docs[id] =>
           d.docs[id] = Nil /\ saved.result = View(b, id)
  <2>1. CASE Replayed(d, key, request, saved)
    <3>1. b = d /\ Bound(d, key, request, saved.result)
      BY <2>1 DEF Replayed, Bound
    <3>2. Changed(d, d, {}, id)
      BY KeepsSame DEF Changed, Sound
    <3>3. Changed(d, d, {key}, id)
      BY <3>2, ChangedMore
    <3>4. saved.result.id \in Ids
      BY <2>1 DEF Replayed, Sound, Archived, EntriesDone, EntryDone
    <3> QED
      BY <3>1, <3>3, <3>4
  <2>2. CASE Wrote(d, key, request, id, saved) /\ d.docs[id] = Nil
    <3>1. Changed(d, b, {key}, id)
      BY <2>2, KeepsSame, ArchivedThenWritten DEF Sound
    <3>2. Bound(b, key, request, saved.result)
      BY <2>2 DEF Wrote, Entry, Bound
    <3>3. saved.result = View(b, id) /\ saved.result.id = id
      BY <2>2 DEF Wrote, View
    <3> QED
      BY <2>2, <3>1, <3>2, <3>3
  <2> QED
    BY <1>1, <2>1, <2>2
<1>3. /\ e.docs = b.docs /\ View(b, saved.result.id) = saved.result
      /\ Live(b, saved.result.id)
      /\ Sound(e) /\ Keeps(b, e) /\ Binds(b, e, {}) /\ ArchivesCurrent(b, e)
      /\ Matching(e, saved.result.id, saved.result.version) # {}
      /\ \E n \in e.ledger : n.key = ArchivalKey(saved.result.id, saved.result.version)
  <2>1. Sound(b) /\ Archive(b, saved.result).ok
    BY <1>2 DEF Changed, saved
  <2> HIDE DEF b
  <2> QED
    BY <1>2, <2>1, ArchiveOk
<1> HIDE DEF b, e
<1>4. Changed(d, e, {key}, id)
  BY <1>2, <1>3, ChangedThenArchived
<1>5. Bound(e, key, request, saved.result)
  BY <1>2, <1>3 DEF Bound, Keeps
<1>6. ASSUME e.docs[id] # d.docs[id]
      PROVE  /\ d.docs[id] = Nil /\ e.docs[id] # Nil
             /\ Matching(e, id, e.docs[id].version) # {}
  <2>1. d.docs[id] = Nil /\ saved.result = View(b, id)
    BY <1>2, <1>3, <1>6
  <2>2. saved.result.id = id /\ saved.result.version = b.docs[id].version
    BY <2>1 DEF View
  <2> QED
    BY <1>3, <2>1, <2>2 DEF Live
<1> QED
  <2>1. Created(d, key, request, id, e, saved.result)
    BY <1>2, <1>3, <1>4, <1>5, <1>6 DEF Created, Live
  <2> QED
    BY <2>1 DEF saved, b, e, request

LEMMA CreateEffect ==
  ASSUME NEW d, NEW c \in Calls, NEW new \in Ids, Sound(d), c.op = "create",
         Create(d, c, new).ok
  PROVE  Effect(d, c, new, Create(d, c, new))
<1> DEFINE content == Content(c.title, EmptyBoard)
           saved   == RecordCreate(d, c.key, c.actor, content, new)
           e       == Archive(saved.db, saved.result).db
<1>1. /\ saved.ok /\ Archive(saved.db, saved.result).ok
      /\ Create(d, c, new) = Done(e, saved.result)
  BY DEF Create, Failed
<1>2. /\ c.key \notin ArchivalKeys /\ c.actor \in Actors
      /\ content.title \in Titles /\ ValidBoard(content.board)
  BY CallTyped, CallerKeys, EmptyBoardValid DEF Content
<1>3. /\ Changed(d, e, {c.key}, new)
      /\ saved.result.id \in Ids /\ e.docs[saved.result.id] # Nil
      /\ e.docs[new] # d.docs[new] =>
           /\ d.docs[new] = Nil /\ e.docs[new] # Nil
           /\ Matching(e, new, e.docs[new].version) # {}
      /\ Bound(e, c.key, CreateRequest(c.actor, content), saved.result)
      /\ \E n \in e.ledger : n.key = ArchivalKey(saved.result.id, saved.result.version)
  <2> HIDE DEF content
  <2>1. Created(d, c.key, CreateRequest(c.actor, content), new, e, saved.result)
    BY <1>1, <1>2, CreatedAndArchived
  <2> HIDE DEF e, saved
  <2> QED
    BY <2>1 DEF Created
<1> HIDE DEF saved, e
<1>4. Create(d, c, new).db = e /\ Create(d, c, new).result = saved.result
  BY <1>1 DEF Done
<1>5. Changed(d, e, CallKeys(c), new)
  BY <1>3, ChangedMore DEF CallKeys
<1>6. Answered(e, c, saved.result)
  BY <1>3 DEF Answered
<1> QED
  BY <1>3, <1>4, <1>5, <1>6 DEF Effect

\* What a patch does, whatever it is for.
Moved(d, c, key, o) ==
  /\ Changed(d, o.db, {key}, c.id)
  /\ o.db.docs[c.id] # Nil /\ d.docs[c.id] # Nil
  /\ d.docs[c.id].version = c.expected
  /\ o.db.docs[c.id].version = d.docs[c.id].version + 1
  /\ Matching(o.db, c.id, o.db.docs[c.id].version) # {}
  /\ Matching(o.db, c.id, d.docs[c.id].version) # {}
  /\ o.result.id \in Ids

LEMMA PatchEffect ==
  ASSUME NEW d, NEW c, NEW key, NEW content, NEW o,
         MayPatch(d, c, key, content), Patched(d, c, key, content, o)
  PROVE  Moved(d, c, key, o)
<1> DEFINE e == o.db
<1>1. /\ Live(d, c.id) /\ d.docs[c.id].version = c.expected
      /\ Changed(d, e, {key}, c.id)
      /\ e.docs[c.id] = Rewritten(d.docs[c.id], c.actor, content)
      /\ o.result = View(e, c.id)
      /\ Matching(e, c.id, d.docs[c.id].version) # {}
      /\ Matching(e, c.id, e.docs[c.id].version) # {}
      /\ Sound(d) /\ c.id \in Ids
  BY DEF Patched, MayPatch
<1>2. d.docs[c.id] # Nil /\ o.result.id \in Ids
  BY <1>1 DEF Live, View
<1>3. e.docs[c.id] # Nil
  BY <1>1, <1>2, ChangedDocument
<1>4. e.docs[c.id].version = d.docs[c.id].version + 1
  <2>1. Rewritten(d.docs[c.id], c.actor, content).version = d.docs[c.id].version + 1
    BY <1>1, <1>2 DEF Rewritten, Sound, Typed, Documents
  <2> QED
    BY <1>1, <2>1
<1> QED
  BY <1>1, <1>2, <1>3, <1>4 DEF Moved

LEMMA RenameEffect ==
  ASSUME NEW d, NEW c \in Calls, Sound(d), c.op = "rename", Rename(d, c).ok
  PROVE  Effect(d, c, c.id, Rename(d, c))
<1> DEFINE content == Content(c.title, d.docs[c.id].board)
           o == Patch(d, c, c.key, content)
           e == o.db
<1>1. Live(d, c.id) /\ Rename(d, c) = o
  BY DEF Rename, Failed
<1>2. /\ c.id \in Ids /\ c.actor \in Actors /\ c.key \notin ArchivalKeys
      /\ content.title \in Titles /\ ValidBoard(content.board)
  BY <1>1, CallTyped, CallerKeys, DocumentTyped DEF Content, Live
<1>3. /\ Changed(d, e, {c.key}, c.id)
      /\ e.docs[c.id] # Nil /\ d.docs[c.id] # Nil
      /\ d.docs[c.id].version = c.expected
      /\ e.docs[c.id].version = d.docs[c.id].version + 1
      /\ Matching(e, c.id, e.docs[c.id].version) # {}
      /\ Matching(e, c.id, d.docs[c.id].version) # {}
  <2> HIDE DEF content
  <2>1. MayPatch(d, c, c.key, content)
    BY <1>2 DEF MayPatch
  <2>2. Patched(d, c, c.key, content, o)
    BY <1>1, <2>1, PatchOk
  <2> HIDE DEF o
  <2>3. Moved(d, c, c.key, o)
    BY <2>1, <2>2, PatchEffect
  <2> QED
    BY <2>3 DEF Moved
<1> HIDE DEF o
<1>4. Changed(d, e, CallKeys(c), c.id)
  BY <1>3, ChangedMore DEF CallKeys
<1>5. c.expected < e.docs[c.id].version
  BY <1>2, <1>3, DocumentTyped
<1>6. Answered(e, c, o.result)
  BY <1>3, <1>5 DEF Answered
<1> QED
  BY <1>1, <1>3, <1>4, <1>6 DEF Effect

\* An edit that is made makes a change of its own; its answer is kept under the
\* key of its intent.
LEMMA EditEffect ==
  ASSUME NEW d, NEW c \in Calls, Sound(d), c.op = "edit", Edit(d, c).ok
  PROVE  Edit(d, c).db = d \/ Effect(d, c, c.id, Edit(d, c))
<1> DEFINE content == Content(d.docs[c.id].title, Edited(d.docs[c.id].board, c.edit))
           key == IntentKey(c.key)
           fresh == EditOnce(d, c)
           b == fresh.db
           o == Edit(d, c)
<1>1. o = Once(d, key, c, fresh)
  BY DEF Edit
<1>2. /\ c.id \in Ids /\ c.actor \in Actors /\ c.key \notin ArchivalKeys
      /\ key \notin ArchivalKeys /\ key # c.key
  BY CallTyped, CallerKeys, KeysApart
<1>3. ASSUME fresh.ok
      PROVE  /\ Changed(d, b, {c.key}, c.id) /\ fresh.result.id \in Ids
             /\ b.docs[c.id] # Nil /\ d.docs[c.id] # Nil
             /\ b.docs[c.id].version = d.docs[c.id].version + 1
             /\ Matching(b, c.id, b.docs[c.id].version) # {}
             /\ Matching(b, c.id, d.docs[c.id].version) # {}
  <2>1. /\ Live(d, c.id) /\ ValidBoard(Edited(d.docs[c.id].board, c.edit))
        /\ fresh = Patch(d, c, c.key, content)
    BY <1>3 DEF EditOnce, Failed
  <2>2. content.title \in Titles /\ ValidBoard(content.board)
    BY <1>2, <2>1, DocumentTyped DEF Content, Live
  <2> HIDE DEF content, fresh
  <2>3. MayPatch(d, c, c.key, content)
    BY <1>2, <2>2 DEF MayPatch
  <2>4. Patched(d, c, c.key, content, fresh)
    BY <1>3, <2>1, <2>3, PatchOk
  <2>5. Moved(d, c, c.key, fresh)
    BY <2>3, <2>4, PatchEffect
  <2> QED
    BY <2>5 DEF Moved
<1> HIDE DEF fresh, o, key
<1>4. \/ o.db = d
      \/ /\ fresh.ok
         /\ o.result = fresh.result
         /\ Changed(d, o.db, {c.key} \cup {key}, c.id)
         /\ Keeps(b, o.db)
         /\ o.db.docs = b.docs /\ o.db.revisions = b.revisions
         /\ Bound(o.db, key, c, o.result)
  <2>1. Once(d, key, c, fresh).ok
    BY <1>1 DEF o
  <2>2. c.op \notin {"data.record.update", "data.record.delete"} /\ key \notin {c.key}
    BY <1>2
  <2>3. MayWrap(d, key, c, fresh, {c.key}, c.id)
    BY <1>2, <1>3, <2>2 DEF MayWrap
  <2>4. o.db = d \/ Wrapped(d, key, c, fresh, {c.key}, c.id, o)
    BY <1>1, <1>2, <2>1, <2>3, WrappedOk
  <2> QED
    BY <2>4 DEF Wrapped
<1>5. CASE o.db # d
  <2>1. Changed(d, o.db, CallKeys(c), c.id)
    BY <1>4, <1>5, ChangedMore DEF CallKeys, key
  <2>2. \A v : Matching(o.db, c.id, v) = Matching(b, c.id, v)
    BY <1>4, <1>5 DEF Matching
  <2>3. Answered(o.db, c, o.result)
    BY <1>4, <1>5 DEF Answered, key
  <2> QED
    BY <1>3, <1>4, <1>5, <2>1, <2>2, <2>3 DEF Effect, o
<1> QED
  BY <1>5 DEF o

LEMMA DuplicateEffect ==
  ASSUME NEW d, NEW c \in Calls, NEW new \in Ids, Sound(d), c.op = "duplicate",
         Duplicate(d, c, new).ok
  PROVE  Duplicate(d, c, new).db = d \/ Effect(d, c, new, Duplicate(d, c, new))
<1> DEFINE content == Content(c.title, d.docs[c.id].board)
           copy    == CopyKey(c.key)
           copied  == RecordCreate(d, copy, c.actor, content, new)
           archived == Archive(copied.db, copied.result)
           b       == archived.db
           fresh   == IF /\ Live(d, c.id)
                         /\ d.docs[c.id].version = c.expected
                         /\ copied.ok
                         /\ archived.ok
                      THEN Done(b, copied.result) ELSE Failed(d)
           o       == Duplicate(d, c, new)
<1>1. o = Once(d, c.key, c, fresh)
  BY DEF Duplicate
<1>2. /\ c.id \in Ids /\ c.actor \in Actors /\ c.title \in Titles
      /\ c.key \notin ArchivalKeys /\ copy \notin ArchivalKeys /\ copy # c.key
  BY CallTyped, CallerKeys, KeysApart
<1>3. ASSUME fresh.ok
      PROVE  /\ fresh.db = b /\ fresh.result = copied.result
             /\ Created(d, copy, CreateRequest(c.actor, content), new, b, copied.result)
  <2>1. Live(d, c.id) /\ copied.ok /\ archived.ok
    BY <1>3 DEF Failed
  <2>2. fresh = Done(b, copied.result)
    BY <1>3 DEF Failed
  <2>3. content.title \in Titles /\ ValidBoard(content.board)
    BY <1>2, <2>1, DocumentTyped DEF Content, Live
  <2>4. fresh.db = b /\ fresh.result = copied.result
    BY <2>2, SMTT(60) DEF Done
  <2> HIDE DEF content, copy, fresh
  <2>5. Created(d, copy, CreateRequest(c.actor, content), new, b, copied.result)
    BY <1>2, <2>1, <2>3, CreatedAndArchived
  <2> QED
    BY <2>4, <2>5
<1> HIDE DEF fresh, o, copied, copy
<1>4. o.db = d \/ Wrapped(d, c.key, c, fresh, {copy}, new, o)
  <2>1. MayWrap(d, c.key, c, fresh, {copy}, new)
    BY <1>2, <1>3 DEF MayWrap, Created
  <2>2. Once(d, c.key, c, fresh).ok
    BY <1>1 DEF o
  <2> QED
    BY <1>1, <2>1, <2>2, WrappedOk
<1> HIDE DEF b
<1>5. CASE Wrapped(d, c.key, c, fresh, {copy}, new, o)
  <2>1. /\ fresh.ok /\ fresh.db = b
        /\ Changed(d, o.db, {copy} \cup {c.key}, new)
        /\ o.db.docs = b.docs /\ o.db.revisions = b.revisions
        /\ Bound(o.db, c.key, c, o.result)
    BY <1>3, <1>5 DEF Wrapped
  <2>2. Changed(d, o.db, CallKeys(c), new)
    BY <2>1, ChangedMore DEF CallKeys, copy
  <2>3. \A id, v : Matching(o.db, id, v) = Matching(b, id, v)
    BY <2>1 DEF Matching
  <2>4. o.db.docs[new] # d.docs[new] =>
          /\ d.docs[new] = Nil /\ o.db.docs[new] # Nil
          /\ Matching(o.db, new, o.db.docs[new].version) # {}
    BY <1>3, <2>1, <2>3 DEF Created
  <2>5. Answered(o.db, c, o.result)
    BY <2>1 DEF Answered
  <2> QED
    BY <2>2, <2>4, <2>5 DEF Effect, o
<1> QED
  BY <1>4, <1>5 DEF o

LEMMA RevertEffect ==
  ASSUME NEW d, NEW c \in Calls, Sound(d), c.op = "revert", Revert(d, c).ok
  PROVE  Revert(d, c).db = d \/ Effect(d, c, c.id, Revert(d, c))
<1> DEFINE i       == CHOOSE j \in Matching(d, c.id, c.toVersion) : TRUE
           source  == d.revisions[i].document
           content == Content(source.title, source.board)
           key     == RevertKey(c.key)
           saved   == Patch(d, c, key, content)
           fresh   == IF Live(d, c.id) /\ Revertible(d, c) THEN saved ELSE Failed(d)
           b       == fresh.db
           o       == Revert(d, c)
<1>1. o = Once(d, c.key, c, fresh)
  BY DEF Revert
<1>2. /\ c.id \in Ids /\ c.actor \in Actors
      /\ c.key \notin ArchivalKeys /\ key \notin ArchivalKeys /\ key # c.key
  BY CallTyped, CallerKeys, KeysApart
<1>3. ASSUME fresh.ok
      PROVE  Moved(d, c, key, fresh)
  <2>1. fresh = saved /\ Revertible(d, c)
    BY <1>3 DEF Failed
  <2>2. Matching(d, c.id, c.toVersion) # {}
    BY <2>1, FS_EmptySet DEF Revertible
  <2>3. i \in 1..Len(d.revisions)
    BY <2>2 DEF Matching
  <2>4. d.revisions[i] \in Revisions /\ ValidBoard(source.board)
    BY <2>3 DEF Sound, Typed
  <2>5. content.title \in Titles /\ ValidBoard(content.board)
    BY <2>4 DEF Content, Revisions, Snapshots
  <2> HIDE DEF content, fresh, key
  <2>6. MayPatch(d, c, key, content)
    BY <1>2, <2>5 DEF MayPatch
  <2>7. Patched(d, c, key, content, fresh)
    BY <1>3, <2>1, <2>6, PatchOk
  <2> QED
    BY <2>6, <2>7, PatchEffect
<1> HIDE DEF fresh, o, key
<1>4. o.db = d \/ Wrapped(d, c.key, c, fresh, {key}, c.id, o)
  <2>1. MayWrap(d, c.key, c, fresh, {key}, c.id)
    BY <1>2, <1>3 DEF MayWrap, Moved
  <2>2. Once(d, c.key, c, fresh).ok
    BY <1>1 DEF o
  <2> QED
    BY <1>1, <1>2, <2>1, <2>2, WrappedOk
<1>5. CASE Wrapped(d, c.key, c, fresh, {key}, c.id, o)
  <2>1. /\ Moved(d, c, key, fresh)
        /\ Changed(d, o.db, {key} \cup {c.key}, c.id)
        /\ o.db.docs = b.docs /\ o.db.revisions = b.revisions
        /\ Bound(o.db, c.key, c, o.result)
    BY <1>3, <1>5 DEF Wrapped
  <2>2. Changed(d, o.db, CallKeys(c), c.id)
    BY <2>1, ChangedMore DEF CallKeys, key
  <2>3. \A v : Matching(o.db, c.id, v) = Matching(b, c.id, v)
    BY <2>1 DEF Matching
  <2>4. Answered(o.db, c, o.result)
    BY <2>1 DEF Answered
  <2> QED
    BY <2>1, <2>2, <2>3, <2>4 DEF Effect, Moved, o
<1> QED
  BY <1>4, <1>5 DEF o

LEMMA DeleteEffect ==
  ASSUME NEW d, NEW c \in Calls, Sound(d), c.op = "delete", Delete(d, c).ok
  PROVE  Effect(d, c, c.id, Delete(d, c))
<1> DEFINE id     == c.id
           before == Archive(d, View(d, id))
           b      == before.db
           o      == RecordDelete(b, c.key, c.actor, id, c.expected)
           e      == o.db
<1>1. /\ Live(d, id) /\ d.docs[id].version = c.expected /\ before.ok
      /\ Delete(d, c) = o
  BY DEF Delete, Failed
<1>2. id \in Ids /\ c.actor \in Actors /\ c.key \notin ArchivalKeys
  BY CallTyped, CallerKeys
<1>3. View(d, id).id = id /\ View(d, id).version = d.docs[id].version
  BY DEF View
<1>4. /\ b.docs = d.docs
      /\ Sound(b) /\ Keeps(d, b) /\ Binds(d, b, {}) /\ ArchivesCurrent(d, b)
      /\ Matching(b, id, d.docs[id].version) # {}
  BY <1>1, <1>2, <1>3, ArchiveOk
<1> HIDE DEF b
<1>5. /\ Wrote(b, c.key, DeleteRequest(c.actor, id, c.expected), id, o)
      /\ e.docs[id] = Removed(d.docs[id], c.actor)
  <2>1. Live(b, id) /\ b.docs[id].version = c.expected /\ b.docs[id] = d.docs[id]
    BY <1>1, <1>4 DEF Live
  <2>2. RecordDelete(b, c.key, c.actor, id, b.docs[id].version).ok
    BY <1>1, <2>1
  <2>3. LET x == RecordDelete(b, c.key, c.actor, id, b.docs[id].version)
        IN  /\ Wrote(b, c.key, DeleteRequest(c.actor, id, b.docs[id].version), id, x)
            /\ x.db.docs[id] = Removed(b.docs[id], c.actor)
    BY <1>2, <1>4, <2>1, <2>2, DeleteOk
  <2> QED
    BY <2>1, <2>3
<1> HIDE DEF o
<1>6. Changed(d, e, {c.key}, id)
  BY <1>2, <1>4, <1>5, ArchivedThenWritten
<1>7. Changed(d, e, CallKeys(c), id)
  BY <1>6, ChangedMore DEF CallKeys
<1>8. e.docs[id] # Nil
  BY <1>1, <1>2, <1>6, ChangedDocument DEF Live
<1>9. d.docs[id].version \in Nat /\ e.docs[id].version = d.docs[id].version + 1
  <2>1. Removed(d.docs[id], c.actor).version = d.docs[id].version + 1
    BY <1>1, <1>2 DEF Removed, Sound, Typed, Documents, Live
  <2> QED
    BY <1>1, <1>2, <1>5, <2>1, DocumentTyped DEF Live
<1>10. Matching(e, id, d.docs[id].version) # {}
  BY <1>4, <1>5 DEF Wrote, Matching
<1>11. Answered(e, c, o.result)
  BY <1>1, <1>8, <1>9 DEF Answered
<1> QED
  BY <1>1, <1>7, <1>8, <1>9, <1>10, <1>11 DEF Effect

LEMMA OtherEffect ==
  ASSUME NEW d, NEW c \in Calls, Sound(d), c.op = "other", Other(d, c).ok
  PROVE  Other(d, c).db = d \/ Effect(d, c, c.id, Other(d, c))
<1> DEFINE id      == c.id
           content == Content(c.title, c.board)
           request == UpdateRequest(c.actor, id, c.expected, content)
           o       == RecordUpdate(d, c.key, c.actor, id, c.expected, content)
           e       == o.db
<1>1. Other(d, c) = o
  BY DEF Other
<1>2. /\ id \in Ids /\ c.actor \in Actors /\ c.key \notin ArchivalKeys
      /\ c.expected \in Versions
      /\ content.title \in Titles /\ ValidBoard(content.board)
  BY CallTyped, CallerKeys, BoardsAssumption DEF Content
<1>3. \/ Replayed(d, c.key, request, o)
      \/ /\ Wrote(d, c.key, request, id, o)
         /\ Live(d, id)
         /\ d.docs[id].version = c.expected
         /\ e.docs[id] = Rewritten(d.docs[id], c.actor, content)
  <2> HIDE DEF content
  <2> QED
    BY <1>1, <1>2, UpdateOk
<1> HIDE DEF o
<1>4. CASE Replayed(d, c.key, request, o)
  BY <1>1, <1>4 DEF Replayed
<1>5. CASE /\ Wrote(d, c.key, request, id, o)
           /\ Live(d, id)
           /\ e.docs[id] = Rewritten(d.docs[id], c.actor, content)
  <2>1. Changed(d, e, {c.key}, id)
    BY <1>2, <1>5, KeepsSame, ArchivedThenWritten DEF Sound
  <2>2. Changed(d, e, CallKeys(c), id)
    BY <2>1, ChangedMore DEF CallKeys
  <2>3. e.docs[id] # Nil
    BY <1>2, <1>5, <2>1, ChangedDocument DEF Live
  <2>4. e.docs[id].version = d.docs[id].version + 1
    <3>1. Rewritten(d.docs[id], c.actor, content).version = d.docs[id].version + 1
      BY <1>2, <1>5 DEF Rewritten, Sound, Typed, Documents, Live
    <3> QED
      BY <1>5, <3>1
  <2>5. Bound(e, c.key, request, o.result)
    BY <1>5 DEF Wrote, Bound, Entry
  <2>6. Answered(e, c, o.result)
    BY <2>5 DEF Answered
  <2> QED
    BY <1>1, <2>2, <2>3, <2>4, <2>6 DEF Effect
<1> QED
  BY <1>3, <1>4, <1>5

\* A call that succeeds leaves the database as it was, or has its effect.
LEMMA OutcomeEffect ==
  ASSUME NEW d, NEW c \in Calls, NEW new \in Ids, Sound(d), Outcome(d, c, new).ok
  PROVE  LET o == Outcome(d, c, new)
         IN  o.db = d \/ \E id \in Ids : Effect(d, c, id, o)
<1>1. c.op # "create" => c.id \in Ids
  BY CallTyped
<1>2. CASE c.op = "create"
  BY <1>2, CreateEffect DEF Outcome
<1>3. CASE c.op = "rename"
  BY <1>1, <1>3, RenameEffect DEF Outcome
<1>4. CASE c.op = "edit"
  BY <1>1, <1>4, EditEffect DEF Outcome
<1>5. CASE c.op = "duplicate"
  BY <1>5, DuplicateEffect DEF Outcome
<1>6. CASE c.op = "revert"
  BY <1>1, <1>6, RevertEffect DEF Outcome
<1>7. CASE c.op = "delete"
  BY <1>1, <1>7, DeleteEffect DEF Outcome
<1>8. CASE c.op = "other"
  BY <1>1, <1>8, OtherEffect DEF Outcome
<1> QED
  BY <1>2, <1>3, <1>4, <1>5, <1>6, <1>7, <1>8, CallTyped

(***************************************************************************)
(* The inductive invariant.                                                *)
(***************************************************************************)
\* The version a document has is one that was made, and none is later.
MadeKnown ==
  \A id \in Ids : db.docs[id] # Nil =>
    \E m \in made : /\ m.id = id /\ m.version = db.docs[id].version
                    /\ m.title = db.docs[id].title /\ m.board = db.docs[id].board
                    /\ m.actor = db.docs[id].updatedBy

MadePast ==
  \A m \in made : /\ m.id \in Ids /\ db.docs[m.id] # Nil
                  /\ m.version \in Nat /\ m.version <= db.docs[m.id].version

AnswersRecognised ==
  \A a \in answers : a.call \in Calls /\ Answered(db, a.call, a.result)

KeysUsed ==
  \A n \in db.ledger : n.key \in ArchivalKeys \cup Keys \cup DerivedKeys(Keys)

IInv ==
  /\ Sound(db)
  /\ MadeKnown /\ MadePast
  /\ RevisionsAreTrue /\ NothingForgotten
  /\ AnswersRecognised
  /\ KeysUsed

LEMMA InitIInv == Init => IInv
<1> SUFFICES ASSUME Init PROVE IInv
  OBVIOUS
<1>1. PICK first \in [Ids -> {Nil} \cup Older] :
        /\ db = [docs |-> first, revisions |-> << >>, ledger |-> {}]
        /\ made = {Version(db, id, "other") : id \in {i \in Ids : first[i] # Nil}}
  BY DEF Init
<1>2. \A x \in Older : x \in Documents /\ ValidBoard(x.board) /\ x.version = 1
  <2> SUFFICES ASSUME NEW x \in Older
               PROVE  x \in Documents /\ ValidBoard(x.board) /\ x.version = 1
    OBVIOUS
  <2>1. x \in [version : {1}, title : Titles, board : Boards,
               createdBy : Actors, updatedBy : Actors, deleted : {FALSE}]
    BY DEF Older
  <2>2. ValidBoard(x.board) /\ x.board \in BoardValues
    BY <2>1, BoardsAssumption DEF ValidBoard
  <2>3. 1 \in Versions
    BY CanvasAssumption DEF Versions
  <2> QED
    BY <2>1, <2>2, <2>3 DEF Documents
<1>3. \A id \in Ids : first[id] # Nil =>
        first[id] \in Documents /\ ValidBoard(first[id].board) /\ first[id].version = 1
  BY <1>2
<1>4. db.docs = first /\ db.revisions = << >> /\ db.ledger = {}
  BY <1>1
<1>5. Len(db.revisions) = 0 /\ db.revisions \in Seq(Revisions)
  BY <1>4
<1>6. Typed(db)
  <2>1. db.docs \in [Ids -> Documents \cup {Nil}]
    BY <1>3, <1>4
  <2>2. db = [docs |-> db.docs, revisions |-> db.revisions, ledger |-> db.ledger]
    BY <1>1
  <2> QED
    BY <1>3, <1>4, <1>5, <2>1, <2>2 DEF Typed
<1>7. Archived(db)
  BY <1>4, <1>5 DEF Archived, KeysBindOnce, RevisionsFiled, RevisionsKeyed, Readable,
                    RevisionsPast, EntriesDone
<1>8. \A id \in Ids : first[id] # Nil => Version(db, id, "other") \in made
  BY <1>1
<1>9. \A m \in made : \E id \in Ids : first[id] # Nil /\ m = Version(db, id, "other")
  BY <1>1
<1>10. MadeKnown
  <2> SUFFICES ASSUME NEW id \in Ids, first[id] # Nil
               PROVE  \E m \in made : /\ m.id = id /\ m.version = db.docs[id].version
                                      /\ m.title = db.docs[id].title
                                      /\ m.board = db.docs[id].board
                                      /\ m.actor = db.docs[id].updatedBy
    BY <1>4 DEF MadeKnown
  <2>1. Version(db, id, "other") \in made
    BY <1>8
  <2> QED
    BY <2>1 DEF Version
<1>11. MadePast
  BY <1>3, <1>4, <1>9 DEF MadePast, Version
<1>12. RevisionsAreTrue
  BY <1>5 DEF RevisionsAreTrue
<1>13. NothingForgotten
  <2>1. \A m \in made : m.op = "other"
    BY <1>9 DEF Version
  <2> QED
    BY <2>1 DEF NothingForgotten
<1>14. AnswersRecognised /\ KeysUsed
  BY <1>4 DEF AnswersRecognised, KeysUsed, Init
<1> QED
  BY <1>6, <1>7, <1>10, <1>11, <1>12, <1>13, <1>14 DEF IInv, Sound

LEMMA BoundKept ==
  ASSUME NEW d, NEW e, NEW key, NEW request, NEW result, Keeps(d, e),
         Bound(d, key, request, result)
  PROVE  Bound(e, key, request, result)
BY DEF Keeps, Bound

LEMMA AnsweredKept ==
  ASSUME NEW d, NEW e, NEW c \in Calls, NEW result,
         Sound(d), Sound(e), Keeps(d, e), Answered(d, c, result)
  PROVE  Answered(e, c, result)
<1>1. c.op \in {"rename", "delete"} =>
        e.docs[c.id] # Nil /\ c.expected < e.docs[c.id].version
  <2> SUFFICES ASSUME c.op \in {"rename", "delete"}
               PROVE  e.docs[c.id] # Nil /\ c.expected < e.docs[c.id].version
    OBVIOUS
  <2>1. /\ c.id \in Ids /\ c.expected \in Nat
        /\ d.docs[c.id] # Nil /\ c.expected < d.docs[c.id].version
    BY CallTyped, CanvasAssumption DEF Answered, Versions
  <2>2. e.docs[c.id] # d.docs[c.id] =>
          e.docs[c.id] # Nil /\ d.docs[c.id].version < e.docs[c.id].version
    BY <2>1 DEF Keeps, Advances
  <2>3. d.docs[c.id].version \in Nat /\ (e.docs[c.id] # Nil => e.docs[c.id].version \in Nat)
    BY <2>1, DocumentTyped
  <2> QED
    BY <2>1, <2>2, <2>3
<1>2. c.op = "create" =>
        \E n \in e.ledger : n.key = ArchivalKey(result.id, result.version)
  BY DEF Answered, Keeps
<1>3. c.op = "create" => result.id \in Ids /\ e.docs[result.id] # Nil
  BY DEF Answered, Keeps, Advances
<1> QED
  BY <1>1, <1>2, <1>3, BoundKept DEF Answered

LEMMA CallIInv ==
  ASSUME IInv, NEW c \in Calls, NEW new \in Ids, Call(c, new)
  PROVE  IInv'
<1> DEFINE o == Outcome(db, c, new)
           e == db'
           changed == {x \in Ids : o.db.docs[x] # db.docs[x]}
<1>1. /\ o.ok /\ o.db # db /\ e = o.db
      /\ made' = made \cup {Version(o.db, x, c.op) : x \in changed}
      /\ answers' = answers \cup {[call |-> c, result |-> o.result]}
  BY DEF Call
<1>2. Sound(db)
  BY DEF IInv
<1>3. PICK id \in Ids : Effect(db, c, id, o)
  BY <1>1, <1>2, OutcomeEffect
<1> HIDE DEF o
<1>4. /\ Sound(e) /\ Keeps(db, e) /\ Binds(db, e, CallKeys(c)) /\ ArchivesCurrent(db, e)
      /\ \A x \in Ids : x # id => e.docs[x] = db.docs[x]
      /\ Typed(db) /\ Typed(e)
  BY <1>1, <1>2, <1>3 DEF Effect, Changed, Sound
<1>5. /\ Answered(e, c, o.result)
      /\ e.docs[id] # db.docs[id] =>
           /\ e.docs[id] # Nil
           /\ db.docs[id] # Nil => e.docs[id].version = db.docs[id].version + 1
           /\ c.op \notin {"other", "delete"} =>
                Matching(e, id, e.docs[id].version) # {}
           /\ c.op # "other" /\ db.docs[id] # Nil =>
                Matching(e, id, db.docs[id].version) # {}
  BY <1>1, <1>3 DEF Effect
<1> DEFINE v == Version(e, id, c.op)
<1>6. /\ e.docs[id] # db.docs[id] => made' = made \cup {v}
      /\ e.docs[id] = db.docs[id] => made' = made
  BY <1>1, <1>4
<1>7. /\ v.id = id /\ v.version = e.docs[id].version /\ v.title = e.docs[id].title
      /\ v.board = e.docs[id].board /\ v.actor = e.docs[id].updatedBy /\ v.op = c.op
  BY DEF Version
<1> HIDE DEF v
<1>8. ASSUME NEW x \in Ids, e.docs[x] # Nil
      PROVE  \E m \in made' : /\ m.id = x /\ m.version = e.docs[x].version
                              /\ m.title = e.docs[x].title /\ m.board = e.docs[x].board
                              /\ m.actor = e.docs[x].updatedBy
  <2>1. CASE e.docs[x] = db.docs[x]
    BY <2>1, <1>6, <1>8 DEF IInv, MadeKnown
  <2>2. CASE e.docs[x] # db.docs[x]
    BY <2>2, <1>4, <1>6, <1>7
  <2> QED
    BY <2>1, <2>2
<1>9. MadeKnown'
  BY <1>8 DEF MadeKnown
<1>10. ASSUME NEW m \in made
       PROVE  /\ m.id \in Ids /\ db.docs[m.id] # Nil /\ e.docs[m.id] # Nil
              /\ m.version \in Nat /\ m.version <= db.docs[m.id].version
              /\ m.version <= e.docs[m.id].version
  <2>1. /\ m.id \in Ids /\ db.docs[m.id] # Nil
        /\ m.version \in Nat /\ m.version <= db.docs[m.id].version
    BY DEF IInv, MadePast
  <2>2. e.docs[m.id] # db.docs[m.id] =>
          e.docs[m.id] # Nil /\ db.docs[m.id].version < e.docs[m.id].version
    BY <2>1, <1>4 DEF Keeps, Advances
  <2>3. e.docs[m.id] # Nil
    BY <2>1, <2>2
  <2>4. db.docs[m.id].version \in Nat /\ e.docs[m.id].version \in Nat
    BY <2>1, <2>3, <1>2, <1>4, DocumentTyped
  <2> QED
    BY <2>1, <2>2, <2>3, <2>4
<1>11. ASSUME NEW m \in made'
       PROVE  /\ m.id \in Ids /\ e.docs[m.id] # Nil
              /\ m.version \in Nat /\ m.version <= e.docs[m.id].version
  <2>1. CASE m \in made
    BY <2>1, <1>10
  <2>2. CASE m = v /\ e.docs[id] # db.docs[id]
    <3>1. e.docs[id] # Nil /\ e.docs[id].version \in Nat
      BY <2>2, <1>4, <1>5, DocumentTyped
    <3> QED
      BY <2>2, <3>1, <1>7
  <2> QED
    BY <2>1, <2>2, <1>6
<1>12. MadePast'
  BY <1>11 DEF MadePast
<1>13. RevisionsAreTrue'
  <2> SUFFICES ASSUME NEW i \in 1..Len(e.revisions)
               PROVE  LET r == e.revisions[i]
                      IN  \E m \in made' :
                            /\ m.id = r.document.id /\ m.version = r.document.version
                            /\ m.title = r.document.title /\ m.board = r.document.board
                            /\ m.actor = r.actor
    BY DEF RevisionsAreTrue
  <2> DEFINE r == e.revisions[i]
  <2>1. CASE \E j \in 1..Len(db.revisions) : r = db.revisions[j]
    BY <2>1, <1>6 DEF IInv, RevisionsAreTrue
  <2>2. CASE IsCurrent(db, r)
    <3>1. r.document.id \in Ids /\ db.docs[r.document.id] # Nil
      BY <2>2 DEF IsCurrent, Live
    <3>2. PICK m \in made :
            /\ m.id = r.document.id /\ m.version = db.docs[r.document.id].version
            /\ m.title = db.docs[r.document.id].title
            /\ m.board = db.docs[r.document.id].board
            /\ m.actor = db.docs[r.document.id].updatedBy
      BY <3>1 DEF IInv, MadeKnown
    <3>3. /\ r.document.version = db.docs[r.document.id].version
          /\ r.document.title = db.docs[r.document.id].title
          /\ r.document.board = db.docs[r.document.id].board
          /\ r.actor = db.docs[r.document.id].updatedBy
      BY <2>2, SMTT(60) DEF IsCurrent, Revision, View
    <3> QED
      BY <3>2, <3>3, <1>6
  <2>3. CASE IsCurrent(e, r)
    <3>1. r.document.id \in Ids /\ e.docs[r.document.id] # Nil
      BY <2>3 DEF IsCurrent, Live
    <3>2. PICK m \in made' :
            /\ m.id = r.document.id /\ m.version = e.docs[r.document.id].version
            /\ m.title = e.docs[r.document.id].title
            /\ m.board = e.docs[r.document.id].board
            /\ m.actor = e.docs[r.document.id].updatedBy
      BY <3>1, <1>8
    <3>3. /\ r.document.version = e.docs[r.document.id].version
          /\ r.document.title = e.docs[r.document.id].title
          /\ r.document.board = e.docs[r.document.id].board
          /\ r.actor = e.docs[r.document.id].updatedBy
      BY <2>3, SMTT(60) DEF IsCurrent, Revision, View
    <3> QED
      BY <3>2, <3>3
  <2> QED
    BY <2>1, <2>2, <2>3, <1>4 DEF ArchivesCurrent
<1>14. ASSUME NEW x, NEW w, Matching(db, x, w) # {}
       PROVE  Matching(e, x, w) # {}
  BY <1>4, <1>14, MatchingKept
<1>15. NothingForgotten'
  <2> SUFFICES ASSUME NEW m \in made',
                      \/ m.op \notin {"other", "delete"}
                      \/ \E n \in made' : n.id = m.id /\ n.version = m.version + 1 /\ n.op # "other"
               PROVE  Matching(e, m.id, m.version) # {}
    BY DEF NothingForgotten
  <2>1. CASE m \in made
    <3>1. CASE \/ m.op \notin {"other", "delete"}
               \/ \E n \in made : n.id = m.id /\ n.version = m.version + 1 /\ n.op # "other"
      BY <2>1, <3>1, <1>14 DEF IInv, NothingForgotten
    <3>2. CASE /\ e.docs[id] # db.docs[id]
               /\ v.id = m.id /\ v.version = m.version + 1 /\ v.op # "other"
      <4>1. m.id = id /\ db.docs[id] # Nil /\ c.op # "other"
        BY <2>1, <3>2, <1>7, <1>10
      <4>2. e.docs[id].version = db.docs[id].version + 1
        BY <3>2, <4>1, <1>5
      <4>3. m.version \in Nat /\ db.docs[id].version \in Nat
        BY <2>1, <4>1, <1>2, <1>10, DocumentTyped
      <4>4. m.version = db.docs[id].version
        BY <3>2, <4>2, <4>3, <1>7
      <4> QED
        BY <3>2, <4>1, <4>4, <1>5
    <3> QED
      BY <3>1, <3>2, <1>6
  <2>2. CASE m = v /\ e.docs[id] # db.docs[id]
    <3>1. ~\E n \in made' : n.id = m.id /\ n.version = m.version + 1
      <4> SUFFICES ASSUME NEW n \in made', n.id = m.id, n.version = m.version + 1
                   PROVE  FALSE
        OBVIOUS
      <4>1. n.version \in Nat /\ m.version \in Nat /\ n.version <= e.docs[id].version
        BY <2>2, <1>7, <1>11
      <4> QED
        BY <2>2, <4>1, <1>7
    <3>2. c.op \notin {"other", "delete"}
      BY <2>2, <3>1, <1>7
    <3> QED
      BY <2>2, <3>2, <1>5, <1>7
  <2> QED
    BY <2>1, <2>2, <1>6
<1>16. AnswersRecognised'
  <2>1. \A a \in answers : a.call \in Calls /\ Answered(e, a.call, a.result)
    BY <1>2, <1>4, AnsweredKept DEF IInv, AnswersRecognised
  <2> QED
    BY <2>1, <1>1, <1>5 DEF AnswersRecognised
<1>17. KeysUsed'
  <2>1. CallKeys(c) \subseteq Keys \cup DerivedKeys(Keys)
    BY CallTyped DEF CallKeys, DerivedKeys
  <2> QED
    BY <2>1, <1>4 DEF Binds, IInv, KeysUsed
<1> QED
  BY <1>4, <1>9, <1>12, <1>13, <1>15, <1>16, <1>17 DEF IInv

\* Invariance: what is in the archive is in the ledger and in what was made, and
\* every call that took effect can be recognised.
THEOREM CanvasInvariance == Spec => []IInv
<1>1. IInv /\ [Next]_vars => IInv'
  <2> SUFFICES ASSUME IInv, [Next]_vars PROVE IInv'
    OBVIOUS
  <2>1. CASE Next
    BY <2>1, CallIInv DEF Next
  <2>2. CASE UNCHANGED vars
    BY <2>2 DEF vars, IInv, MadeKnown, MadePast, RevisionsAreTrue, NothingForgotten,
                AnswersRecognised, KeysUsed
  <2> QED
    BY <2>1, <2>2
<1> QED
  BY <1>1, InitIInv, PTL DEF Spec

LEMMA IInvHistory == IInv => HistoryFaithful
<1> SUFFICES ASSUME IInv,
                    NEW i \in 1..Len(db.revisions), NEW j \in 1..Len(db.revisions),
                    db.revisions[i].document.id = db.revisions[j].document.id,
                    db.revisions[i].document.version = db.revisions[j].document.version
             PROVE  i = j
  BY DEF IInv, HistoryFaithful, HistoryReadable
<1>1. KeyOf(db.revisions[i]) = KeyOf(db.revisions[j])
  BY DEF KeyOf
<1> QED
  BY <1>1 DEF IInv, Sound, Archived, Readable

\* The history of Canvas is faithful: every revision is a version that was, by
\* whoever made it, every version Canvas made or replaced has one, and none two,
\* for any documents, actors, keys and edits and whatever is submitted again.
THEOREM HistoriesAreFaithful == Spec => []HistoryFaithful
BY CanvasInvariance, IInvHistory, PTL

(***************************************************************************)
(* Retries.                                                                *)
(***************************************************************************)
LEMMA BoundAnswered ==
  ASSUME NEW d, NEW key, NEW request, NEW result, NEW fresh,
         Sound(d), Bound(d, key, request, result)
  PROVE  Once(d, key, request, fresh) = Done(d, result)
BY OnceAnswered DEF Bound, Sound, Archived

LEMMA ArchiveAgain ==
  ASSUME NEW d, NEW document,
         \E n \in d.ledger : n.key = ArchivalKey(document.id, document.version)
  PROVE  Archive(d, document).db = d
<1> DEFINE r == Revision(document, d.docs[document.id].updatedBy)
           fresh == Done([d EXCEPT !.revisions = Append(@, r)], Nil)
           key == ArchivalKey(document.id, document.version)
<1>1. Archive(d, document) = IF Live(d, document.id) /\ View(d, document.id) = document
                               THEN Once(d, key, r, fresh) ELSE Failed(d)
  BY DEF Archive
<1>2. Once(d, key, r, fresh).db = d
  <2> HIDE DEF fresh, r
  <2> QED
    BY OnceBound
<1> HIDE DEF fresh, r, key
<1> QED
  BY <1>1, <1>2 DEF Failed

\* What a retry of c does, when c was answered result.
Repeated(d, c, result, o) ==
  /\ o.db = d
  /\ o.ok => o.result = result
  /\ (\/ c.op \in {"edit", "duplicate", "revert"}
      \/ c.op = "create" /\ View(d, result.id) = result) => o.ok

LEMMA RetryOfCreate ==
  ASSUME NEW d, NEW c \in Calls, NEW new \in Ids, NEW result,
         Sound(d), c.op = "create", Answered(d, c, result)
  PROVE  Repeated(d, c, result, Create(d, c, new))
<1> DEFINE content == Content(c.title, EmptyBoard)
           request == CreateRequest(c.actor, content)
           saved == RecordCreate(d, c.key, c.actor, content, new)
           archived == Archive(saved.db, saved.result)
<1>1. /\ Bound(d, c.key, request, result)
      /\ result.id \in Ids /\ d.docs[result.id] # Nil
      /\ \E n \in d.ledger : n.key = ArchivalKey(result.id, result.version)
  BY DEF Answered
<1>2. saved = Done(d, result)
  <2>1. \E fresh : saved = Once(d, c.key, request, fresh)
    BY DEF RecordCreate, CreateRequest
  <2> HIDE DEF saved, request
  <2> QED
    BY <1>1, <2>1, BoundAnswered
<1>3. saved.ok /\ saved.db = d /\ saved.result = result
  BY <1>2 DEF Done
<1>4. Create(d, c, new) =
        IF saved.ok /\ archived.ok THEN Done(archived.db, saved.result) ELSE Failed(d)
  BY DEF Create
<1> HIDE DEF saved
<1>5. archived.db = d
  BY <1>1, <1>3, ArchiveAgain
<1>6. View(d, result.id) = result => archived.ok
  <2> SUFFICES ASSUME View(d, result.id) = result PROVE Archive(d, result).ok
    BY <1>3
  <2>1. result.version = d.docs[result.id].version
    BY DEF View
  <2>2. result.version \in Versions
    BY <1>1, <2>1, DocumentTyped
  <2>3. PICK i \in 1..Len(d.revisions) :
          /\ d.revisions[i].document.id = result.id
          /\ d.revisions[i].document.version = result.version
    BY <1>1, <2>2, FiledMatches
  <2>4. Live(d, result.id)
    BY <2>1, <2>3 DEF Sound, Archived, RevisionsPast, IsCurrent
  <2> QED
    BY <1>1, <2>4, ArchiveSucceeds
<1> HIDE DEF archived
<1> QED
  BY <1>3, <1>4, <1>5, <1>6 DEF Repeated, Done, Failed

LEMMA RetriesRepeated ==
  ASSUME NEW d, NEW c \in Calls, NEW new \in Ids, NEW result,
         Sound(d), Answered(d, c, result)
  PROVE  Repeated(d, c, result, Outcome(d, c, new))
<1>1. \A o : o = Done(d, result) => Repeated(d, c, result, o)
  BY DEF Repeated, Done
<1>2. c.op \in {"rename", "delete"} => d.docs[c.id].version # c.expected
  <2> SUFFICES ASSUME c.op \in {"rename", "delete"}
               PROVE  d.docs[c.id].version # c.expected
    OBVIOUS
  <2>1. /\ d.docs[c.id] # Nil /\ c.expected < d.docs[c.id].version
        /\ c.expected \in Nat /\ c.id \in Ids
    BY CallTyped, CanvasAssumption DEF Answered, Versions
  <2> QED
    BY <2>1, DocumentTyped
<1>3. CASE c.op = "create"
  BY <1>3, RetryOfCreate DEF Outcome
<1>4. CASE c.op = "rename"
  <2>1. Outcome(d, c, new) = Rename(d, c)
    BY <1>4 DEF Outcome
  <2>2. Rename(d, c) = Failed(d)
    BY <1>2, <1>4 DEF Rename, Patch
  <2> QED
    BY <1>4, <2>1, <2>2 DEF Repeated, Failed
<1>5. CASE c.op = "edit"
  <2>1. Outcome(d, c, new) = Once(d, IntentKey(c.key), c, EditOnce(d, c))
    BY <1>5 DEF Outcome, Edit
  <2> QED
    BY <1>1, <1>5, <2>1, BoundAnswered DEF Answered
<1>6. CASE c.op = "duplicate"
  <2>1. \E fresh : Outcome(d, c, new) = Once(d, c.key, c, fresh)
    BY <1>6 DEF Outcome, Duplicate
  <2> QED
    BY <1>1, <1>6, <2>1, BoundAnswered DEF Answered
<1>7. CASE c.op = "revert"
  <2>1. \E fresh : Outcome(d, c, new) = Once(d, c.key, c, fresh)
    BY <1>7 DEF Outcome, Revert
  <2> QED
    BY <1>1, <1>7, <2>1, BoundAnswered DEF Answered
<1>8. CASE c.op = "delete"
  <2>1. Outcome(d, c, new) = Delete(d, c)
    BY <1>8 DEF Outcome
  <2>2. Delete(d, c) = Failed(d)
    BY <1>2, <1>8 DEF Delete
  <2> QED
    BY <1>8, <2>1, <2>2 DEF Repeated, Failed
<1>9. CASE c.op = "other"
  <2> DEFINE request == UpdateRequest(c.actor, c.id, c.expected, Content(c.title, c.board))
  <2>1. \E fresh : Outcome(d, c, new) = Once(d, c.key, request, fresh)
    BY <1>9 DEF Outcome, Other, RecordUpdate, UpdateRequest
  <2> HIDE DEF request
  <2> QED
    BY <1>1, <1>9, <2>1, BoundAnswered DEF Answered, request
<1> QED
  BY <1>3, <1>4, <1>5, <1>6, <1>7, <1>8, <1>9, CallTyped

\* A call that took effect is never carried out again, whatever happened since;
\* edits, duplications and reverts are answered as before.
THEOREM RetriesRecognised == Spec => []RetriesAnswered
<1>1. IInv => RetriesAnswered
  BY RetriesRepeated DEF IInv, AnswersRecognised, RetriesAnswered, Repeated
<1> QED
  BY <1>1, CanvasInvariance, PTL

(***************************************************************************)
(* Calls under a key nobody has used.                                      *)
(***************************************************************************)
LEMMA OnceFresh ==
  ASSUME NEW d, NEW key, NEW request, NEW fresh,
         \A n \in d.ledger : n.key # key, fresh.ok
  PROVE  Once(d, key, request, fresh) =
           Done([fresh.db EXCEPT !.ledger = @ \cup {Entry(key, request, fresh.result)}],
                fresh.result)
BY DEF Once, Entry

LEMMA NewKeysUnused ==
  ASSUME IInv, NEW n \in db.ledger
  PROVE  /\ n.key # NewKey
         /\ n.key # IntentKey(NewKey)
         /\ n.key # RevertKey(NewKey)
<1>1. n.key \in Keys \cup DerivedKeys(Keys) \cup ArchivalKeys
  BY DEF IInv, KeysUsed
<1>2. \A k \in {NewKey, IntentKey(NewKey), RevertKey(NewKey)} :
        k \notin Keys /\ k \notin ArchivalKeys
  BY CanvasAssumption, KeysApart, CallerKeys
<1>3. \A k \in {NewKey, IntentKey(NewKey), RevertKey(NewKey)} : k \notin DerivedKeys(Keys)
  <2>1. NewKey \notin Keys
    BY CanvasAssumption
  <2>2. NewKey \notin DerivedKeys(Keys)
    BY CallerKeys DEF DerivedKeys
  <2>3. IntentKey(NewKey) \notin DerivedKeys(Keys)
    BY <2>1, KeysApart DEF DerivedKeys
  <2>4. RevertKey(NewKey) \notin DerivedKeys(Keys)
    BY <2>1, KeysApart DEF DerivedKeys
  <2> QED
    BY <2>2, <2>3, <2>4
<1> QED
  BY <1>1, <1>2, <1>3

\* The current version of a live document can be replaced.
LEMMA PatchSucceeds ==
  ASSUME NEW d, NEW c, NEW key, NEW content,
         MayPatch(d, c, key, content),
         Live(d, c.id), d.docs[c.id].version = c.expected, c.expected < MaxVersion,
         \A n \in d.ledger : n.key # key
  PROVE  Patch(d, c, key, content).ok
<1> DEFINE id     == c.id
           before == Archive(d, View(d, id))
           b      == before.db
           saved  == RecordUpdate(b, key, c.actor, id, c.expected, content)
           after  == Archive(saved.db, saved.result)
<1>1. /\ Sound(d) /\ id \in Ids /\ c.actor \in Actors /\ key \notin ArchivalKeys
      /\ content.title \in Titles /\ ValidBoard(content.board)
  BY DEF MayPatch
<1>2. before.ok
  BY <1>1, ArchiveSucceeds
<1>3. View(d, id).id = id
  BY DEF View
<1>4. b.docs = d.docs /\ Sound(b) /\ Binds(d, b, {})
  BY <1>1, <1>2, <1>3, ArchiveOk
<1> HIDE DEF b
<1>5. Live(b, id) /\ b.docs[id] = d.docs[id] /\ b.docs[id].version = c.expected
  BY <1>4 DEF Live
<1>6. saved.ok
  <2>1. \A n \in b.ledger : n.key # key
    BY <1>1, <1>4 DEF Binds
  <2>2. \E fresh : fresh.ok /\ saved =
          Once(b, key, UpdateRequest(c.actor, id, c.expected, content), fresh)
    BY <1>5 DEF RecordUpdate, UpdateRequest, Done
  <2> HIDE DEF saved
  <2>3. PICK fresh : fresh.ok /\ saved =
          Once(b, key, UpdateRequest(c.actor, id, c.expected, content), fresh)
    BY <2>2
  <2> QED
    BY <2>1, <2>3, OnceFresh DEF Done
<1>7. /\ Wrote(b, key, UpdateRequest(c.actor, id, c.expected, content), id, saved)
      /\ saved.db.docs[id] = Rewritten(d.docs[id], c.actor, content)
  <2>1. RecordUpdate(b, key, c.actor, id, b.docs[id].version, content).ok
    BY <1>5, <1>6
  <2>2. LET o == RecordUpdate(b, key, c.actor, id, b.docs[id].version, content)
        IN  /\ Wrote(b, key, UpdateRequest(c.actor, id, b.docs[id].version, content), id, o)
            /\ o.db.docs[id] = Rewritten(b.docs[id], c.actor, content)
    BY <1>1, <1>4, <1>5, <2>1, UpdateFresh
  <2> QED
    BY <1>5, <2>2
<1> HIDE DEF saved
<1>8. Sound(saved.db) /\ saved.result = View(saved.db, id) /\ Keeps(b, saved.db)
  BY <1>7 DEF Wrote
<1>9. Live(saved.db, id)
  <2>1. saved.db.docs[id].deleted = d.docs[id].deleted
    <3>1. d.docs[id] # Nil
      BY DEF Live
    <3>2. Rewritten(d.docs[id], c.actor, content).deleted = d.docs[id].deleted
      BY ONLY <1>1, <3>1, RewrittenVersion, SMTT(60)
    <3> QED
      BY <1>7, <3>2
  <2>2. saved.db.docs[id] # Nil
    BY <1>1, <1>5, <1>8 DEF Keeps, Advances, Live
  <2> QED
    BY <2>1, <2>2 DEF Live
<1>10. after.ok
  BY <1>1, <1>8, <1>9, ArchiveSucceeds
<1> QED
  BY <1>2, <1>6, <1>10 DEF Patch, Done, saved, b

\* A call under a key nobody has used does what it does once.
LEMMA OnceFirst ==
  ASSUME NEW d, NEW key, NEW request, NEW fresh,
         \A n \in d.ledger : n.key # key, fresh.ok, Typed(fresh.db)
  PROVE  LET o == Once(d, key, request, fresh)
         IN  /\ o.ok /\ o.result = fresh.result
             /\ o.db.docs = fresh.db.docs /\ o.db.revisions = fresh.db.revisions
<1> DEFINE b == fresh.db
           entry == Entry(key, request, fresh.result)
<1>1. Once(d, key, request, fresh) =
        Done([b EXCEPT !.ledger = @ \cup {entry}], fresh.result)
  BY OnceFresh
<1>2. b = [docs |-> b.docs, revisions |-> b.revisions, ledger |-> b.ledger]
  BY DEF Typed
<1> HIDE DEF b, entry
<1>3. [b EXCEPT !.ledger = @ \cup {entry}] =
        [docs |-> b.docs, revisions |-> b.revisions, ledger |-> b.ledger \cup {entry}]
  BY <1>2, Entered
<1> QED
  BY <1>1, <1>3 DEF Done, b

\* The revert of the document id, as it is in d, to the revision i.
MayRevert(d, c, i) ==
  LET then == d.revisions[i].document
      now  == d.docs[then.id]
  IN  /\ Sound(d) /\ i \in 1..Len(d.revisions)
      /\ c.id = then.id /\ c.actor = now.updatedBy
      /\ c.expected = now.version /\ c.toVersion = then.version
      /\ ~now.deleted /\ then.version < now.version /\ now.version < MaxVersion
      /\ \A n \in d.ledger : n.key # c.key /\ n.key # RevertKey(c.key)

Reverted(d, i, o) ==
  LET then == d.revisions[i].document
      now  == d.docs[then.id]
  IN  /\ o.ok
      /\ o.result = [then EXCEPT !.version = now.version + 1]
      /\ Matching(o.db, then.id, now.version) # {}

LEMMA RevertSucceeds ==
  ASSUME NEW d, NEW c, NEW i, MayRevert(d, c, i)
  PROVE  Reverted(d, i, Revert(d, c))
<1> DEFINE then    == d.revisions[i].document
           now     == d.docs[then.id]
           content == Content(then.title, then.board)
           key     == RevertKey(c.key)
           saved   == Patch(d, c, key, content)
           o       == Revert(d, c)
<1>1. /\ Sound(d) /\ i \in 1..Len(d.revisions)
      /\ c.id = then.id /\ c.actor = now.updatedBy
      /\ c.expected = now.version /\ c.toVersion = then.version
      /\ ~now.deleted /\ then.version < now.version /\ now.version < MaxVersion
      /\ \A n \in d.ledger : n.key # c.key /\ n.key # key
  BY DEF MayRevert
<1>2. d.revisions[i] \in Revisions /\ ValidBoard(then.board)
  BY <1>1 DEF Sound, Typed
<1>3. then \in Snapshots /\ then.id \in Ids /\ now # Nil
  BY <1>1, <1>2 DEF Sound, Archived, RevisionsPast, Revisions, Snapshots
<1>4. now.updatedBy \in Actors /\ now.version \in Nat /\ Live(d, then.id)
  BY <1>1, <1>3, DocumentTyped DEF Live
<1>5. Matching(d, c.id, c.toVersion) = {i}
  BY <1>1 DEF Matching, Sound, Archived, Readable, KeyOf
<1>6. (CHOOSE j \in Matching(d, c.id, c.toVersion) : TRUE) = i
  BY <1>5
<1>7. Revertible(d, c)
  BY <1>1, <1>5, FS_Singleton DEF Revertible
<1>8. o = Once(d, c.key, c, saved)
  BY <1>1, <1>4, <1>6, <1>7 DEF Revert
<1>9. MayPatch(d, c, key, content)
  <2>1. content.title \in Titles /\ ValidBoard(content.board)
    BY <1>2, <1>3 DEF Content, Snapshots
  <2> QED
    BY <1>1, <1>3, <1>4, <2>1, KeysApart DEF MayPatch
<1>10. content.title = then.title /\ content.board = then.board
  BY DEF Content
<1> HIDE DEF content, key, saved, o
<1>11. saved.ok
  BY <1>1, <1>4, <1>9, PatchSucceeds DEF saved
<1>12. Patched(d, c, key, content, saved)
  BY <1>9, <1>11, PatchOk DEF saved
<1> DEFINE e == saved.db
<1>13. /\ Sound(e)
       /\ e.docs[c.id] = Rewritten(now, c.actor, content)
       /\ saved.result = View(e, c.id)
       /\ Matching(e, c.id, now.version) # {}
  BY <1>1, <1>12 DEF Patched, Changed
<1>14. saved.result = [then EXCEPT !.version = now.version + 1]
  <2>1. /\ Rewritten(now, c.actor, content).version = now.version + 1
        /\ Rewritten(now, c.actor, content).title = then.title
        /\ Rewritten(now, c.actor, content).board = then.board
    <3>1. now \in Documents
      BY <1>1, <1>3, DocumentTyped
    <3> HIDE DEF now, then
    <3> QED
      BY <3>1, <1>10 DEF Rewritten, Documents
  <2>2. saved.result = [id |-> then.id, version |-> now.version + 1,
                        title |-> then.title, board |-> then.board]
    BY <1>1, <1>13, <2>1 DEF View
  <2> QED
    BY <1>3, <2>2 DEF Snapshots
<1>15. o.ok /\ o.result = saved.result /\ o.db.revisions = e.revisions
  <2>1. /\ \A n \in d.ledger : n.key # c.key
        /\ Typed(e)
    BY <1>1, <1>13 DEF Sound
  <2> QED
    BY <1>8, <1>11, <2>1, OnceFirst
<1>16. Matching(o.db, c.id, now.version) # {}
  BY <1>13, <1>15 DEF Matching
<1> QED
  BY <1>1, <1>11, <1>14, <1>15, <1>16 DEF Reverted, o

\* A live document can go back to every archived version, by a new version, and
\* loses none on the way.
THEOREM VersionsAreKept == Spec => []CanGoBack
<1>1. IInv => CanGoBack
  <2> SUFFICES
        ASSUME IInv, NEW i \in 1..Len(db.revisions),
               LET then == db.revisions[i].document
                   now  == db.docs[then.id]
               IN  ~now.deleted /\ then.version < now.version /\ now.version < MaxVersion
        PROVE  LET then == db.revisions[i].document
                   now  == db.docs[then.id]
                   call == [op |-> "revert", key |-> NewKey, actor |-> now.updatedBy,
                            id |-> then.id, expected |-> now.version,
                            toVersion |-> then.version]
               IN  Reverted(db, i, Outcome(db, call, then.id))
    BY DEF CanGoBack, Reverted
  <2> DEFINE then == db.revisions[i].document
             now  == db.docs[then.id]
             call == [op |-> "revert", key |-> NewKey, actor |-> now.updatedBy,
                      id |-> then.id, expected |-> now.version, toVersion |-> then.version]
  <2>1. MayRevert(db, call, i)
    BY NewKeysUnused DEF MayRevert, IInv
  <2>2. Outcome(db, call, then.id) = Revert(db, call)
    BY DEF Outcome
  <2> HIDE DEF call
  <2>3. Reverted(db, i, Revert(db, call))
    BY <2>1, RevertSucceeds
  <2> QED
    BY <2>2, <2>3 DEF call
<1> QED
  BY <1>1, CanvasInvariance, PTL

(***************************************************************************)
(* Boards that are edited.                                                 *)
(***************************************************************************)
LEMMA AtMostSubset ==
  ASSUME NEW S, NEW T \in SUBSET S, NEW limit \in Nat, AtMost(S, limit)
  PROVE  AtMost(T, limit)
<1>1. /\ IsFiniteSet(S) /\ Cardinality(S) <= limit
      /\ IsFiniteSet(T) /\ Cardinality(T) <= Cardinality(S)
  BY FS_Subset DEF AtMost
<1>2. Cardinality(S) \in Nat /\ Cardinality(T) \in Nat
  BY <1>1, FS_CardinalityType
<1> QED
  BY <1>1, <1>2 DEF AtMost

LEMMA WithoutNoteValid ==
  ASSUME NEW b, NEW n, ValidBoard(b)
  PROVE  ValidBoard(WithoutNote(b, n))
<1> DEFINE Less(g) == [g EXCEPT !.members = @ \ {n}]
           less    == {Less(g) : g \in b.groups}
           w       == WithoutNote(b, n)
<1>1. /\ b \in BoardValues /\ AtMost(b.nodes, MaxNodes)
      /\ AtMost(b.edges, MaxEdges) /\ AtMost(b.groups, MaxGroups)
      /\ MaxNodes \in Nat /\ MaxEdges \in Nat /\ MaxGroups \in Nat
  BY CanvasAssumption DEF ValidBoard, ValidEdges, ValidGroups
<1>2. /\ b.nodes \subseteq Names
      /\ b.edges \subseteq [id : Names, from : Names, to : Names]
      /\ b.groups \subseteq [id : Names, members : SUBSET Names]
  BY <1>1 DEF BoardValues
<1>3. /\ w.nodes = b.nodes \ {n}
      /\ w.edges = {e \in b.edges : n \notin {e.from, e.to}}
      /\ w.groups = {g \in less : Cardinality(g.members) >= 2}
      /\ w = [nodes |-> w.nodes, edges |-> w.edges, groups |-> w.groups]
  BY DEF WithoutNote
<1>4. \A g \in b.groups :
        /\ Less(g) \in [id : Names, members : SUBSET Names]
        /\ Less(g).id = g.id /\ Less(g).members = g.members \ {n}
  BY <1>2
<1> HIDE DEF w, Less
<1>5. AtMost(w.groups, MaxGroups)
  <2> DEFINE f == [g \in b.groups |-> Less(g)]
  <2>1. f \in Surjection(b.groups, less)
    BY DEF Surjection
  <2>2. /\ IsFiniteSet(b.groups) /\ Cardinality(b.groups) <= MaxGroups
        /\ IsFiniteSet(less) /\ Cardinality(less) <= Cardinality(b.groups)
    BY <1>1, <2>1, FS_Surjection DEF AtMost
  <2>3. Cardinality(b.groups) \in Nat /\ Cardinality(less) \in Nat
    BY <2>2, FS_CardinalityType
  <2>4. AtMost(less, MaxGroups)
    BY <1>1, <2>2, <2>3 DEF AtMost
  <2> HIDE DEF less
  <2> QED
    BY <1>1, <1>3, <2>4, AtMostSubset
<1>6. AtMost(w.nodes, MaxNodes) /\ AtMost(w.edges, MaxEdges)
  BY <1>1, <1>3, AtMostSubset
<1>7. \A h \in w.groups :
        /\ h \in [id : Names, members : SUBSET Names]
        /\ Cardinality(h.members) >= 2
        /\ \E g \in b.groups : h = Less(g) /\ h.id = g.id /\ h.members = g.members \ {n}
  BY <1>3, <1>4
<1>8. w \in BoardValues
  BY <1>2, <1>3, <1>7 DEF BoardValues
<1>9. ValidEdges(w)
  BY <1>3, <1>6 DEF ValidBoard, ValidEdges
<1>10. ValidGroups(w)
  <2>1. GroupIds(w) \subseteq GroupIds(b) /\ EdgeIds(w) \subseteq EdgeIds(b)
    BY <1>3, <1>7 DEF GroupIds, EdgeIds
  <2>2. GroupIds(w) \cap (w.nodes \cup EdgeIds(w)) = {}
    BY <1>3, <2>1 DEF ValidBoard, ValidGroups
  <2>3. \A h \in w.groups : h.members \subseteq w.nodes
    BY <1>3, <1>7 DEF ValidBoard, ValidGroups
  <2>4. ASSUME NEW h \in w.groups, NEW k \in w.groups, h # k
        PROVE  h.id # k.id /\ h.members \cap k.members = {}
    <3>1. PICK g \in b.groups : h = Less(g) /\ h.id = g.id /\ h.members = g.members \ {n}
      BY <1>7
    <3>2. PICK j \in b.groups : k = Less(j) /\ k.id = j.id /\ k.members = j.members \ {n}
      BY <1>7
    <3>3. g # j
      BY <2>4, <3>1, <3>2
    <3>4. g.id # j.id /\ g.members \cap j.members = {}
      BY <3>3 DEF ValidBoard, ValidGroups
    <3> QED
      BY <3>1, <3>2, <3>4
  <2> QED
    BY <1>5, <1>7, <2>2, <2>3, <2>4 DEF ValidGroups
<1> QED
  BY <1>6, <1>8, <1>9, <1>10 DEF ValidBoard, w

\* The removal of the note n from the document id, as it is in d.
MayRemove(d, c, id, n) ==
  /\ Sound(d) /\ id \in Ids /\ Live(d, id) /\ n \in d.docs[id].board.nodes
  /\ c.id = id /\ c.actor = d.docs[id].updatedBy /\ c.expected = d.docs[id].version
  /\ c.edit = [type |-> "note.remove", id |-> n]
  /\ d.docs[id].version < MaxVersion
  /\ c.key \notin ArchivalKeys
  /\ \A m \in d.ledger : m.key # c.key /\ m.key # IntentKey(c.key)

LEMMA RemovalSucceeds ==
  ASSUME NEW d, NEW c, NEW id, NEW n, MayRemove(d, c, id, n)
  PROVE  Edit(d, c).ok
<1> DEFINE b       == d.docs[id].board
           content == Content(d.docs[id].title, Edited(b, c.edit))
           fresh   == EditOnce(d, c)
<1>1. /\ Sound(d) /\ id \in Ids /\ Live(d, id) /\ n \in b.nodes
      /\ c.id = id /\ c.actor = d.docs[id].updatedBy /\ c.expected = d.docs[id].version
      /\ c.edit.type = "note.remove" /\ c.edit.id = n
      /\ c.expected < MaxVersion
      /\ c.key \notin ArchivalKeys
      /\ \A m \in d.ledger : m.key # c.key /\ m.key # IntentKey(c.key)
  BY DEF MayRemove
<1>2. d.docs[id].title \in Titles /\ ValidBoard(b) /\ c.actor \in Actors
  BY <1>1, DocumentTyped DEF Live
<1>3. Edited(b, c.edit) = WithoutNote(b, n)
  BY <1>1 DEF Edited
<1>4. ValidBoard(Edited(b, c.edit))
  BY <1>2, <1>3, WithoutNoteValid
<1>5. MayEdit(b, c.edit)
  BY <1>1 DEF MayEdit
<1>6. fresh = Patch(d, c, c.key, content)
  BY <1>1, <1>4, <1>5 DEF EditOnce
<1>7. content.title \in Titles /\ ValidBoard(content.board)
  BY <1>2, <1>4 DEF Content
<1> HIDE DEF content, fresh
<1>8. MayPatch(d, c, c.key, content)
  BY <1>1, <1>2, <1>7 DEF MayPatch
<1>9. fresh.ok
  BY <1>1, <1>6, <1>8, PatchSucceeds
<1>10. Typed(fresh.db)
  BY <1>6, <1>8, <1>9, PatchOk DEF Patched, Changed, Sound
<1>11. Edit(d, c) = Once(d, IntentKey(c.key), c, fresh)
  BY DEF Edit, fresh
<1> QED
  BY <1>1, <1>9, <1>10, <1>11, OnceFirst

\* Type correctness: every document and every revision has a valid board.
THEOREM CanvasTypeCorrect == Spec => []TypeOK
BY CanvasInvariance, PTL DEF IInv, Sound, Typed, TypeOK

\* Every board is valid, and every note can be removed from the board it is on,
\* whatever edges and groups it is in.
THEOREM NotesCanBeRemoved == Spec => []BoardsStayEditable
<1>1. IInv => BoardsStayEditable
  <2> SUFFICES
        ASSUME IInv, NEW id \in Ids, Live(db, id), NEW n \in db.docs[id].board.nodes,
               db.docs[id].version < MaxVersion
        PROVE  LET call == [op |-> "edit", key |-> NewKey,
                            actor |-> db.docs[id].updatedBy,
                            id |-> id, expected |-> db.docs[id].version,
                            edit |-> [type |-> "note.remove", id |-> n]]
               IN  Outcome(db, call, id).ok
    BY DEF BoardsStayEditable, IInv, Sound, Typed, TypeOK
  <2> DEFINE call == [op |-> "edit", key |-> NewKey, actor |-> db.docs[id].updatedBy,
                      id |-> id, expected |-> db.docs[id].version,
                      edit |-> [type |-> "note.remove", id |-> n]]
  <2>1. MayRemove(db, call, id, n)
    BY NewKeysUnused, CallerKeys DEF MayRemove, IInv
  <2>2. Outcome(db, call, id) = Edit(db, call)
    BY DEF Outcome
  <2> QED
    BY <2>1, <2>2, RemovalSucceeds
<1> QED
  BY <1>1, CanvasInvariance, PTL
=============================================================================
