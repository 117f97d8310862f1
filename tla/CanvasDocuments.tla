-------------------------- MODULE CanvasDocuments --------------------------
(***************************************************************************)
(* Canvas documents and their history.  Every version of a document that   *)
(* Canvas makes or replaces is archived as a revision, a record of its own *)
(* that is written in the transaction of the change, under a key derived   *)
(* from document and version.                                              *)
(*                                                                         *)
(* A call is one immediate transaction of the database: it happens as a    *)
(* whole or, when it fails or its process dies, not at all.  Any call may  *)
(* be submitted again at any time.  Other clients of the database may      *)
(* write documents too, and documents may be older than their history.     *)
(*                                                                         *)
(* The texts, labels and positions of a board are left out.  The record    *)
(* engine is that of RecordTransactions, as far as Canvas uses it.         *)
(***************************************************************************)
EXTENDS Naturals, Sequences, FiniteSets

CONSTANTS
  Ids,         \* record ids of documents
  Names,       \* ids of notes, edges and groups
  Titles,      \* titles
  Actors,      \* who is admitted to write
  Keys,        \* idempotency keys of callers
  NewKey,      \* a key no caller has used
  Edits,       \* the edits callers ask for
  Boards,      \* the boards that other clients write
  MaxNodes,    \* limits of a board
  MaxEdges,
  MaxGroups,
  MaxVersion,  \* a bound: the versions of a document
  Nil          \* no value

VARIABLES
  db,       \* documents, revisions and idempotency ledger
  made,     \* history: the versions there have been
  answers   \* history: what the calls that took effect were answered

vars == <<db, made, answers>>

Versions == 1..MaxVersion

ASSUME CanvasAssumption ==
  /\ MaxNodes \in Nat /\ MaxEdges \in Nat /\ MaxGroups \in Nat
  /\ MaxVersion \in Nat \ {0}
  /\ Nil \notin Ids
  /\ NewKey \notin Keys

(***************************************************************************)
(* Boards.                                                                 *)
(***************************************************************************)
BoardValues ==
  [nodes : SUBSET Names, edges : SUBSET [id : Names, from : Names, to : Names],
   groups : SUBSET [id : Names, members : SUBSET Names]]

EmptyBoard == [nodes |-> {}, edges |-> {}, groups |-> {}]

AtMost(set, limit) == IsFiniteSet(set) /\ Cardinality(set) <= limit

EdgeIds(b)  == {e.id : e \in b.edges}
GroupIds(b) == {g.id : g \in b.groups}

ValidEdges(b) ==
  /\ AtMost(b.edges, MaxEdges)
  /\ \A e \in b.edges : e.from # e.to /\ {e.from, e.to} \subseteq b.nodes
  /\ \A e, f \in b.edges : e.id = f.id => e = f

ValidGroups(b) ==
  /\ AtMost(b.groups, MaxGroups)
  /\ GroupIds(b) \cap (b.nodes \cup EdgeIds(b)) = {}
  /\ \A g \in b.groups : g.members \subseteq b.nodes /\ Cardinality(g.members) >= 2
  /\ \A g, h \in b.groups : g # h => g.id # h.id /\ g.members \cap h.members = {}

\* boardValue.
ValidBoard(b) ==
  /\ b \in BoardValues
  /\ AtMost(b.nodes, MaxNodes)
  /\ ValidEdges(b)
  /\ ValidGroups(b)

(***************************************************************************)
(* Edits: when one is carried out, and the board it makes.                 *)
(***************************************************************************)
MayEdit(b, e) ==
  \/ /\ e.type = "note.add"
     /\ Cardinality(b.nodes) < MaxNodes
     /\ e.id \notin b.nodes \cup EdgeIds(b)
  \/ /\ e.type \in {"note.move", "note.text", "note.remove"}
     /\ e.id \in b.nodes
  \/ /\ e.type = "edge.add"
     /\ Cardinality(b.edges) < MaxEdges
     /\ e.id \notin b.nodes \cup EdgeIds(b)
     /\ e.from # e.to
     /\ {e.from, e.to} \subseteq b.nodes
  \/ /\ e.type = "edge.remove"
     /\ e.id \in EdgeIds(b)
  \/ /\ e.type = "group.create"
     /\ Cardinality(b.groups) < MaxGroups
     /\ e.id \notin b.nodes \cup EdgeIds(b) \cup GroupIds(b)
  \/ /\ e.type \in {"group.rename", "group.members", "group.move", "group.remove"}
     /\ e.id \in GroupIds(b)

\* Mutant: a group that loses a note stays, however small.
WithoutNoteOnly(b, n) ==
  [nodes  |-> b.nodes \ {n},
   edges  |-> {e \in b.edges : n \notin {e.from, e.to}},
   groups |-> {[g EXCEPT !.members = @ \ {n}] : g \in b.groups}]

\* A note leaves with its edges; a group of one note dissolves.
WithoutNote(b, n) ==
  [nodes  |-> b.nodes \ {n},
   edges  |-> {e \in b.edges : n \notin {e.from, e.to}},
   groups |-> {g \in {[h EXCEPT !.members = @ \ {n}] : h \in b.groups} :
                 Cardinality(g.members) >= 2}]

Group(e) == [id |-> e.id, members |-> e.members]

Edited(b, e) ==
  CASE e.type = "note.add"      -> [b EXCEPT !.nodes = @ \cup {e.id}]
    [] e.type = "note.remove"   -> WithoutNote(b, e.id)
    [] e.type = "edge.add"      -> [b EXCEPT !.edges = @ \cup
                                      {[id |-> e.id, from |-> e.from, to |-> e.to]}]
    [] e.type = "edge.remove"   -> [b EXCEPT !.edges = {x \in @ : x.id # e.id}]
    [] e.type = "group.create"  -> [b EXCEPT !.groups = @ \cup {Group(e)}]
    [] e.type = "group.members" -> [b EXCEPT !.groups =
                                      {x \in @ : x.id # e.id} \cup {Group(e)}]
    [] e.type = "group.remove"  -> [b EXCEPT !.groups = {x \in @ : x.id # e.id}]
    [] OTHER                    -> b

ASSUME BoardsAssumption == \A b \in Boards : ValidBoard(b)

(***************************************************************************)
(* The database, and the outcome of a part of a transaction on it.         *)
(***************************************************************************)
Documents ==
  [version : Versions, title : Titles, board : BoardValues,
   createdBy : Actors, updatedBy : Actors, deleted : BOOLEAN]

ASSUME DocumentsAssumption == Nil \notin Documents

View(d, id) ==
  [id |-> id, version |-> d.docs[id].version,
   title |-> d.docs[id].title, board |-> d.docs[id].board]

Live(d, id) == d.docs[id] # Nil /\ ~d.docs[id].deleted

Failed(d)       == [ok |-> FALSE, db |-> d, result |-> Nil]
Done(d, result) == [ok |-> TRUE, db |-> d, result |-> result]

\* prepare and complete around what is done once: an earlier result under the
\* key is the answer if it is that of the same request by the same actor.
Once(d, key, request, fresh) ==
  IF \E e \in d.ledger : e.key = key
    THEN LET entry == CHOOSE e \in d.ledger : e.key = key
         IN  IF entry.request = request THEN Done(d, entry.result) ELSE Failed(d)
    ELSE IF fresh.ok
      THEN Done([fresh.db EXCEPT !.ledger =
                   @ \cup {[key |-> key, request |-> request, result |-> fresh.result]}],
                fresh.result)
      ELSE Failed(d)

\* DataRecords.create, update and softDelete of documents.
RecordCreate(d, key, actor, content, id) ==
  LET after == [d EXCEPT !.docs[id] =
                  [version |-> 1, title |-> content.title, board |-> content.board,
                   createdBy |-> actor, updatedBy |-> actor, deleted |-> FALSE]]
  IN  Once(d, key, [op |-> "data.record.create", actor |-> actor, content |-> content],
           IF d.docs[id] = Nil THEN Done(after, View(after, id)) ELSE Failed(d))

RecordUpdate(d, key, actor, id, expected, content) ==
  LET new   == [d.docs[id] EXCEPT !.version = @ + 1, !.title = content.title,
                                  !.board = content.board, !.updatedBy = actor]
      after == [d EXCEPT !.docs[id] = new]
  IN  Once(d, key,
           [op |-> "data.record.update", actor |-> actor, id |-> id,
            expected |-> expected, content |-> content],
           IF Live(d, id) /\ d.docs[id].version = expected /\ expected < MaxVersion
             THEN Done(after, View(after, id)) ELSE Failed(d))

RecordDelete(d, key, actor, id, expected) ==
  LET new   == [d.docs[id] EXCEPT !.version = @ + 1, !.updatedBy = actor,
                                  !.deleted = TRUE]
      after == [d EXCEPT !.docs[id] = new]
  IN  Once(d, key,
           [op |-> "data.record.delete", actor |-> actor, id |-> id, expected |-> expected],
           IF Live(d, id) /\ d.docs[id].version = expected /\ expected < MaxVersion
             THEN Done(after, View(after, id)) ELSE Failed(d))

(***************************************************************************)
(* Revisions.                                                              *)
(***************************************************************************)
\* The keys Canvas derives: a caller's own is none of them.
ArchivalKey(id, version) == <<"canvas.revision", id, version>>
IntentKey(key) == <<"canvas.edit.intent", key>>
CopyKey(key)   == <<"canvas.duplicate.record", key>>
RevertKey(key) == <<"canvas.revert.record", key>>

ArchivalKeys == {ArchivalKey(id, v) : id \in Ids, v \in Versions}
DerivedKeys(keys) ==
  {IntentKey(k) : k \in keys} \cup {CopyKey(k) : k \in keys}
    \cup {RevertKey(k) : k \in keys}

ASSUME KeysAssumption ==
  LET keys == Keys \cup {NewKey}
  IN  keys \cap (ArchivalKeys \cup DerivedKeys(keys)) = {}

Snapshots == [id : Ids, version : Versions, title : Titles, board : BoardValues]
Revisions == [document : Snapshots, actor : Actors]

Revision(document, actor) == [document |-> document, actor |-> actor]

\* The version archived is the one the document has, by who made it.
Archive(d, document) ==
  LET actor == d.docs[document.id].updatedBy
  IN  IF Live(d, document.id) /\ View(d, document.id) = document
        THEN Once(d, ArchivalKey(document.id, document.version),
                  Revision(document, actor),
                  Done([d EXCEPT !.revisions = Append(@, Revision(document, actor))], Nil))
        ELSE Failed(d)

\* getCanvasRevisionRecords.
Matching(d, id, version) ==
  {i \in 1..Len(d.revisions) :
     d.revisions[i].document.id = id /\ d.revisions[i].document.version = version}

(***************************************************************************)
(* Calls.                                                                  *)
(***************************************************************************)
Content(title, board) == [title |-> title, board |-> board]

Create(d, c, id) ==
  LET saved    == RecordCreate(d, c.key, c.actor, Content(c.title, EmptyBoard), id)
      archived == Archive(saved.db, saved.result)
  IN  IF saved.ok /\ archived.ok THEN Done(archived.db, saved.result) ELSE Failed(d)

\* Mutant: the version that is replaced is not archived.
PatchForward(d, c, key, content) ==
  LET saved == RecordUpdate(d, key, c.actor, c.id, c.expected, content)
      after == Archive(saved.db, saved.result)
  IN  IF /\ Live(d, c.id)
         /\ d.docs[c.id].version = c.expected
         /\ saved.ok
         /\ after.ok
      THEN Done(after.db, saved.result) ELSE Failed(d)

\* The version that is replaced and the one that replaces it are archived.
Patch(d, c, key, content) ==
  LET before == Archive(d, View(d, c.id))
      saved  == RecordUpdate(before.db, key, c.actor, c.id, c.expected, content)
      after  == Archive(saved.db, saved.result)
  IN  IF /\ Live(d, c.id)
         /\ d.docs[c.id].version = c.expected
         /\ before.ok
         /\ saved.ok
         /\ after.ok
      THEN Done(after.db, saved.result) ELSE Failed(d)

Rename(d, c) ==
  IF Live(d, c.id) THEN Patch(d, c, c.key, Content(c.title, d.docs[c.id].board))
  ELSE Failed(d)

EditOnce(d, c) ==
  IF /\ Live(d, c.id)
     /\ MayEdit(d.docs[c.id].board, c.edit)
     /\ ValidBoard(Edited(d.docs[c.id].board, c.edit))
    THEN Patch(d, c, c.key,
               Content(d.docs[c.id].title, Edited(d.docs[c.id].board, c.edit)))
    ELSE Failed(d)

\* Mutant: the edit is tried before the retry is recognised.
EditFirst(d, c) ==
  IF EditOnce(d, c).ok THEN Once(d, IntentKey(c.key), c, EditOnce(d, c))
  ELSE Failed(d)

\* The retry of an edit is recognised before the board is looked at.
Edit(d, c) == Once(d, IntentKey(c.key), c, EditOnce(d, c))

Duplicate(d, c, id) ==
  LET copied   == RecordCreate(d, CopyKey(c.key), c.actor,
                               Content(c.title, d.docs[c.id].board), id)
      archived == Archive(copied.db, copied.result)
  IN  Once(d, c.key, c,
           IF /\ Live(d, c.id)
              /\ d.docs[c.id].version = c.expected
              /\ copied.ok
              /\ archived.ok
           THEN Done(archived.db, copied.result) ELSE Failed(d))

\* Mutant: only versions before the previous one are looked for.
RevertibleEarlier(d, c) ==
  /\ c.toVersion + 1 < d.docs[c.id].version
  /\ Cardinality(Matching(d, c.id, c.toVersion)) = 1

Revertible(d, c) ==
  /\ c.toVersion < d.docs[c.id].version
  /\ Cardinality(Matching(d, c.id, c.toVersion)) = 1

\* A revert makes a new version.
Revert(d, c) ==
  LET source == d.revisions[CHOOSE i \in Matching(d, c.id, c.toVersion) : TRUE].document
      saved  == Patch(d, c, RevertKey(c.key),
                      Content(source.title, source.board))
  IN  Once(d, c.key, c, IF Live(d, c.id) /\ Revertible(d, c) THEN saved ELSE Failed(d))

Delete(d, c) ==
  LET before == Archive(d, View(d, c.id))
  IN  IF Live(d, c.id) /\ d.docs[c.id].version = c.expected /\ before.ok
        THEN RecordDelete(before.db, c.key, c.actor, c.id, c.expected)
        ELSE Failed(d)

\* Another client of the database updates the record.
Other(d, c) ==
  RecordUpdate(d, c.key, c.actor, c.id, c.expected, Content(c.title, c.board))

\* The call c on d; a document it creates gets the record id new.
Outcome(d, c, new) ==
  CASE c.op = "create"    -> Create(d, c, new)
    [] c.op = "rename"    -> Rename(d, c)
    [] c.op = "edit"      -> Edit(d, c)
    [] c.op = "duplicate" -> Duplicate(d, c, new)
    [] c.op = "revert"    -> Revert(d, c)
    [] c.op = "delete"    -> Delete(d, c)
    [] c.op = "other"     -> Other(d, c)

Calls ==
  [op : {"create"}, key : Keys, actor : Actors, title : Titles]
    \cup [op : {"rename", "duplicate"}, key : Keys, actor : Actors,
          id : Ids, expected : Versions, title : Titles]
    \cup [op : {"edit"}, key : Keys, actor : Actors,
          id : Ids, expected : Versions, edit : Edits]
    \cup [op : {"revert"}, key : Keys, actor : Actors,
          id : Ids, expected : Versions, toVersion : Versions]
    \cup [op : {"delete"}, key : Keys, actor : Actors, id : Ids, expected : Versions]
    \cup [op : {"other"}, key : Keys, actor : Actors,
          id : Ids, expected : Versions, title : Titles, board : Boards]

(***************************************************************************)
(* The specification.                                                      *)
(***************************************************************************)
\* The version a document has in d, and the kind of call that made it.
Version(d, id, op) ==
  [id |-> id, version |-> d.docs[id].version, title |-> d.docs[id].title,
   board |-> d.docs[id].board, actor |-> d.docs[id].updatedBy, op |-> op]

\* Documents that are older than the history.
Older ==
  {x \in [version : {1}, title : Titles, board : Boards,
          createdBy : Actors, updatedBy : Actors, deleted : {FALSE}] :
     x.createdBy = x.updatedBy}

Init ==
  /\ \E first \in [Ids -> {Nil} \cup Older] :
       /\ Cardinality({id \in Ids : first[id] # Nil}) <= 1
       /\ db = [docs |-> first, revisions |-> << >>, ledger |-> {}]
       /\ made = {Version(db, id, "other") : id \in {i \in Ids : first[i] # Nil}}
  /\ answers = {}

Call(c, new) ==
  LET o       == Outcome(db, c, new)
      changed == {id \in Ids : o.db.docs[id] # db.docs[id]}
  IN  /\ o.ok
      /\ o.db # db
      /\ db' = o.db
      /\ made' = made \cup {Version(o.db, id, c.op) : id \in changed}
      /\ answers' = answers \cup {[call |-> c, result |-> o.result]}

Next == \E c \in Calls, new \in Ids : Call(c, new)

Spec == Init /\ [][Next]_vars

(***************************************************************************)
(* Properties.                                                             *)
(***************************************************************************)
\* Type correctness: every document has a valid board, which the history, the
\* next edit and every list of documents depend on.
TypeOK ==
  /\ db.docs \in [Ids -> Documents \cup {Nil}]
  /\ db.revisions \in Seq(Revisions)
  /\ \A id \in Ids : db.docs[id] # Nil => ValidBoard(db.docs[id].board)
  /\ \A i \in 1..Len(db.revisions) : ValidBoard(db.revisions[i].document.board)

\* A revision is a version the document has had, with the actor who made that
\* version and not the one whose call archived it ("the archival actor belongs
\* to the version being archived").
RevisionsAreTrue ==
  \A i \in 1..Len(db.revisions) :
    LET r == db.revisions[i] IN
    \E m \in made : /\ m.id = r.document.id /\ m.version = r.document.version
                    /\ m.title = r.document.title /\ m.board = r.document.board
                    /\ m.actor = r.actor

\* No version is lost to the history: each that Canvas made, and each that
\* Canvas replaced or deleted, whoever made it, has its revision.
NothingForgotten ==
  \A m \in made :
    (\/ m.op \notin {"other", "delete"}
     \/ \E n \in made : n.id = m.id /\ n.version = m.version + 1 /\ n.op # "other")
      => Matching(db, m.id, m.version) # {}

\* A history can be read: no version has two revisions, on which a page of the
\* history and a revert fail.
HistoryReadable ==
  \A i, j \in 1..Len(db.revisions) :
    (/\ db.revisions[i].document.id = db.revisions[j].document.id
     /\ db.revisions[i].document.version = db.revisions[j].document.version) => i = j

\* The history is faithful: what is in it was, all that was is in it, and it can
\* be read, although each version is archived by whichever call makes or
\* replaces it, under a key of its own.
HistoryFaithful == RevisionsAreTrue /\ NothingForgotten /\ HistoryReadable

\* A call that took effect is not carried out again when it is submitted again,
\* whatever has happened since.  An edit, a duplication and a revert are given
\* their first result, a creation is while nobody has changed the document.
RetriesAnswered ==
  \A a \in answers, new \in Ids :
    LET o == Outcome(db, a.call, new) IN
    /\ o.db = db
    /\ o.ok => o.result = a.result
    /\ (\/ a.call.op \in {"edit", "duplicate", "revert"}
        \/ a.call.op = "create" /\ View(db, a.result.id) = a.result) => o.ok

\* A live document can go back to every older version that was archived, and the
\* revert makes a new version: nothing that was made on the way is lost.
CanGoBack ==
  \A i \in 1..Len(db.revisions) :
    LET then == db.revisions[i].document
        now  == db.docs[then.id]
        call == [op |-> "revert", key |-> NewKey, actor |-> now.updatedBy, id |-> then.id,
                 expected |-> now.version, toVersion |-> then.version]
    IN  (~now.deleted /\ then.version < now.version /\ now.version < MaxVersion) =>
          LET o == Outcome(db, call, then.id) IN
          /\ o.ok
          /\ o.result = [then EXCEPT !.version = now.version + 1]
          /\ Matching(o.db, then.id, now.version) # {}

\* However long a document is edited, reverted and copied, its board is valid
\* (which the history, the next edit and every list of documents depend on), and
\* no note is stuck on it: its edges go with it and a group it leaves too small
\* dissolves, so that what is left is a valid board.
BoardsStayEditable ==
  /\ TypeOK
  /\ \A id \in {i \in Ids : Live(db, i)} : \A n \in db.docs[id].board.nodes :
       LET call == [op |-> "edit", key |-> NewKey, actor |-> db.docs[id].updatedBy,
                    id |-> id, expected |-> db.docs[id].version,
                    edit |-> [type |-> "note.remove", id |-> n]]
       IN  db.docs[id].version < MaxVersion => Outcome(db, call, id).ok
=============================================================================
