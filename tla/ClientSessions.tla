--------------------------- MODULE ClientSessions ---------------------------
(***************************************************************************)
(* What the clients of a database get from it over several calls, while    *)
(* others write: creation by natural key and its retries, the pages of a   *)
(* query, the pages of an event feed, and the evidence that the Memory     *)
(* bridge puts together from two reads.                                    *)
(*                                                                         *)
(* The writers are the callers of the atomic store, one whole request at a *)
(* time.  Readers change nothing, so that one of them is enough: observer  *)
(* says which.  A cursor is what it decodes to: an offset or a position of *)
(* the log, and the fingerprint of the filter.  Sort keys are left out: a  *)
(* query without any returns its records in the order of their ids.        *)
(***************************************************************************)
EXTENDS DataStore, FiniteSets

CONSTANTS
  Submissions,  \* the requests of the other callers
  Evolutions,   \* the field additions of the other callers
  BaseSchema,   \* the entity's first schema version
  Admissions,   \* the creations by natural key
  Order,        \* the record ids in their order
  Queries,      \* queries: [field, value, includeDeleted, limit]
  Feeds,        \* event subscriptions: [rec, ops, limit]
  Window        \* how many events of a record the bridge looks at

ASSUME ClientAssumption ==
  /\ AcceptableCalls(Submissions, Evolutions, BaseSchema)
  /\ Admissions \subseteq [create : Mutations, actor : Actors, field : Fields]
  /\ \A n \in Admissions :
       /\ n.create.op = "data.record.create"
       /\ n.create.expected = 0
       /\ n.create.data[n.field] \in Ids
  /\ Order \in Seq(Ids)
  /\ \A r \in Ids : \E i \in 1..Len(Order) : Order[i] = r
  /\ \A i, j \in 1..Len(Order) : Order[i] = Order[j] => i = j
  /\ \A q \in Queries : q.limit \in Nat \ {0}
  /\ \A f \in Feeds : f.limit \in Nat \ {0}
  /\ \A f, g \in Feeds : f.rec = g.rec => f = g
  /\ Window \in Nat
  /\ Nil \notin Nat

VARIABLES
  store,     \* the committed image
  admitted,  \* history: what creations by natural key were answered
  observer,  \* which reader there is
  scan,      \* the query being paged through, and what happened meanwhile
  feed,      \* the cursor kept for each subscription, and the events delivered
  evidence   \* the last lookup of the bridge

vars == <<store, admitted, observer, scan, feed, evidence>>

Smallest(s) == CHOOSE x \in s : \A y \in s : x <= y
Greatest(s) == CHOOSE x \in s : \A y \in s : x >= y

\* The n smallest positions of a set, all of them when there are fewer.
First(n, s) == {x \in s : Cardinality({y \in s : y < x}) < n}

(***************************************************************************)
(* Creation by natural key: lookup and creation in one transaction.        *)
(***************************************************************************)
\* Mutant: nobody is found.
NoHolders(d, field, v) == {}

Holders(d, field, v) == {r \in Ids : Active(d, r) /\ d.records[r].data[field] = v}

\* Mutant: whoever holds the natural key is the answer.
AnyReceipt(d, key, r) == TRUE

\* The key's receipt is that of the creation of r.
ReceiptNames(d, key, r) ==
  \E i \in ReceiptsFor(d, key) :
    d.events[i].op = "data.record.create" /\ d.events[i].rec = r

Refused(d)        == [ok |-> FALSE, image |-> d, rec |-> Nil]
Answered(d, r)    == [ok |-> TRUE, image |-> d, rec |-> r]

\* createRecordByNaturalKey: its outcome, when a new record gets the id new.
Admission(d, n, new) ==
  LET m     == n.create
      found == Holders(d, n.field, m.data[n.field])
  IN  IF CurrentSchema(d)[n.field] = Undeclared THEN Refused(d)
      ELSE CASE found = {} /\ Replays(d, m.key, m.op, AsRequest(m, n.actor)) ->
                  Answered(d, d.idem[m.key].result.snapshots[1].rec)
             [] found = {} /\ MayMutate(d, m, new) ->
                  Answered(Mutated(d, m, new, n.actor, 0), new)
             [] Cardinality(found) = 1 /\ \A r \in found : ReceiptNames(d, m.key, r) ->
                  Answered(d, CHOOSE r \in found : TRUE)
             [] OTHER -> Refused(d)

(***************************************************************************)
(* Query pages.                                                            *)
(***************************************************************************)
\* The records a query finds, each as its place in the order.
Found(d, q) ==
  {i \in 1..Len(Order) :
     LET row == d.records[Order[i]]
     IN  /\ row # Nil
         /\ q.includeDeleted \/ ~row.deleted
         /\ q.value # Nil => row.data[q.field] = q.value}

HasMore(d, q, offset) == Cardinality(Found(d, q)) > offset + q.limit

\* Mutant: the record read to know whether there are more is returned.
PageAndNext(d, q, offset) ==
  First(offset + q.limit + 1, Found(d, q)) \ First(offset, Found(d, q))

Page(d, q, offset) ==
  First(offset + q.limit, Found(d, q)) \ First(offset, Found(d, q))

NextOffset(q, offset) == offset + q.limit

NoScan == [at |-> "closed"]

\* What it has got, how many records that were, and how many entered or left
\* the result while those that are steady were in it all the time.
OpenScan(d, q) ==
  [at |-> "open", query |-> q, offset |-> 0, got |-> {}, returned |-> 0,
   steady |-> Found(d, q), left |-> 0, entered |-> 0]

\* History: what a write means for the scan under way.
Watched(s, before, after) ==
  IF s.at # "open" THEN s
  ELSE LET old == Found(before, s.query)
           now == Found(after, s.query)
       IN  [s EXCEPT !.steady  = @ \cap now,
                     !.left    = @ + Cardinality(old \ now),
                     !.entered = @ + Cardinality(now \ old)]

(***************************************************************************)
(* Event pages.                                                            *)
(***************************************************************************)
\* The events that listEvents finds for the feed's filter after a position;
\* the operations are compared only when the page has been read.
InScope(d, f, after) ==
  {i \in 1..Len(d.events) : i > after /\ (f.rec # Nil => d.events[i].rec = f.rec)}

EventPage(d, f, after) == First(f.limit, InScope(d, f, after))

Deliverable(d, f) == {i \in InScope(d, f, 0) : d.events[i].op \in f.ops}

\* Mutant: a cursor is taken whatever its filter.
AnyCursor(cursor, f) == TRUE

\* decodeEventCursor.
CursorFits(cursor, f) == cursor.rec = f.rec

\* Mutant: the cursor is that of the last event that is delivered.
CursorAtDelivered(d, f, after) ==
  Greatest({after} \cup (EventPage(d, f, after) \cap Deliverable(d, f)))

NextCursor(d, f, after) == Greatest(EventPage(d, f, after))

(***************************************************************************)
(* Evidence of the Memory bridge.                                          *)
(***************************************************************************)
NoEvidence ==
  [at |-> "none", by |-> "event", event |-> 0, key |-> Nil, known |-> FALSE,
   rec |-> Nil, version |-> 0, receipt |-> Nil]

\* Mutant: the receipt is that of the record's last event on the page.
ReceiptOfLast(d, i) ==
  LET page == First(Window, EventsOf(d, d.events[i].rec))
  IN  IF page = {} THEN Nil ELSE Greatest(page)

\* The event is looked for among the first events of its record.
ReceiptOfEvent(d, i) ==
  IF i \in First(Window, EventsOf(d, d.events[i].rec)) THEN i ELSE Nil

(***************************************************************************)
(* The specification.                                                      *)
(***************************************************************************)
\* Type correctness: what is remembered between two calls fits the database.
TypeOK ==
  /\ \A a \in admitted : a.n \in Admissions /\ a.rec \in Ids
  /\ \A f \in Feeds :
       /\ feed[f].cursor.after \in 0..Len(store.events)
       /\ feed[f].delivered \subseteq Deliverable(store, f)
  /\ evidence.at = "answered" => evidence.receipt \in {Nil} \cup 1..Len(store.events)

Init ==
  /\ store = EmptyImage(BaseSchema)
  /\ admitted = {}
  /\ observer \in {"query", "events", "memory"}
  /\ scan = NoScan
  /\ feed = [f \in Feeds |-> [cursor |-> [after |-> 0, rec |-> f.rec], delivered |-> {}]]
  /\ evidence = NoEvidence

\* Another caller's request.
Write ==
  /\ store' \in Requested(store, Submissions, Evolutions)
  /\ store' # store
  /\ scan' = Watched(scan, store, store')
  /\ UNCHANGED <<admitted, observer, feed, evidence>>

CreateByNaturalKey(n, new) ==
  LET o == Admission(store, n, new)
  IN  /\ o.ok
      /\ store' = o.image
      /\ admitted' = admitted \cup {[n |-> n, rec |-> o.rec]}
      /\ scan' = Watched(scan, store, store')
      /\ UNCHANGED <<observer, feed, evidence>>

StartQuery(q) ==
  /\ observer = "query"
  /\ scan.at = "closed"
  /\ scan' = OpenScan(store, q)
  /\ UNCHANGED <<store, admitted, observer, feed, evidence>>

ReadPage ==
  /\ observer = "query"
  /\ scan.at = "open"
  /\ LET q    == scan.query
         page == Page(store, q, scan.offset)
         s    == [scan EXCEPT !.got = @ \cup page, !.returned = @ + Cardinality(page)]
     IN  scan' = IF HasMore(store, q, scan.offset)
                   THEN [s EXCEPT !.offset = NextOffset(q, @)]
                   ELSE [s EXCEPT !.at = "done"]
  /\ UNCHANGED <<store, admitted, observer, feed, evidence>>

\* A poll of f with the cursor that was kept for g.  At the end of the log there
\* is no cursor: the poller keeps its own, or starts from the beginning.
Poll(f, g) ==
  /\ observer = "events"
  /\ LET cursor == feed[g].cursor IN
     /\ IF cursor.after = 0 THEN f = g ELSE CursorFits(cursor, f)
     /\ \E next \in IF EventPage(store, f, cursor.after) = InScope(store, f, cursor.after)
                      THEN {0, feed[f].cursor.after}
                      ELSE {NextCursor(store, f, cursor.after)} :
          feed' = [feed EXCEPT
            ![f] = [cursor    |-> [after |-> next, rec |-> f.rec],
                    delivered |-> @.delivered \cup
                      (EventPage(store, f, cursor.after) \cap Deliverable(store, f))]]
  /\ UNCHANGED <<store, admitted, observer, scan, evidence>>

\* The first read of a lookup: of a reference that names an event, or of a
\* record for which the caller has a key.
LookUpEvent(i) ==
  /\ observer = "memory"
  /\ evidence.at # "record"
  /\ store.events[i].rec # Nil
  /\ Active(store, store.events[i].rec)
  /\ evidence' = [NoEvidence EXCEPT
                    !.at = "record", !.by = "event", !.event = i, !.known = TRUE,
                    !.rec = store.events[i].rec,
                    !.version = store.records[store.events[i].rec].version]
  /\ UNCHANGED <<store, admitted, observer, scan, feed>>

LookUpKey(k, r) ==
  /\ observer = "memory"
  /\ evidence.at # "record"
  /\ Active(store, r)
  /\ evidence' = [NoEvidence EXCEPT
                    !.at = "record", !.by = "key", !.key = k,
                    !.known = (ReceiptsFor(store, k) # {}),
                    !.rec = r, !.version = store.records[r].version]
  /\ UNCHANGED <<store, admitted, observer, scan, feed>>

\* The second read; a key without a receipt is an error.
LookUpReceipt ==
  /\ observer = "memory"
  /\ evidence.at = "record"
  /\ evidence' =
       IF evidence.by = "event"
         THEN [evidence EXCEPT !.at = "answered",
                               !.receipt = ReceiptOfEvent(store, evidence.event)]
         ELSE IF ReceiptsFor(store, evidence.key) = {} THEN NoEvidence
         ELSE [evidence EXCEPT !.at = "answered",
                               !.receipt = Smallest(ReceiptsFor(store, evidence.key))]
  /\ UNCHANGED <<store, admitted, observer, scan, feed>>

Next ==
  \/ Write
  \/ \E n \in Admissions, new \in Ids : CreateByNaturalKey(n, new)
  \/ \E q \in Queries : StartQuery(q)
  \/ ReadPage
  \/ \E f, g \in Feeds : Poll(f, g)
  \/ \E i \in 1..Len(store.events) : LookUpEvent(i)
  \/ \E k \in Keys, r \in Ids : LookUpKey(k, r)
  \/ LookUpReceipt

Spec == Init /\ [][Next]_vars

\* A subscriber goes on polling; nobody is made to write or to ask.
FairSpec == Spec /\ \A f \in Feeds : WF_vars(Poll(f, f))

(***************************************************************************)
(* Properties.                                                             *)
(***************************************************************************)
\* What the other callers may leave in a field: what their mutations hold, the
\* records their clientRefs stand for, and the field's defaults.
OthersHold(field) ==
  {m.data[field] : m \in UNION {{s.ops[i] : i \in 1..Len(s.ops)} : s \in Submissions}}

Defaults(field) ==
  {schema[field].default :
     schema \in {c \in {BaseSchema} \cup Evolutions \cup {s.adds : s \in Submissions} :
                  c[field] # Undeclared}}

OthersWrite(field) ==
  OthersHold(field) \cup Defaults(field)
    \cup {r \in Ids : OthersHold(field) \cap Markers # {}}

\* The values of a field that only creations by natural key write, and those
\* only as the key.
OwnedValues(field) ==
  {n.create.data[field] : n \in {m \in Admissions : m.field = field}}
    \ ({n.create.data[field] : n \in {m \in Admissions : m.field # field}}
          \cup OthersWrite(field))

\* Competing creations by natural key leave one active record for a value, as
\* long as nobody else writes that value ("competing writers cannot both observe
\* absence and commit separate canonical rows for the same semantic identity").
OneRecordPerNaturalKey ==
  \A n \in Admissions : \A v \in OwnedValues(n.field) :
    \A r, t \in Ids :
      (/\ Active(store, r) /\ store.records[r].data[n.field] = v
       /\ Active(store, t) /\ store.records[t].data[n.field] = v) => r = t

\* A creation by natural key that was answered is never carried out again,
\* whatever has become of its record since: its retry changes nothing, and gets
\* the same record or is refused.
AdmissionsRepeatable ==
  \A a \in admitted, new \in Ids :
    LET o == Admission(store, a.n, new) IN
    /\ o.image = store
    /\ o.ok => o.rec = a.rec

\* Pages are cut from the live table, so writes between them shift the rest; but
\* a query that was read to its end missed at most as many of the records that
\* matched all the time as others left the result, and returned at most as many
\* twice as entered it.  With no such write it is exact.  (A query that goes on
\* has not got past the last place.)
PagingLosesOnlyToWrites ==
  /\ scan.at = "open" =>
       scan.query \in Queries /\ (scan.offset = 0 \/ scan.offset < Len(Order))
  /\ scan.at = "done" =>
       /\ Cardinality(scan.steady \ scan.got) <= scan.left
       /\ scan.returned - Cardinality(scan.got) <= scan.entered

\* A subscriber never jumps over an event: all that match up to its cursor, and
\* up to the last one it was given, have been delivered.  (What is remembered
\* between two calls is of its type.)
FeedsLoseNothing ==
  /\ TypeOK
  /\ \A f \in Feeds : \A i \in Deliverable(store, f) :
       (i <= feed[f].cursor.after \/ \E j \in feed[f].delivered : i < j)
         => i \in feed[f].delivered

\* The record and the receipt that the bridge pairs are read one after the
\* other.  The receipt found for an event is one of the record, and is not of a
\* later version than the record shown; by key, that needs that the key had its
\* receipt before the lookup began.  An event reference comes back without its
\* receipt only when the record has a history longer than the page of events
\* the bridge looks at.
EvidenceBelongs ==
  evidence.at = "answered" =>
    IF evidence.receipt = Nil
      THEN evidence.by = "event" => Cardinality(EventsOf(store, evidence.rec)) > Window
      ELSE LET e == store.events[evidence.receipt] IN
           /\ evidence.by = "event" => e.rec = evidence.rec
           /\ (e.rec = evidence.rec /\ e.after > evidence.version) => ~evidence.known

\* Every event reaches each subscription that asks for it, if its subscriber
\* goes on polling, whatever is written meanwhile.
EventsArrive ==
  \A i \in 1..Cardinality(Keys) :
    (observer = "events" /\ i <= Len(store.events)) ~>
      \A f \in Feeds : i \in Deliverable(store, f) => i \in feed[f].delivered
=============================================================================
