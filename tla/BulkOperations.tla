---------------------------- MODULE BulkOperations ----------------------------
(***************************************************************************)
(* DataBulk: a reviewed list of record mutations.  A preview carries the   *)
(* mutations out in a write transaction that it rolls back, and returns a  *)
(* digest; execute previews again, compares the digests, and carries the   *)
(* mutations out in another write transaction.                             *)
(*                                                                         *)
(* A write transaction is one step here and the other callers of the       *)
(* engine are the atomic store: RecordTransactions shows that the engine   *)
(* implements it.  Nobody else uses a key that is derived from a bulk key. *)
(***************************************************************************)
EXTENDS ReviewedChanges

CONSTANTS
  BulkRequests,   \* what the processes review and execute
  TxKey(_)        \* derivedTransactionKey

\* The transaction that a bulk request executes.
TransactionOf(b) ==
  [kind |-> "transaction", key |-> TxKey(b.key), actor |-> b.actor,
   ops |-> b.ops, adds |-> NoAdds]

ReviewedItems ==
  [rec : Ids \cup {Nil}, schemaVersion : Nat, before : Nat, after : Nat,
   deleted : BOOLEAN]

Digests == [actor : Actors, ops : Seq(Mutations), items : Seq(ReviewedItems)]

BulkEntries ==
  [bulk : BulkRequests, digest : Digests, result : Results, receipt : Nat]

ASSUME BulkAssumption ==
  /\ BulkRequests \subseteq [key : Keys, actor : Actors, ops : Seq(Mutations)]
  /\ \A b \in BulkRequests : Acceptable(TransactionOf(b))
  /\ \A b1, b2 \in BulkRequests : TxKey(b1.key) = TxKey(b2.key) => b1.key = b2.key
  /\ \A b \in BulkRequests, s \in Submissions :
       TxKey(b.key) \notin {s.key} \cup {s.ops[n].key : n \in 1..Len(s.ops)}
  /\ \A b1, b2 \in BulkRequests :
       TxKey(b1.key) \notin {b2.ops[n].key : n \in 1..Len(b2.ops)}
  /\ Nil \notin BulkEntries

VARIABLES
  bulks,    \* the idempotency entries of bulk requests
  digests,  \* the digests previews have returned
  pc,       \* where each process stands in execute
  call,     \* the request and the digest it executes
  reply     \* the result each process last returned

vars == <<store, bulks, digests, pc, call, reply>>

(***************************************************************************)
(* A bulk request and its digest.                                          *)
(***************************************************************************)
KeysDistinct(b) ==
  \A i, j \in 1..Len(b.ops) : b.ops[i].key = b.ops[j].key => i = j

\* assertBulkKeySeparation.
KeysSeparate(b) ==
  /\ KeysDistinct(b)
  /\ \A i \in 1..Len(b.ops) : b.ops[i].key \notin {b.key, TxKey(b.key)}

Item(m, snapshot) ==
  [rec           |-> IF m.op = "data.record.create" THEN Nil ELSE m.rec,
   schemaVersion |-> snapshot.row.schemaVersion,
   before        |-> m.expected,
   after         |-> snapshot.row.version,
   deleted       |-> snapshot.row.deleted]

Items(ops, snapshots) == [n \in 1..Len(ops) |-> Item(ops[n], snapshots[n])]

Digest(b, snapshots) ==
  [actor |-> b.actor, ops |-> b.ops, items |-> Items(b.ops, snapshots)]

\* The ways the request's mutations can go: one for each choice of records.
\* The ledger that a nested mutation consults holds the bulk keys as well.
BulkOutcomes(b) ==
  {o \in Outcomes(store, TransactionOf(b), Len(store.events) + 1) :
     \A n \in 1..Len(b.ops) : bulks[b.ops[n].key] = Nil}

\* The records a preview creates do not show in its digest.
Previews(b) == {Digest(b, o.snapshots) : o \in BulkOutcomes(b)}

(***************************************************************************)
(* The idempotency ledger.                                                 *)
(***************************************************************************)
Unbound(k) == Fresh(store, k) /\ bulks[k] = Nil

IsReplay(p) ==
  LET entry == bulks[call[p].bulk.key]
  IN  entry # Nil /\ entry.bulk = call[p].bulk /\ entry.digest = call[p].digest

\* Mutant: the stored result is compared with the records as they are now.
VerifiedLive(entry) ==
  /\ Replays(store, TxKey(entry.bulk.key), "data.transaction.execute",
             TransactionOf(entry.bulk))
  /\ \A n \in 1..Len(entry.result.snapshots) :
       LET snapshot == entry.result.snapshots[n]
       IN  store.records[snapshot.rec] = snapshot.row

\* verifyReplay: the transaction's entry and receipt are as stored.
Verified(entry) ==
  LET k  == TxKey(entry.bulk.key)
  IN  /\ Replays(store, k, "data.transaction.execute", TransactionOf(entry.bulk))
      /\ store.idem[k].result = entry.result
      /\ entry.receipt \in ReceiptsFor(store, k)

(***************************************************************************)
(* DataBulk.preview.                                                       *)
(***************************************************************************)
NoCall == [bulk |-> Nil, digest |-> Nil]

TypeOK ==
  /\ store \in Images
  /\ bulks \in [Keys -> BulkEntries \cup {Nil}]
  /\ \A k \in Keys : bulks[k] # Nil =>
       /\ bulks[k].bulk.key = k
       /\ bulks[k].digest \in digests
       /\ bulks[k].receipt \in 1..Len(store.events)
  /\ digests \subseteq Digests
  /\ pc \in [Procs -> {"idle", "prepare", "preview", "commit"}]
  /\ call \in [Procs -> [bulk : BulkRequests \cup {Nil}, digest : Digests \cup {Nil}]]
  /\ \A p \in Procs : pc[p] # "idle" =>
       call[p].bulk \in BulkRequests /\ call[p].digest \in digests

Init ==
  /\ store = EmptyImage(BaseSchema)
  /\ bulks = [k \in Keys |-> Nil]
  /\ digests = {}
  /\ pc = [p \in Procs |-> "idle"]
  /\ call = [p \in Procs |-> NoCall]
  /\ reply = [p \in Procs |-> Nil]

\* Mutant: the preview's transaction is committed.
ReviewKept(p) ==
  /\ pc[p] = "idle"
  /\ \E b \in BulkRequests : \E o \in BulkOutcomes(b) :
       /\ KeysDistinct(b)
       /\ store' = o.image
       /\ digests' = digests \cup {Digest(b, o.snapshots)}
  /\ UNCHANGED <<bulks, pc, call, reply>>

Review(p) ==
  /\ pc[p] = "idle"
  /\ \E b \in BulkRequests :
       /\ KeysDistinct(b)
       /\ \E d \in Previews(b) : digests' = digests \cup {d}
  /\ UNCHANGED <<store, bulks, pc, call, reply>>

(***************************************************************************)
(* DataBulk.execute: the ledger is read outside any transaction; then the  *)
(* preview, a transaction that is rolled back; then the one that commits,  *)
(* which reads the ledger again.                                           *)
(***************************************************************************)
Goto(p, loc) == pc' = [pc EXCEPT ![p] = loc]

Return(p, value) ==
  /\ Goto(p, "idle")
  /\ call' = [call EXCEPT ![p] = NoCall]
  /\ reply' = [reply EXCEPT ![p] = value]

Execute(p) ==
  /\ pc[p] = "idle"
  /\ \E b \in BulkRequests, d \in digests :
       /\ KeysSeparate(b)
       /\ call' = [call EXCEPT ![p] = [bulk |-> b, digest |-> d]]
  /\ Goto(p, "prepare")
  /\ reply' = [reply EXCEPT ![p] = Nil]
  /\ UNCHANGED <<store, bulks, digests>>

PrepareFresh(p) ==
  /\ pc[p] = "prepare"
  /\ Unbound(call[p].bulk.key)
  /\ Goto(p, "preview")
  /\ UNCHANGED <<store, bulks, digests, call, reply>>

\* The replay of a bulk result, whichever of the two reads of the ledger
\* finds it.
Replay(p) ==
  /\ pc[p] \in {"prepare", "commit"}
  /\ IsReplay(p)
  /\ Verified(bulks[call[p].bulk.key])
  /\ Return(p, bulks[call[p].bulk.key])
  /\ UNCHANGED <<store, bulks, digests>>

\* Mutant: the digests are not compared.
NeverStale(p) == TRUE

\* The digest of the second preview is the one the caller reviewed.
StillAsReviewed(p) == call[p].digest \in Previews(call[p].bulk)

PreviewAgain(p) ==
  /\ pc[p] = "preview"
  /\ StillAsReviewed(p)
  /\ Goto(p, "commit")
  /\ UNCHANGED <<store, bulks, digests, call, reply>>

\* The entry of a bulk request after its transaction made image d.
Entry(p, d) ==
  LET k == TxKey(call[p].bulk.key)
  IN  [bulk    |-> call[p].bulk,
       digest  |-> call[p].digest,
       result  |-> d.idem[k].result,
       receipt |-> CHOOSE i \in ReceiptsFor(d, k) : TRUE]

CommitBulk(p) ==
  LET bulk == call[p].bulk
  IN  /\ pc[p] = "commit"
      /\ Unbound(bulk.key)
      /\ Unbound(TxKey(bulk.key))
      /\ \E o \in BulkOutcomes(bulk) :
           store' = Closed(o.image, TransactionOf(bulk), Len(store.events) + 1,
                           o.children, o.snapshots)
      /\ bulks' = [bulks EXCEPT ![bulk.key] = Entry(p, store')]
      /\ Return(p, bulks'[bulk.key])
      /\ UNCHANGED digests

\* A conflict on a key, a failing mutation, BULK_PREVIEW_STALE, a lock that
\* stays taken, the quarantine marker, or the end of the process: the
\* transaction that was open, if any, is rolled back.
Fail(p) ==
  /\ pc[p] # "idle"
  /\ Return(p, Nil)
  /\ UNCHANGED <<store, bulks, digests>>

\* The other callers find the bulk keys in the ledger.
Others ==
  /\ store' \in Requested(store, Submissions, Evolutions)
  /\ \A k \in Keys : bulks[k] # Nil => store'.idem[k] = Nil
  /\ UNCHANGED <<bulks, digests, pc, call, reply>>

Next ==
  \/ \E p \in Procs :
       \/ Review(p) \/ Execute(p) \/ PrepareFresh(p) \/ Replay(p)
       \/ PreviewAgain(p) \/ CommitBulk(p) \/ Fail(p)
  \/ Others

Spec == Init /\ [][Next]_vars

(***************************************************************************)
(* Properties.                                                             *)
(***************************************************************************)
Bound == {k \in Keys : bulks[k] # Nil}

ItemsOf(entry) == Items(entry.bulk.ops, entry.result.snapshots)

\* The part of the review that holds to the commit: the same mutations by the
\* same actor, on the records and versions reviewed, under the schema version
\* reviewed or a later one.
CommittedAsReviewedButSchema ==
  \A k \in Bound :
    LET done     == ItemsOf(bulks[k])
        reviewed == bulks[k].digest.items
    IN  /\ bulks[k].digest.actor = bulks[k].bulk.actor
        /\ bulks[k].digest.ops = bulks[k].bulk.ops
        /\ \A n \in 1..Len(done) :
             /\ done[n].schemaVersion >= reviewed[n].schemaVersion
             /\ [done[n] EXCEPT !.schemaVersion = reviewed[n].schemaVersion]
                  = reviewed[n]

\* A bulk key is bound exactly when its transaction is in the log (a crash or a
\* race between two executions neither loses the key nor commits twice), and
\* the replay of a bound key passes its verification, however the records have
\* changed since.  The types are the first conjunct.
ReplaysVerify ==
  /\ TypeOK
  /\ \A b \in BulkRequests :
       bulks[b.key] = Nil <=> ReceiptsFor(store, TxKey(b.key)) = {}
  /\ \A k \in Bound : Verified(bulks[k])

\* Bulk changes the database as the transactions it wraps do, and previews do
\* not change it at all.
Atomic ==
  INSTANCE AtomicStore
    WITH Submissions <- Submissions \cup {TransactionOf(b) : b \in BulkRequests}

ImplementsAtomicStore == Atomic!Spec
===============================================================================
