-------------------------- MODULE RecordTransactions --------------------------
(***************************************************************************)
(* Callers in several processes that mutate one database.                  *)
(*                                                                         *)
(* Every mutation runs inside better-sqlite3's transaction().immediate():  *)
(* it takes SQLite's single write lock before it reads, works on an image  *)
(* nobody else sees, and publishes that image in one step.  Other          *)
(* processes, a crash or the quarantine marker may come between any two    *)
(* of its steps.  After COMMIT, the ...WithReceipt methods read the        *)
(* receipt in a transaction of its own.                                    *)
(***************************************************************************)
EXTENDS PortableState

CONSTANTS
  Procs,             \* processes with an open handle on the database
  Submissions,       \* the requests callers submit, and resubmit
  Evolutions,        \* the field additions catalog callers submit
  BaseSchema         \* the entity's first schema version

ASSUME EngineAssumption ==
  /\ AcceptableCalls(Submissions, Evolutions, BaseSchema)
  /\ Nil \notin Procs

VARIABLES
  db,           \* the committed image
  work,         \* the image of the open write transaction
  lock,         \* the process that holds the write lock, or Nil
  txn,          \* what the open write transaction has done so far
  quarantined,  \* the .quarantine.json marker exists
  pc,           \* where each process stands
  req,          \* the request each process is serving
  seen,         \* the schema version and definition a catalog caller has read
  reply         \* what each process last told its caller

vars == <<db, work, lock, txn, quarantined, pc, req, seen, reply>>

Locations == {"idle", "waiting", "body", "commit", "receipt",
              "schema", "store", "publish"}

NoTxn == [next |-> 1, id |-> 0, refs |-> [c \in Markers |-> Nil],
          children |-> <<>>, snapshots |-> <<>>]

Txns ==
  [next      : Nat \ {0},
   id        : Nat,
   refs      : [Markers -> Ids \cup {Nil}],
   children  : Seq(Nat),
   snapshots : Seq(Snapshots)]

Replies == [req : Submissions, result : Results, receipt : Nat]

NoSeen == [version |-> 0, schema |-> NoAdds]

TypeOK ==
  /\ db \in Images
  /\ work \in Images
  /\ lock \in Procs \cup {Nil}
  /\ txn \in Txns
  /\ quarantined \in BOOLEAN
  /\ pc \in [Procs -> Locations]
  /\ req \in [Procs -> Submissions \cup {Nil}]
  /\ seen \in [Procs -> [version : Nat, schema : Schemas]]
  /\ reply \in [Procs -> Replies \cup {Nil}]

Init ==
  /\ db = EmptyImage(BaseSchema)
  /\ work = EmptyImage(BaseSchema)
  /\ lock = Nil
  /\ txn = NoTxn
  /\ quarantined = FALSE
  /\ pc = [p \in Procs |-> "idle"]
  /\ req = [p \in Procs |-> Nil]
  /\ seen = [p \in Procs |-> NoSeen]
  /\ reply = [p \in Procs |-> Nil]

(***************************************************************************)
(* A call, and the ways it ends before it has the lock.                    *)
(***************************************************************************)
Goto(p, loc) == pc' = [pc EXCEPT ![p] = loc]

\* The call throws; the handle is free for the next one.
Throw(p) ==
  /\ Goto(p, "idle")
  /\ req' = [req EXCEPT ![p] = Nil]

\* The write lock is free again and the private image is gone.
Release ==
  /\ lock' = Nil
  /\ txn' = NoTxn
  /\ work' = db'

Call(p) ==
  /\ pc[p] = "idle"
  /\ \E r \in Submissions : req' = [req EXCEPT ![p] = r]
  /\ Goto(p, "waiting")
  /\ reply' = [reply EXCEPT ![p] = Nil]
  /\ UNCHANGED <<db, work, lock, txn, quarantined, seen>>

\* The keys are compared, and the marker file read, before BEGIN.
Refuse(p) ==
  /\ pc[p] = "waiting"
  /\ ~WellKeyed(req[p]) \/ quarantined
  /\ Throw(p)
  /\ UNCHANGED <<db, work, lock, txn, quarantined, seen, reply>>

\* SQLITE_BUSY: another process kept the lock for the busy timeout.
Busy(p) ==
  /\ pc[p] = "waiting"
  /\ lock # Nil
  /\ Throw(p)
  /\ UNCHANGED <<db, work, lock, txn, quarantined, seen, reply>>

(***************************************************************************)
(* BEGIN IMMEDIATE and DataIdempotency.prepare under the lock.             *)
(***************************************************************************)
MayBegin(p) ==
  /\ pc[p] = "waiting"
  /\ lock = Nil
  /\ ~quarantined
  /\ WellKeyed(req[p])

\* A transaction identifier is new: no committed event has it.
FreshTxn == [next |-> 1, id |-> Len(db.events) + 1,
             refs |-> [c \in Markers |-> Nil],
             children |-> <<>>, snapshots |-> <<>>]

BeginFresh(p) ==
  /\ MayBegin(p)
  /\ Fresh(db, req[p].key)
  /\ lock' = p
  /\ work' = db
  /\ txn' = FreshTxn
  /\ Goto(p, "body")
  /\ UNCHANGED <<db, quarantined, req, seen, reply>>

\* The stored result is returned; the transaction commits nothing.
BeginReplay(p) ==
  /\ MayBegin(p)
  /\ Replays(db, req[p].key, OperationOf(req[p]), req[p])
  /\ Goto(p, "receipt")
  /\ UNCHANGED <<db, work, lock, txn, quarantined, req, seen, reply>>

BeginConflict(p) ==
  /\ MayBegin(p)
  /\ ~Fresh(db, req[p].key)
  /\ ~Replays(db, req[p].key, OperationOf(req[p]), req[p])
  /\ Throw(p)
  /\ UNCHANGED <<db, work, lock, txn, quarantined, seen, reply>>

(***************************************************************************)
(* The body of the transaction, one mutation at a time.  Every table write *)
(* reads the marker file again.                                            *)
(***************************************************************************)
TxOf(p) == IF req[p].kind = "record" THEN 0 ELSE txn.id

NextMutation(p) == Resolved(work, req[p].ops[txn.next], txn.refs)

MoreMutations(p) == txn.next <= Len(req[p].ops)

\* Mutant: a clientRef may be bound twice.
SucceedsWithAnyName(p, r) ==
  /\ Resolvable(work, req[p].ops[txn.next], txn.refs)
  /\ MayMutate(work, NextMutation(p), r)

\* The mutation the body is at would succeed on record r.
Succeeds(p, r) ==
  /\ Resolvable(work, req[p].ops[txn.next], txn.refs)
  /\ ClientRefFree(req[p].ops[txn.next], txn.refs)
  /\ MayMutate(work, NextMutation(p), r)

\* The transaction after its next mutation made image d, on record r.
Advanced(p, r, d) ==
  [next      |-> txn.next + 1,
   id        |-> txn.id,
   refs      |-> Bind(txn.refs, req[p].ops[txn.next], r),
   children  |-> Append(txn.children, Len(d.events)),
   snapshots |-> Append(txn.snapshots, [rec |-> r, row |-> d.records[r]])]

\* Mutant: the marker is read only before the transaction.
RunUnguardedMutation(p) ==
  /\ pc[p] = "body"
  /\ lock = p
  /\ MoreMutations(p)
  /\ \E r \in Ids :
       /\ Succeeds(p, r)
       /\ work' = Mutated(work, NextMutation(p), r, req[p].actor, TxOf(p))
       /\ txn' = Advanced(p, r, work')
  /\ Goto(p, IF req[p].kind = "record" THEN "commit" ELSE "body")
  /\ UNCHANGED <<db, lock, quarantined, req, seen, reply>>

RunMutation(p) ==
  /\ pc[p] = "body"
  /\ lock = p
  /\ MoreMutations(p)
  /\ ~quarantined
  /\ \E r \in Ids :
       /\ Succeeds(p, r)
       /\ work' = Mutated(work, NextMutation(p), r, req[p].actor, TxOf(p))
       /\ txn' = Advanced(p, r, work')
  /\ Goto(p, IF req[p].kind = "record" THEN "commit" ELSE "body")
  /\ UNCHANGED <<db, lock, quarantined, req, seen, reply>>

\* After the last nested mutation: the transaction's event and entry.
CloseTransaction(p) ==
  /\ pc[p] = "body"
  /\ lock = p
  /\ req[p].kind = "transaction"
  /\ ~MoreMutations(p)
  /\ ~quarantined
  /\ Fresh(work, req[p].key)
  /\ work' = Closed(work, req[p], txn.id, txn.children, txn.snapshots)
  /\ Goto(p, "commit")
  /\ UNCHANGED <<db, lock, txn, quarantined, req, seen, reply>>

EnsureStructure(p) ==
  /\ pc[p] = "body"
  /\ lock = p
  /\ req[p].kind = "ensure"
  /\ ~quarantined
  /\ Fresh(work, req[p].key)
  /\ MayEnsure(work, req[p])
  /\ work' = Ensured(work, req[p], txn.id)
  /\ Goto(p, "commit")
  /\ UNCHANGED <<db, lock, txn, quarantined, req, seen, reply>>

\* Mutant: the marker, found in the body, is not an error.
BodyFailsUnmarked(p) ==
  \/ /\ req[p].kind # "ensure"
     /\ MoreMutations(p)
     /\ \A r \in Ids : ~Succeeds(p, r)
  \/ req[p].kind = "ensure" /\ ~MayEnsure(work, req[p])

BodyFails(p) ==
  \/ quarantined
  \/ /\ req[p].kind # "ensure"
     /\ MoreMutations(p)
     /\ \A r \in Ids : ~Succeeds(p, r)
  \/ req[p].kind = "ensure" /\ ~MayEnsure(work, req[p])

\* Mutant: what the body did before it failed stays.
RollbackKeepingWork(p) ==
  /\ pc[p] = "body"
  /\ lock = p
  /\ BodyFails(p)
  /\ db' = work
  /\ Release
  /\ Throw(p)
  /\ UNCHANGED <<quarantined, seen, reply>>

\* An exception in the body: ROLLBACK discards the private image.
Rollback(p) ==
  /\ pc[p] = "body"
  /\ lock = p
  /\ BodyFails(p)
  /\ UNCHANGED db
  /\ Release
  /\ Throw(p)
  /\ UNCHANGED <<quarantined, seen, reply>>

\* COMMIT does not read the marker.
Commit(p) ==
  /\ pc[p] = "commit"
  /\ lock = p
  /\ db' = work
  /\ Release
  /\ Goto(p, "receipt")
  /\ UNCHANGED <<quarantined, req, seen, reply>>

(***************************************************************************)
(* createWithReceipt, updateWithReceipt, softDeleteWithReceipt,            *)
(* executeWithReceipt: the receipt is read after the commit.               *)
(***************************************************************************)
ReadReceipt(p) ==
  /\ pc[p] = "receipt"
  /\ \E i \in ReceiptsFor(db, req[p].key) :
       reply' = [reply EXCEPT ![p] =
                  [req |-> req[p], result |-> db.idem[req[p].key].result,
                   receipt |-> i]]
  /\ Goto(p, "idle")
  /\ req' = [req EXCEPT ![p] = Nil]
  /\ UNCHANGED <<db, work, lock, txn, quarantined, seen>>

(***************************************************************************)
(* DataCatalog.updateSchema: the current version is read and the next      *)
(* definition computed outside any transaction.  The store then reads the  *)
(* marker file once and opens a transaction of its own, which compares the *)
(* version again and does not read the marker.                             *)
(***************************************************************************)
ReadSchema(p) ==
  /\ pc[p] = "idle"
  /\ \E adds \in Evolutions :
       /\ MayAddFields(CurrentSchema(db), adds)
       /\ seen' = [seen EXCEPT ![p] =
                     [version |-> SchemaVersion(db),
                      schema  |-> WithFields(CurrentSchema(db), adds)]]
  /\ Goto(p, "schema")
  /\ reply' = [reply EXCEPT ![p] = Nil]
  /\ UNCHANGED <<db, work, lock, txn, quarantined, req>>

CheckWritable(p) ==
  /\ pc[p] = "schema"
  /\ ~quarantined
  /\ Goto(p, "store")
  /\ UNCHANGED <<db, work, lock, txn, quarantined, req, seen, reply>>

\* Mutant: the version is not compared in the storing transaction.
WriteSchemaBlindly(p) ==
  /\ pc[p] = "store"
  /\ lock = Nil
  /\ lock' = p
  /\ work' = Evolved(db, seen[p].schema)
  /\ Goto(p, "publish")
  /\ UNCHANGED <<db, txn, quarantined, req, seen, reply>>

\* A deferred transaction: the lock is taken by its first UPDATE, which fails
\* if anything was committed after the SELECT that compared the version.
WriteSchema(p) ==
  /\ pc[p] = "store"
  /\ lock = Nil
  /\ SchemaVersion(db) = seen[p].version
  /\ lock' = p
  /\ work' = Evolved(db, seen[p].schema)
  /\ Goto(p, "publish")
  /\ UNCHANGED <<db, txn, quarantined, req, seen, reply>>

CommitSchema(p) ==
  /\ pc[p] = "publish"
  /\ lock = p
  /\ db' = work
  /\ Release
  /\ seen' = [seen EXCEPT ![p] = NoSeen]
  /\ Goto(p, "idle")
  /\ UNCHANGED <<quarantined, req, reply>>

\* The marker, SCHEMA_VERSION_CONFLICT, or a lock that stays taken.
SchemaFails(p) ==
  /\ \/ pc[p] = "schema" /\ quarantined
     \/ pc[p] = "store" /\ (SchemaVersion(db) # seen[p].version \/ lock # Nil)
  /\ Throw(p)
  /\ seen' = [seen EXCEPT ![p] = NoSeen]
  /\ UNCHANGED <<db, work, lock, txn, quarantined, reply>>

(***************************************************************************)
(* The environment: a process dies and comes back; an integrity check in   *)
(* some process writes the marker, which nothing in the engine removes.    *)
(***************************************************************************)
Crash(p) ==
  /\ pc[p] # "idle"
  /\ Throw(p)
  /\ UNCHANGED db
  /\ IF lock = p THEN Release ELSE UNCHANGED <<work, lock, txn>>
  /\ seen' = [seen EXCEPT ![p] = NoSeen]
  /\ UNCHANGED <<quarantined, reply>>

MarkQuarantined ==
  /\ ~quarantined
  /\ quarantined' = TRUE
  /\ UNCHANGED <<db, work, lock, txn, pc, req, seen, reply>>

Serve(p) ==
  \/ Refuse(p) \/ Busy(p)
  \/ BeginFresh(p) \/ BeginReplay(p) \/ BeginConflict(p)
  \/ RunMutation(p) \/ CloseTransaction(p) \/ EnsureStructure(p)
  \/ Rollback(p) \/ Commit(p) \/ ReadReceipt(p)
  \/ CheckWritable(p) \/ WriteSchema(p) \/ CommitSchema(p) \/ SchemaFails(p)

Next ==
  \/ \E p \in Procs : Call(p) \/ ReadSchema(p) \/ Serve(p) \/ Crash(p)
  \/ MarkQuarantined

Spec == Init /\ [][Next]_vars

(***************************************************************************)
(* better-sqlite3 is synchronous: a process that is serving a call keeps   *)
(* going until the call returns or the process dies.                       *)
(***************************************************************************)
FairSpec == Spec /\ \A p \in Procs : WF_vars(Serve(p))
(***************************************************************************)
(* Properties.                                                             *)
(***************************************************************************)
\* No committed reference dangles, and the relation index says exactly what
\* the records' data say under the schema version each was written with: the
\* index is what softDelete consults, so a stale row would let a target go or
\* keep it for ever.
ReferentialIntegrity == RelationsExact(db) /\ NoDangling(db)

\* Every stored record still validates against its persisted schema version,
\* whatever fields were added, defaulted or written as unknown ones since:
\* otherwise every read of it throws DATABASE_CORRUPT.
RecordsHydrate == Hydrates(db)

\* The events of a record are its history: one per version, in order, none
\* missing, each written by a caller that had named the version before it, so
\* no accepted update was overwritten by another that had read the same one.
NoLostUpdate == VersionsLogged(db)

\* A key that is bound has exactly one event with its receipt, of the same
\* operation and actor, for the record and the version its stored result
\* shows; a key that is not bound has none.
KeysMatchReceipts == LedgerMatchesLog(db)

\* A committed transaction is one contiguous block of the log: its children
\* in order and then its own event, which lists exactly them.
TransactionsContiguous == BlocksWhole(db)

\* What a caller was told is what the database holds, also when the receipt
\* is read long after the commit, or the result comes from a replay.
RepliesAreDurable ==
  \A p \in Procs : reply[p] # Nil =>
    LET k == reply[p].req.key
    IN  /\ db.idem[k] # Nil
        /\ db.idem[k].fp = reply[p].req
        /\ db.idem[k].result = reply[p].result
        /\ db.events[reply[p].receipt].key = k

\* A later schema version declares every field an earlier one declared, with
\* the same definition, although the next definition is computed from a
\* version read outside the transaction that stores it.
SchemasOnlyGrow == AdditiveSchemas(db)

\* At any moment the database can be backed up, exported and diagnosed as
\* healthy, and its export be imported: whatever its callers have created,
\* linked, deleted and declared, collectPortableState has nothing to object to
\* and materializePortableState makes the same database again.
PortableStates == Portable(db)

\* A step of the system may extend the log, bind unbound keys, move a record
\* forward and add schema versions.  It never rewrites an event, rebinds a
\* key, revives a deleted record or lowers a version.
HistoryIsKept == [][Extends(db, db')]_db

\* The calls that have read the marker file for the last time.
PastTheMarker == {p \in Procs : pc[p] \in {"commit", "store", "publish"}}

\* Once the marker is there writing dies out, through every handle: no call
\* gets past its last look at the marker any more, only a call that had may
\* still publish, once, what its transaction has written, and only a schema
\* update that had may still write its version into its transaction.
QuarantineHolds ==
  [][quarantined =>
       /\ PastTheMarker' \subseteq PastTheMarker
       /\ db' # db => db' = work /\ PastTheMarker' # PastTheMarker
       /\ work' \notin {work, db'} =>
            \E p \in PastTheMarker : work' = Evolved(db, seen[p].schema)]_vars

\* Whatever the interleaving, the crashes and the retries, the committed image
\* changes only by one whole request at a time, carried out on the image the
\* one before it left: the code is an implementation of the atomic store.
Atomic == INSTANCE AtomicStore WITH store <- db

ImplementsAtomicStore == Atomic!Spec

\* A call ends: with a reply, with an error, or with its process.
CallsEnd == \A p \in Procs : pc[p] # "idle" ~> pc[p] = "idle"
==============================================================================
