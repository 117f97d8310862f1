----------------------- MODULE RecordTransactionsProofs -----------------------
(***************************************************************************)
(* Theorems about RecordTransactions, for every set of processes, records, *)
(* keys, requests and schema evolutions.                                   *)
(***************************************************************************)
EXTENDS RecordTransactions, DataStoreProofs

(***************************************************************************)
(* The inductive invariant.  The private image is as sound as the          *)
(* committed one and only extends it; a process serves a submitted         *)
(* request; only the lock holder is inside a write transaction; a process  *)
(* that is about to commit a request, or has, has bound its key.           *)
(***************************************************************************)
Serving(p) == pc[p] \in {"waiting", "body", "commit", "receipt"}

CallsInOrder ==
  \A p \in Procs :
    /\ Serving(p) => req[p] \in Submissions
    /\ pc[p] \in {"body", "commit", "publish"} => lock = p
    /\ pc[p] = "commit" => ~Fresh(work, req[p].key)
    /\ pc[p] = "receipt" => ~Fresh(db, req[p].key)

ImagesInOrder == Sound(db) /\ Sound(work) /\ Extends(db, work)

IInv == TypeOK /\ CallsInOrder /\ ImagesInOrder

LEMMA SubmissionType ==
  ASSUME NEW r \in Submissions
  PROVE  /\ r \in Requests
         /\ r.key \in Keys
         /\ r.actor \in Actors
         /\ r.ops \in Seq(Mutations)
         /\ r.adds \in Schemas
  BY EngineAssumption DEF Requests, AcceptableCalls, Acceptable

LEMMA InitInv == Init => IInv
<1> SUFFICES ASSUME Init PROVE IInv
  OBVIOUS
<1>1. NoTxn \in Txns
  BY DEF NoTxn, Txns
<1>2. NoSeen \in [version : Nat, schema : Schemas]
  BY DEF NoSeen, NoAdds, Schemas
<1>3. BaseSchema \in Schemas
  BY EngineAssumption DEF AcceptableCalls
<1>4. TypeOK
  BY <1>1, <1>2, <1>3, EmptyImageSound DEF Init, TypeOK, Locations
<1>5. CallsInOrder
  BY DEF Init, CallsInOrder, Serving
<1>6. ImagesInOrder
  BY <1>3, EmptyImageSound, ExtendsReflexive DEF Init, ImagesInOrder
<1> QED
  BY <1>4, <1>5, <1>6 DEF IInv

(***************************************************************************)
(* Steps that leave both images, the lock and the open transaction alone.  *)
(***************************************************************************)
LEMMA LocalStep ==
  ASSUME IInv, NEW p \in Procs,
         UNCHANGED <<db, work, lock, txn>>,
         quarantined' \in BOOLEAN,
         NEW loc \in Locations \ {"body", "commit", "publish"}, Goto(p, loc),
         NEW r \in Submissions \cup {Nil}, req' = [req EXCEPT ![p] = r],
         loc = "waiting" => r \in Submissions,
         loc = "receipt" => r \in Submissions /\ ~Fresh(db, r.key),
         seen' \in [Procs -> [version : Nat, schema : Schemas]],
         reply' \in [Procs -> Replies \cup {Nil}]
  PROVE  IInv'
<1>1. TypeOK'
  BY DEF IInv, TypeOK, Goto
<1>2. CallsInOrder'
  <2> SUFFICES ASSUME NEW q \in Procs
               PROVE  /\ Serving(q)' => req'[q] \in Submissions
                      /\ pc'[q] \in {"body", "commit", "publish"} => lock' = q
                      /\ pc'[q] = "commit" => ~Fresh(work', req'[q].key)
                      /\ pc'[q] = "receipt" => ~Fresh(db', req'[q].key)
    BY DEF CallsInOrder
  <2>1. CASE q = p
    BY <2>1 DEF IInv, TypeOK, Goto, Serving, Locations
  <2>2. CASE q # p
    BY <2>2 DEF IInv, TypeOK, CallsInOrder, Goto, Serving
  <2> QED
    BY <2>1, <2>2
<1>3. ImagesInOrder'
  BY DEF IInv, ImagesInOrder
<1> QED
  BY <1>1, <1>2, <1>3 DEF IInv

LEMMA CallInv == ASSUME IInv, NEW p \in Procs, Call(p) PROVE IInv'
<1>1. PICK r \in Submissions : req' = [req EXCEPT ![p] = r]
  BY DEF Call
<1>2. reply' \in [Procs -> Replies \cup {Nil}]
  BY DEF Call, IInv, TypeOK
<1>3. /\ Goto(p, "waiting")
      /\ UNCHANGED <<db, work, lock, txn>>
      /\ quarantined' \in BOOLEAN
      /\ seen' \in [Procs -> [version : Nat, schema : Schemas]]
      /\ "waiting" \in Locations \ {"body", "commit", "publish"}
  BY DEF Call, IInv, TypeOK, Locations
<1> QED
  BY <1>1, <1>2, <1>3, LocalStep

LEMMA ThrowInv ==
  ASSUME IInv, NEW p \in Procs, Throw(p),
         UNCHANGED <<db, work, lock, txn, quarantined, reply>>,
         seen' = seen \/ seen' = [seen EXCEPT ![p] = NoSeen]
  PROVE  IInv'
<1>1. NoSeen \in [version : Nat, schema : Schemas]
  BY DEF NoSeen, NoAdds, Schemas
<1>2. seen' \in [Procs -> [version : Nat, schema : Schemas]]
  BY <1>1 DEF IInv, TypeOK
<1>3. /\ Goto(p, "idle")
      /\ req' = [req EXCEPT ![p] = Nil]
      /\ quarantined' \in BOOLEAN
      /\ reply' \in [Procs -> Replies \cup {Nil}]
      /\ "idle" \in Locations \ {"body", "commit", "publish"}
  BY DEF Throw, IInv, TypeOK, Locations
<1> QED
  BY <1>2, <1>3, LocalStep

LEMMA BeginReplayInv == ASSUME IInv, NEW p \in Procs, BeginReplay(p) PROVE IInv'
<1>1. pc[p] = "waiting" /\ ~Fresh(db, req[p].key)
  BY DEF BeginReplay, MayBegin, Replays, Fresh
<1>2. req[p] \in Submissions /\ req' = [req EXCEPT ![p] = req[p]]
  BY <1>1 DEF BeginReplay, IInv, TypeOK, CallsInOrder, Serving
<1> QED
  BY <1>1, <1>2, LocalStep DEF BeginReplay, IInv, TypeOK, Locations

LEMMA ReadReceiptInv == ASSUME IInv, NEW p \in Procs, ReadReceipt(p) PROVE IInv'
<1>1. /\ pc[p] = "receipt"
      /\ req[p] \in Submissions
      /\ ~Fresh(db, req[p].key)
  BY DEF ReadReceipt, IInv, CallsInOrder, Serving
<1>2. PICK i \in ReceiptsFor(db, req[p].key) :
        reply' = [reply EXCEPT ![p] =
                    [req |-> req[p], result |-> db.idem[req[p].key].result,
                     receipt |-> i]]
  BY DEF ReadReceipt
<1>3. i \in Nat
  BY <1>2 DEF ReceiptsFor, IInv, TypeOK, Images
<1>4. db.idem[req[p].key].result \in Results
  BY <1>1, SubmissionType DEF IInv, TypeOK, Images, Fresh, Entries
<1>5. reply' \in [Procs -> Replies \cup {Nil}]
  BY <1>1, <1>2, <1>3, <1>4 DEF IInv, TypeOK, Replies
<1>6. /\ Goto(p, "idle")
      /\ req' = [req EXCEPT ![p] = Nil]
      /\ UNCHANGED <<db, work, lock, txn>>
      /\ quarantined' \in BOOLEAN
      /\ seen' \in [Procs -> [version : Nat, schema : Schemas]]
      /\ "idle" \in Locations \ {"body", "commit", "publish"}
  BY DEF ReadReceipt, IInv, TypeOK, Locations
<1> QED
  BY <1>5, <1>6, LocalStep

LEMMA CheckWritableInv == ASSUME IInv, NEW p \in Procs, CheckWritable(p) PROVE IInv'
<1>1. /\ Goto(p, "store")
      /\ req[p] \in Submissions \cup {Nil}
      /\ req' = [req EXCEPT ![p] = req[p]]
      /\ UNCHANGED <<db, work, lock, txn>>
      /\ quarantined' \in BOOLEAN
      /\ seen' \in [Procs -> [version : Nat, schema : Schemas]]
      /\ reply' \in [Procs -> Replies \cup {Nil}]
      /\ "store" \in Locations \ {"body", "commit", "publish"}
  BY DEF CheckWritable, IInv, TypeOK, Locations
<1> QED
  BY <1>1, LocalStep

LEMMA ReadSchemaInv == ASSUME IInv, NEW p \in Procs, ReadSchema(p) PROVE IInv'
<1>1. PICK adds \in Evolutions :
        seen' = [seen EXCEPT ![p] = [version |-> SchemaVersion(db),
                                     schema  |-> WithFields(CurrentSchema(db), adds)]]
  BY DEF ReadSchema
<1>2. adds \in Schemas /\ db \in Images
  BY EngineAssumption DEF IInv, TypeOK, AcceptableCalls, Acceptable
<1>3. /\ SchemaVersion(db) \in Nat
      /\ WithFields(CurrentSchema(db), adds) \in Schemas
  BY <1>2, CurrentSchemaType, WithFieldsType
<1>4. seen' \in [Procs -> [version : Nat, schema : Schemas]]
  BY <1>1, <1>3 DEF IInv, TypeOK
<1>5. reply' \in [Procs -> Replies \cup {Nil}]
  BY DEF ReadSchema, IInv, TypeOK
<1>6. /\ Goto(p, "schema")
      /\ req[p] \in Submissions \cup {Nil}
      /\ req' = [req EXCEPT ![p] = req[p]]
      /\ UNCHANGED <<db, work, lock, txn>>
      /\ quarantined' \in BOOLEAN
      /\ "schema" \in Locations \ {"body", "commit", "publish"}
  BY DEF ReadSchema, IInv, TypeOK, Locations
<1> QED
  BY <1>4, <1>5, <1>6, LocalStep

LEMMA MarkQuarantinedInv == ASSUME IInv, MarkQuarantined PROVE IInv'
  BY DEF MarkQuarantined, IInv, TypeOK, CallsInOrder, Serving, ImagesInOrder,
         Sound, Fresh

(***************************************************************************)
(* The steps of a write transaction.                                       *)
(***************************************************************************)
\* A process with the lock moves its private image on.
LEMMA WorkStep ==
  ASSUME IInv, NEW p \in Procs, pc[p] \in {"waiting", "body", "store"}, lock' = p,
         lock \in {Nil, p},
         UNCHANGED <<db, quarantined, req, seen, reply>>,
         work' \in Images, Sound(work'), Extends(db, work'),
         txn' \in Txns,
         NEW loc \in {"body", "commit", "publish"}, Goto(p, loc),
         pc[p] = "store" => loc = "publish",
         loc = "commit" => ~Fresh(work', req[p].key)
  PROVE  IInv'
<1>1. TypeOK'
  BY DEF IInv, TypeOK, Goto, Locations
<1>2. CallsInOrder'
  <2> SUFFICES ASSUME NEW q \in Procs
               PROVE  /\ Serving(q)' => req'[q] \in Submissions
                      /\ pc'[q] \in {"body", "commit", "publish"} => lock' = q
                      /\ pc'[q] = "commit" => ~Fresh(work', req'[q].key)
                      /\ pc'[q] = "receipt" => ~Fresh(db', req'[q].key)
    BY DEF CallsInOrder
  <2>1. CASE q = p
    BY <2>1 DEF IInv, TypeOK, CallsInOrder, Goto, Serving
  <2>2. CASE q # p
    <3>1. pc[q] \notin {"body", "commit", "publish"}
      BY <2>2, EngineAssumption DEF IInv, CallsInOrder, AcceptableCalls, Acceptable
    <3> QED
      BY <2>2, <3>1 DEF IInv, TypeOK, CallsInOrder, Goto, Serving
  <2> QED
    BY <2>1, <2>2
<1>3. ImagesInOrder'
  BY DEF IInv, ImagesInOrder
<1> QED
  BY <1>1, <1>2, <1>3 DEF IInv

LEMMA BeginFreshInv == ASSUME IInv, NEW p \in Procs, BeginFresh(p) PROVE IInv'
<1>1. FreshTxn \in Txns
  BY DEF FreshTxn, Txns, IInv, TypeOK, Images
<1>2. Extends(db, db)
  BY ExtendsReflexive DEF IInv, TypeOK
<1> QED
  BY <1>1, <1>2, WorkStep DEF BeginFresh, MayBegin, IInv, TypeOK, ImagesInOrder

LEMMA RunMutationInv == ASSUME IInv, NEW p \in Procs, RunMutation(p) PROVE IInv'
<1> DEFINE m == NextMutation(p)
           n == txn.next
<1>1. /\ pc[p] = "body" /\ lock = p
      /\ n <= Len(req[p].ops)
  BY DEF RunMutation, MoreMutations
<1>2. req[p] \in Submissions
  BY <1>1 DEF IInv, CallsInOrder, Serving
<1>3. txn \in Txns /\ work \in Images /\ db \in Images
  BY DEF IInv, TypeOK
<1>4. req[p].ops[n] \in Mutations
  BY <1>1, <1>2, <1>3, SubmissionType DEF Txns
<1>5. PICK r \in Ids : /\ Succeeds(p, r)
                       /\ work' = Mutated(work, m, r, req[p].actor, TxOf(p))
                       /\ txn' = Advanced(p, r, work')
  BY DEF RunMutation
<1>6. m \in Mutations /\ m.key = req[p].ops[n].key
  BY <1>3, <1>4, <1>5, ResolvedType DEF Succeeds, NextMutation, Txns
<1>7. TxOf(p) \in Nat /\ req[p].actor \in Actors
  BY <1>2, <1>3, SubmissionType DEF TxOf, Txns
<1>8. Sound(work) /\ Extends(db, work)
  BY DEF IInv, ImagesInOrder
<1>9. MayMutate(work, m, r)
  BY <1>5 DEF Succeeds
<1> HIDE DEF m
<1>10. /\ work' \in Images
       /\ Sound(work')
       /\ Extends(work, work')
       /\ work'.records[r] \in Rows
       /\ ~Fresh(work', m.key)
  BY <1>3, <1>5, <1>6, <1>7, <1>8, <1>9, MutatedSound
<1>11. Extends(db, work')
  BY <1>3, <1>8, <1>10, ExtendsTransitive
<1>12. txn' \in Txns
  <2>1. Bind(txn.refs, req[p].ops[n], r) \in [Markers -> Ids \cup {Nil}]
    BY <1>3, <1>4, BindType DEF Txns
  <2>2. Append(txn.children, Len(work'.events)) \in Seq(Nat)
    BY <1>3, <1>10 DEF Txns, Images
  <2>3. [rec |-> r, row |-> work'.records[r]] \in Snapshots
    BY <1>10 DEF Snapshots
  <2>4. Append(txn.snapshots, [rec |-> r, row |-> work'.records[r]]) \in Seq(Snapshots)
    BY <1>3, <2>3 DEF Txns
  <2> QED
    BY <1>3, <1>5, <2>1, <2>2, <2>4 DEF Advanced, Txns
<1>13. CASE req[p].kind = "record"
  <2>1. /\ Len(req[p].ops) = 1
        /\ req[p] = AsRequest(req[p].ops[1], req[p].actor)
    BY <1>2, <1>13, EngineAssumption DEF AcceptableCalls, Acceptable
  <2>2. n = 1
    BY <1>1, <1>3, <2>1 DEF Txns
  <2>3. m.key = req[p].key
    BY <1>6, <2>1, <2>2 DEF AsRequest
  <2> QED
    BY <1>1, <1>10, <1>11, <1>12, <1>13, <2>3, WorkStep DEF RunMutation
<1>14. CASE req[p].kind # "record"
  BY <1>1, <1>10, <1>11, <1>12, <1>14, WorkStep DEF RunMutation
<1> QED
  BY <1>13, <1>14

LEMMA CloseTransactionInv ==
  ASSUME IInv, NEW p \in Procs, CloseTransaction(p) PROVE IInv'
<1>1. /\ pc[p] = "body" /\ lock = p
      /\ Fresh(work, req[p].key)
      /\ work' = Closed(work, req[p], txn.id, txn.children, txn.snapshots)
  BY DEF CloseTransaction
<1>2. req[p] \in Requests
  BY <1>1, SubmissionType DEF IInv, CallsInOrder, Serving
<1>3. txn \in Txns /\ work \in Images /\ db \in Images
  BY DEF IInv, TypeOK
<1>4. /\ txn.id \in Nat
      /\ txn.children \in Seq(Nat)
      /\ txn.snapshots \in Seq(Snapshots)
  BY <1>3 DEF Txns
<1>5. Sound(work) /\ Extends(db, work)
  BY DEF IInv, ImagesInOrder
<1>6. work' \in Images /\ Sound(work')
  BY <1>1, <1>2, <1>3, <1>4, <1>5, ClosedSound
<1>7. Extends(work, work')
  BY <1>1, <1>2, <1>3, ClosedExtends
<1>8. ~Fresh(work', req[p].key)
  BY <1>1, <1>2, <1>3, <1>4, ClosedBinds
<1>9. Extends(db, work')
  BY <1>3, <1>5, <1>6, <1>7, ExtendsTransitive
<1> QED
  BY <1>1, <1>3, <1>6, <1>8, <1>9, WorkStep DEF CloseTransaction

LEMMA EnsureStructureInv ==
  ASSUME IInv, NEW p \in Procs, EnsureStructure(p) PROVE IInv'
<1>1. /\ pc[p] = "body" /\ lock = p
      /\ Fresh(work, req[p].key)
      /\ work' = Ensured(work, req[p], txn.id)
  BY DEF EnsureStructure
<1>2. req[p] \in Requests
  BY <1>1, SubmissionType DEF IInv, CallsInOrder, Serving
<1>3. txn \in Txns /\ txn.id \in Nat /\ work \in Images /\ db \in Images
  BY DEF IInv, TypeOK, Txns
<1>4. Sound(work) /\ Extends(db, work)
  BY DEF IInv, ImagesInOrder
<1>5. /\ work' \in Images
      /\ Sound(work')
      /\ Extends(work, work')
      /\ ~Fresh(work', req[p].key)
  BY <1>1, <1>2, <1>3, <1>4, EnsuredSound
<1>6. Extends(db, work')
  BY <1>3, <1>4, <1>5, ExtendsTransitive
<1> QED
  BY <1>1, <1>3, <1>5, <1>6, WorkStep DEF EnsureStructure

\* The lock is given up: the private image is gone, or has become the
\* committed one.
LEMMA ReleaseStep ==
  ASSUME IInv, NEW p \in Procs, lock = p, Release,
         db' = db \/ db' = work,
         UNCHANGED <<quarantined, reply>>,
         seen' \in [Procs -> [version : Nat, schema : Schemas]],
         \/ Throw(p)
         \/ Goto(p, "idle") /\ req' = req
         \/ Goto(p, "receipt") /\ req' = req /\ ~Fresh(db', req[p].key) /\ Serving(p)
  PROVE  IInv'
<1>1. /\ NoTxn \in Txns
      /\ db' \in Images /\ work' = db' /\ lock' = Nil /\ txn' = NoTxn
  BY DEF IInv, TypeOK, Release, NoTxn, Txns
<1>2. TypeOK'
  BY <1>1 DEF IInv, TypeOK, Throw, Goto, Locations
<1>3. \A k \in Keys : ~Fresh(db, k) => ~Fresh(db', k)
  BY DEF IInv, ImagesInOrder, Extends, Fresh
<1>4. CallsInOrder'
  <2> SUFFICES ASSUME NEW q \in Procs
               PROVE  /\ Serving(q)' => req'[q] \in Submissions
                      /\ pc'[q] \in {"body", "commit", "publish"} => lock' = q
                      /\ pc'[q] = "commit" => ~Fresh(work', req'[q].key)
                      /\ pc'[q] = "receipt" => ~Fresh(db', req'[q].key)
    BY DEF CallsInOrder
  <2>1. CASE q = p
    BY <2>1 DEF IInv, TypeOK, CallsInOrder, Throw, Goto, Serving
  <2>2. CASE q # p
    <3>1. pc'[q] = pc[q] /\ req'[q] = req[q]
      BY <2>2 DEF IInv, TypeOK, Throw, Goto
    <3>2. pc[q] \notin {"body", "commit", "publish"}
      BY <2>2 DEF IInv, CallsInOrder
    <3>3. Serving(q) => req[q] \in Submissions /\ req[q].key \in Keys
      BY SubmissionType DEF IInv, CallsInOrder
    <3> QED
      BY <1>3, <3>1, <3>2, <3>3 DEF IInv, CallsInOrder, Serving
  <2> QED
    BY <2>1, <2>2
<1>5. ImagesInOrder'
  BY <1>1, ExtendsReflexive DEF IInv, ImagesInOrder
<1> QED
  BY <1>2, <1>4, <1>5 DEF IInv

LEMMA RollbackInv == ASSUME IInv, NEW p \in Procs, Rollback(p) PROVE IInv'
  BY ReleaseStep DEF Rollback, IInv, TypeOK

LEMMA CommitInv == ASSUME IInv, NEW p \in Procs, Commit(p) PROVE IInv'
<1>1. ~Fresh(db', req[p].key) /\ Serving(p)
  BY DEF Commit, IInv, CallsInOrder, Serving
<1> QED
  BY <1>1, ReleaseStep DEF Commit, IInv, TypeOK

LEMMA CrashInv == ASSUME IInv, NEW p \in Procs, Crash(p) PROVE IInv'
<1>1. NoSeen \in [version : Nat, schema : Schemas]
  BY DEF NoSeen, NoAdds, Schemas
<1>2. seen' \in [Procs -> [version : Nat, schema : Schemas]]
  BY <1>1 DEF Crash, IInv, TypeOK
<1>3. CASE lock = p
  BY <1>2, <1>3, ReleaseStep DEF Crash
<1>4. CASE lock # p
  BY <1>4, ThrowInv DEF Crash
<1> QED
  BY <1>3, <1>4

LEMMA WriteSchemaInv == ASSUME IInv, NEW p \in Procs, WriteSchema(p) PROVE IInv'
<1>1. /\ pc[p] = "store" /\ lock = Nil /\ lock' = p
      /\ work' = Evolved(db, seen[p].schema)
      /\ UNCHANGED <<db, txn, quarantined, req, seen, reply>>
      /\ Goto(p, "publish")
  BY DEF WriteSchema
<1>2. seen[p].schema \in Schemas /\ db \in Images /\ Sound(db) /\ txn' \in Txns
  BY <1>1 DEF IInv, TypeOK, ImagesInOrder
<1>3. work' \in Images /\ Sound(work')
  BY <1>1, <1>2, EvolvedSound
<1>4. Extends(db, work')
  BY <1>1, <1>2, EvolvedExtends
<1> QED
  BY <1>1, <1>2, <1>3, <1>4, WorkStep

LEMMA CommitSchemaInv == ASSUME IInv, NEW p \in Procs, CommitSchema(p) PROVE IInv'
<1>1. NoSeen \in [version : Nat, schema : Schemas]
  BY DEF NoSeen, NoAdds, Schemas
<1>2. seen' \in [Procs -> [version : Nat, schema : Schemas]]
  BY <1>1 DEF CommitSchema, IInv, TypeOK
<1> QED
  BY <1>2, ReleaseStep DEF CommitSchema

LEMMA NextInv == IInv /\ [Next]_vars => IInv'
<1> SUFFICES ASSUME IInv, [Next]_vars PROVE IInv'
  OBVIOUS
<1>1. ASSUME NEW p \in Procs, Call(p) PROVE IInv'
  BY <1>1, CallInv
<1>2. ASSUME NEW p \in Procs, ReadSchema(p) PROVE IInv'
  BY <1>2, ReadSchemaInv
<1>3. ASSUME NEW p \in Procs, Refuse(p) PROVE IInv'
  BY <1>3, ThrowInv DEF Refuse
<1>4. ASSUME NEW p \in Procs, Busy(p) PROVE IInv'
  BY <1>4, ThrowInv DEF Busy
<1>5. ASSUME NEW p \in Procs, BeginFresh(p) PROVE IInv'
  BY <1>5, BeginFreshInv
<1>6. ASSUME NEW p \in Procs, BeginReplay(p) PROVE IInv'
  BY <1>6, BeginReplayInv
<1>7. ASSUME NEW p \in Procs, BeginConflict(p) PROVE IInv'
  BY <1>7, ThrowInv DEF BeginConflict
<1>8. ASSUME NEW p \in Procs, RunMutation(p) PROVE IInv'
  BY <1>8, RunMutationInv
<1>9. ASSUME NEW p \in Procs, CloseTransaction(p) PROVE IInv'
  BY <1>9, CloseTransactionInv
<1>10. ASSUME NEW p \in Procs, EnsureStructure(p) PROVE IInv'
  BY <1>10, EnsureStructureInv
<1>11. ASSUME NEW p \in Procs, Rollback(p) PROVE IInv'
  BY <1>11, RollbackInv
<1>12. ASSUME NEW p \in Procs, Commit(p) PROVE IInv'
  BY <1>12, CommitInv
<1>13. ASSUME NEW p \in Procs, ReadReceipt(p) PROVE IInv'
  BY <1>13, ReadReceiptInv
<1>14. ASSUME NEW p \in Procs, WriteSchema(p) PROVE IInv'
  BY <1>14, WriteSchemaInv
<1>15. ASSUME NEW p \in Procs, CheckWritable(p) PROVE IInv'
  BY <1>15, CheckWritableInv
<1>16. ASSUME NEW p \in Procs, CommitSchema(p) PROVE IInv'
  BY <1>16, CommitSchemaInv
<1>17. ASSUME NEW p \in Procs, SchemaFails(p) PROVE IInv'
  BY <1>17, ThrowInv DEF SchemaFails
<1>18. ASSUME NEW p \in Procs, Crash(p) PROVE IInv'
  BY <1>18, CrashInv
<1>19. CASE MarkQuarantined
  BY <1>19, MarkQuarantinedInv
<1>20. CASE UNCHANGED vars
  BY <1>20 DEF vars, IInv, TypeOK, CallsInOrder, Serving, ImagesInOrder, Sound, Fresh
<1> QED
  BY <1>1, <1>2, <1>3, <1>4, <1>5, <1>6, <1>7, <1>8, <1>9, <1>10, <1>11, <1>12,
     <1>13, <1>14, <1>15, <1>16, <1>17, <1>18, <1>19, <1>20 DEF Next, Serve

\* The invariant holds of every reachable state.
THEOREM Invariance == Spec => []IInv
  BY InitInv, NextInv, PTL DEF Spec

\* Every variable of the engine keeps its type: no step leaves a row, an
\* event, an entry or an open transaction that is only half made.
THEOREM TypeCorrect == Spec => []TypeOK
<1>1. IInv => TypeOK
  BY DEF IInv
<1> QED
  BY <1>1, Invariance, PTL

\* However many callers, processes and schema versions there are, no
\* committed reference dangles and the relation index is exact.
THEOREM ReferencesHold == Spec => []ReferentialIntegrity
<1>1. IInv => ReferentialIntegrity
  BY DEF IInv, ImagesInOrder, Sound, ReferentialIntegrity
<1> QED
  BY <1>1, Invariance, PTL

\* Every committed record reads back under the schema version it was written
\* with.
THEOREM RecordsReadBack == Spec => []RecordsHydrate
<1>1. IInv => RecordsHydrate
  BY DEF IInv, ImagesInOrder, Sound, RecordsHydrate
<1> QED
  BY <1>1, Invariance, PTL

LEMMA HistoryStep ==
  ASSUME IInv, [Next]_vars
  PROVE  db' = db \/ Extends(db, db')
<1> SUFFICES ASSUME db' # db PROVE Extends(db, db')
  OBVIOUS
<1>1. PICK p \in Procs : Commit(p) \/ CommitSchema(p)
  BY DEF Next, Serve, vars, Call, ReadSchema, Refuse, Busy, BeginFresh,
         BeginReplay, BeginConflict, RunMutation, CloseTransaction,
         EnsureStructure, Rollback, ReadReceipt, CheckWritable, WriteSchema,
         SchemaFails, Crash, MarkQuarantined
<1>2. db' = work
  BY <1>1 DEF Commit, CommitSchema
<1> QED
  BY <1>2 DEF IInv, ImagesInOrder

\* No step of any process rewrites an event, rebinds a key, revives a deleted
\* record or lowers a version.
THEOREM HistoryKept == Spec => HistoryIsKept
<1>1. IInv /\ [Next]_vars => [Extends(db, db')]_db
  BY HistoryStep
<1> QED
  BY <1>1, Invariance, PTL DEF Spec, HistoryIsKept

(***************************************************************************)
(* What steps do to the images.  All but six actions leave  the committed  *)
(* image alone and the private one too, or make it the committed one.      *)
(***************************************************************************)
LEMMA ImageSteps ==
  ASSUME [Next]_vars
  PROVE  \/ db' = db /\ work' \in {db, work}
         \/ \E p \in Procs : \/ RunMutation(p)
                             \/ CloseTransaction(p)
                             \/ EnsureStructure(p)
                             \/ Commit(p)
                             \/ WriteSchema(p)
                             \/ CommitSchema(p)
  BY DEF Next, Serve, vars, Call, ReadSchema, Refuse, Busy, BeginFresh,
         BeginReplay, BeginConflict, Rollback, Release, ReadReceipt,
         CheckWritable, SchemaFails, Crash, MarkQuarantined

\* A process is about to publish a schema version from its write of it on,
\* and about to write one from its look at the marker on.
LEMMA SchemaSteps ==
  ASSUME IInv, [Next]_vars, NEW q \in Procs
  PROVE  /\ pc'[q] = "publish" =>
              \/ WriteSchema(q)
              \/ pc[q] = "publish" /\ seen'[q] = seen[q] /\ UNCHANGED <<db, work>>
         /\ pc'[q] = "store" => CheckWritable(q) \/ pc[q] = "store"
<1>1. /\ pc \in [Procs -> Locations]
      /\ seen \in [Procs -> [version : Nat, schema : Schemas]]
      /\ pc[q] = "publish" => lock = q
      /\ Nil \notin Procs
  BY EngineAssumption DEF IInv, TypeOK, CallsInOrder, AcceptableCalls, Acceptable
<1> DEFINE Published == \/ WriteSchema(q)
                        \/ pc[q] = "publish" /\ seen'[q] = seen[q]
                           /\ UNCHANGED <<db, work>>
           Allowed == CheckWritable(q) \/ pc[q] = "store"
<1>2. ASSUME NEW p \in Procs, Call(p) \/ ReadSchema(p) \/ Serve(p) \/ Crash(p)
      PROVE  /\ pc'[q] = "publish" => Published
             /\ pc'[q] = "store" => Allowed
  <2>1. CASE p = q /\ WriteSchema(q)
    BY <1>1, <2>1 DEF WriteSchema, Goto
  <2>2. CASE p = q /\ ~WriteSchema(q)
    BY <1>1, <1>2, <2>2 DEF Serve, Call, ReadSchema, Refuse, Busy, BeginFresh,
       BeginReplay, BeginConflict, RunMutation, CloseTransaction, EnsureStructure,
       Rollback, Commit, ReadReceipt, CheckWritable, CommitSchema, SchemaFails,
       Crash, Throw, Goto
  <2>3. CASE p # q
    BY <1>1, <1>2, <2>3 DEF Serve, Call, ReadSchema, Refuse, Busy, BeginFresh,
       MayBegin, BeginReplay, BeginConflict, RunMutation, CloseTransaction,
       EnsureStructure, Rollback, Commit, ReadReceipt, CheckWritable, WriteSchema,
       CommitSchema, SchemaFails, Crash, Throw, Goto
  <2> QED
    BY <2>1, <2>2, <2>3
<1> QED
  BY <1>2 DEF Next, MarkQuarantined, vars

\* The mutation a transaction is at, once its names are resolved.
LEMMA MutationStep ==
  ASSUME IInv, NEW p \in Procs, RunMutation(p)
  PROVE  \E m \in Mutations, r \in Ids :
           /\ m = NextMutation(p)
           /\ req[p] \in Submissions
           /\ req[p].actor \in Actors /\ TxOf(p) \in Nat
           /\ txn.next \in 1..Len(req[p].ops)
           /\ m.op = req[p].ops[txn.next].op
           /\ m.op = "data.record.create" => m.expected = 0
           /\ Resolvable(work, req[p].ops[txn.next], txn.refs)
           /\ ClientRefFree(req[p].ops[txn.next], txn.refs)
           /\ MayMutate(work, m, r)
           /\ work' = Mutated(work, m, r, req[p].actor, TxOf(p))
           /\ txn' = Advanced(p, r, work')
<1> DEFINE n == txn.next
           op == req[p].ops[n]
<1>1. /\ pc[p] = "body"
      /\ n <= Len(req[p].ops)
  BY DEF RunMutation, MoreMutations
<1>2. req[p] \in Submissions
  BY <1>1 DEF IInv, CallsInOrder, Serving
<1>3. txn \in Txns /\ work \in Images
  BY DEF IInv, TypeOK
<1>4. n \in 1..Len(req[p].ops) /\ op \in Mutations
  BY <1>1, <1>2, <1>3, SubmissionType DEF Txns
<1>5. PICK r \in Ids : /\ Succeeds(p, r)
                       /\ work' = Mutated(work, NextMutation(p), r, req[p].actor, TxOf(p))
                       /\ txn' = Advanced(p, r, work')
  BY DEF RunMutation
<1>6. NextMutation(p) \in Mutations
  BY <1>3, <1>4, <1>5, ResolvedType DEF Succeeds, NextMutation, Txns
<1>7. /\ NextMutation(p).op = op.op
      /\ NextMutation(p).expected = op.expected
  BY <1>4 DEF NextMutation, Resolved, Mutations
<1>8. op.op = "data.record.create" => op.expected = 0
  BY <1>2, <1>4, EngineAssumption DEF AcceptableCalls, Acceptable
<1>9. TxOf(p) \in Nat /\ req[p].actor \in Actors
  BY <1>2, <1>3, SubmissionType DEF TxOf, Txns
<1> QED
  BY <1>2, <1>4, <1>5, <1>6, <1>7, <1>8, <1>9 DEF Succeeds

(***************************************************************************)
(* The log and the ledger.                                                 *)
(***************************************************************************)
LogsInOrder == LogSound(db) /\ LogSound(work)

LEMMA LogsInit == Init => LogsInOrder
  BY EmptyLogSound DEF Init, LogsInOrder

LEMMA LogsKept == IInv /\ LogsInOrder /\ [Next]_vars => LogsInOrder'
<1> SUFFICES ASSUME IInv, LogsInOrder, [Next]_vars PROVE LogsInOrder'
  OBVIOUS
<1>1. /\ LogSound(db) /\ LogSound(work)
      /\ Sound(work)
      /\ db \in Images /\ work \in Images /\ txn \in Txns
  BY DEF LogsInOrder, IInv, ImagesInOrder, TypeOK
<1>2. \A p \in Procs : pc[p] = "body" => req[p] \in Requests
  BY SubmissionType DEF IInv, CallsInOrder, Serving
<1>3. CASE db' = db /\ work' \in {db, work}
  BY <1>1, <1>3 DEF LogsInOrder
<1>4. ASSUME NEW p \in Procs, RunMutation(p) PROVE LogsInOrder'
  <2>1. PICK m \in Mutations, r \in Ids :
          /\ req[p].actor \in Actors /\ TxOf(p) \in Nat
          /\ m.op = "data.record.create" => m.expected = 0
          /\ MayMutate(work, m, r)
          /\ work' = Mutated(work, m, r, req[p].actor, TxOf(p))
    BY <1>4, MutationStep
  <2>2. LogSound(work')
    BY <1>1, <2>1, MutatedLogSound
  <2> QED
    BY <1>1, <1>4, <2>2 DEF LogsInOrder, RunMutation
<1>5. ASSUME NEW p \in Procs, CloseTransaction(p) PROVE LogsInOrder'
  <2>1. /\ Fresh(work, req[p].key)
        /\ work' = Closed(work, req[p], txn.id, txn.children, txn.snapshots)
        /\ pc[p] = "body" /\ db' = db
    BY <1>5 DEF CloseTransaction
  <2>2. /\ txn.id \in Nat
        /\ txn.children \in Seq(Nat)
        /\ txn.snapshots \in Seq(Snapshots)
    BY <1>1 DEF Txns
  <2> QED
    BY <1>1, <1>2, <2>1, <2>2, ClosedLogSound DEF LogsInOrder
<1>6. ASSUME NEW p \in Procs, EnsureStructure(p) PROVE LogsInOrder'
  <2>1. /\ Fresh(work, req[p].key)
        /\ work' = Ensured(work, req[p], txn.id)
        /\ pc[p] = "body" /\ db' = db
        /\ txn.id \in Nat
    BY <1>1, <1>6 DEF EnsureStructure, Txns
  <2> QED
    BY <1>1, <1>2, <2>1, EnsuredLogSound DEF LogsInOrder
<1>7. ASSUME NEW p \in Procs, Commit(p) \/ CommitSchema(p) PROVE LogsInOrder'
  BY <1>1, <1>7 DEF LogsInOrder, Commit, CommitSchema, Release
<1>8. ASSUME NEW p \in Procs, WriteSchema(p) PROVE LogsInOrder'
  BY <1>1, <1>8, EvolvedLogSound DEF LogsInOrder, WriteSchema
<1> QED
  BY <1>3, <1>4, <1>5, <1>6, <1>7, <1>8, ImageSteps

\* No accepted update is lost: the log holds every version of every record
\* once, and each was written from the version its caller had expected.
THEOREM NoUpdateIsLost == Spec => []NoLostUpdate
<1>1. LogsInOrder => NoLostUpdate
  BY DEF LogsInOrder, LogSound, NoLostUpdate
<1> QED
  BY <1>1, LogsInit, LogsKept, Invariance, PTL DEF Spec

\* A bound key has one receipt, which says what its entry says; an unbound key
\* has none.
THEOREM ReceiptsAreExact == Spec => []KeysMatchReceipts
<1>1. LogsInOrder => KeysMatchReceipts
  BY DEF LogsInOrder, LogSound, KeysMatchReceipts
<1> QED
  BY <1>1, LogsInit, LogsKept, Invariance, PTL DEF Spec

(***************************************************************************)
(* Schema versions.  Between the read of a version and the write of the    *)
(* next, a caller holds a definition that keeps every field of the version *)
(* it names; the comparison in the write makes that version the last one.  *)
(***************************************************************************)
SchemasInOrder ==
  /\ AdditiveSchemas(db)
  /\ AdditiveSchemas(work)
  /\ \A p \in Procs : pc[p] \in {"schema", "store"} =>
       /\ seen[p].version \in 1..SchemaVersion(db)
       /\ KeepsFields(db.schemas[seen[p].version], seen[p].schema)

LEMMA SchemasInit == Init => SchemasInOrder
  BY DEF Init, SchemasInOrder, EmptyImage, AdditiveSchemas, SchemaVersion

\* What a caller has read is not taken back.
LEMMA SeenKept ==
  ASSUME IInv, SchemasInOrder, [Next]_vars
  PROVE  \A p \in Procs : pc'[p] \in {"schema", "store"} =>
           /\ seen'[p].version \in 1..SchemaVersion(db')
           /\ KeepsFields(db'.schemas[seen'[p].version], seen'[p].schema)
<1> SUFFICES ASSUME NEW p \in Procs, pc'[p] \in {"schema", "store"}
             PROVE  /\ seen'[p].version \in 1..SchemaVersion(db')
                    /\ KeepsFields(db'.schemas[seen'[p].version], seen'[p].schema)
  OBVIOUS
<1>1. /\ pc \in [Procs -> Locations]
      /\ seen \in [Procs -> [version : Nat, schema : Schemas]]
      /\ db \in Images
  BY DEF IInv, TypeOK
<1>2. CASE ReadSchema(p)
  <2>1. PICK adds \in Evolutions :
          /\ MayAddFields(CurrentSchema(db), adds)
          /\ seen' = [seen EXCEPT ![p] =
                        [version |-> SchemaVersion(db),
                         schema  |-> WithFields(CurrentSchema(db), adds)]]
    BY <1>2 DEF ReadSchema
  <2>2. KeepsFields(CurrentSchema(db), WithFields(CurrentSchema(db), adds))
    BY <2>1, WithFieldsKeeps
  <2> QED
    BY <1>1, <1>2, <2>1, <2>2, CurrentSchemaType DEF ReadSchema, CurrentSchema, SchemaVersion
<1>3. CASE ~ReadSchema(p)
  <2>1. pc[p] \in {"schema", "store"} /\ seen'[p] = seen[p]
    BY <1>1, <1>3 DEF Next, Serve, vars, Call, ReadSchema, Refuse, Busy, BeginFresh,
       BeginReplay, BeginConflict, RunMutation, CloseTransaction, EnsureStructure,
       Rollback, Commit, ReadReceipt, CheckWritable, WriteSchema, CommitSchema,
       SchemaFails, Crash, Throw, Goto, MarkQuarantined
  <2>2. /\ SchemaVersion(db) \in Nat
        /\ SchemaVersion(db') \in Nat
        /\ SchemaVersion(db) <= SchemaVersion(db')
        /\ \A i \in 1..SchemaVersion(db) : db'.schemas[i] = db.schemas[i]
    <3>1. IInv'
      BY NextInv
    <3>2. db' = db \/ Extends(db, db')
      BY HistoryStep
    <3> QED
      BY <1>1, <3>1, <3>2, SMTT(60) DEF Extends, SchemaVersion, IInv, TypeOK, Images
  <2> QED
    BY <2>1, <2>2 DEF SchemasInOrder
<1> QED
  BY <1>2, <1>3

LEMMA SchemasKept == IInv /\ SchemasInOrder /\ [Next]_vars => SchemasInOrder'
<1> SUFFICES ASSUME IInv, SchemasInOrder, [Next]_vars PROVE SchemasInOrder'
  OBVIOUS
<1>1. /\ AdditiveSchemas(db) /\ AdditiveSchemas(work)
      /\ db \in Images /\ work \in Images
  BY DEF SchemasInOrder, IInv, TypeOK
<1>2. AdditiveSchemas(db') /\ AdditiveSchemas(work')
  <2>1. CASE db' = db /\ work' \in {db, work}
    BY <1>1, <2>1
  <2>2. ASSUME NEW p \in Procs, RunMutation(p)
        PROVE  AdditiveSchemas(db') /\ AdditiveSchemas(work')
    <3>1. db' = db /\ work'.schemas = work.schemas
      BY <2>2, MutationStep, MutatedSchemas DEF RunMutation
    <3> QED
      BY <1>1, <3>1 DEF AdditiveSchemas, SchemaVersion
  <2>3. ASSUME NEW p \in Procs, CloseTransaction(p)
        PROVE  AdditiveSchemas(db') /\ AdditiveSchemas(work')
    <3>1. db' = db /\ work'.schemas = work.schemas
      BY <2>3 DEF CloseTransaction, Closed
    <3> QED
      BY <1>1, <3>1 DEF AdditiveSchemas, SchemaVersion
  <2>4. ASSUME NEW p \in Procs, EnsureStructure(p)
        PROVE  AdditiveSchemas(db') /\ AdditiveSchemas(work')
    <3>1. /\ db' = db
          /\ MayEnsure(work, req[p])
          /\ work' = Ensured(work, req[p], txn.id)
          /\ pc[p] = "body"
      BY <2>4 DEF EnsureStructure
    <3>2. req[p] \in Requests
      BY <3>1, SubmissionType DEF IInv, CallsInOrder, Serving
    <3> QED
      BY <1>1, <3>1, <3>2, EnsuredAdditive
  <2>5. ASSUME NEW p \in Procs, Commit(p) \/ CommitSchema(p)
        PROVE  AdditiveSchemas(db') /\ AdditiveSchemas(work')
    BY <1>1, <2>5 DEF Commit, CommitSchema, Release
  <2>6. ASSUME NEW p \in Procs, WriteSchema(p)
        PROVE  AdditiveSchemas(db') /\ AdditiveSchemas(work')
    <3>1. /\ pc[p] = "store"
          /\ SchemaVersion(db) = seen[p].version
          /\ work' = Evolved(db, seen[p].schema) /\ db' = db
      BY <2>6 DEF WriteSchema
    <3>2. KeepsFields(CurrentSchema(db), seen[p].schema)
      BY <3>1 DEF SchemasInOrder, CurrentSchema
    <3>3. seen[p].schema \in Schemas
      BY DEF IInv, TypeOK
    <3> QED
      BY <1>1, <3>1, <3>2, <3>3, EvolvedAdditive
  <2> QED
    BY <2>1, <2>2, <2>3, <2>4, <2>5, <2>6, ImageSteps
<1> QED
  BY <1>2, SeenKept DEF SchemasInOrder

\* No schema version drops or changes a field an earlier one declared, however
\* the callers that compute the next versions interleave.
THEOREM SchemasGrow == Spec => []SchemasOnlyGrow
<1>1. SchemasInOrder => SchemasOnlyGrow
  BY DEF SchemasInOrder, SchemasOnlyGrow
<1> QED
  BY <1>1, SchemasInit, SchemasKept, Invariance, PTL DEF Spec

(***************************************************************************)
(* Transactions in the log.  While a transaction is open, the events after *)
(* the committed ones are its own, and it lists them as its children.      *)
(***************************************************************************)
BlockOpen(p) ==
  LET begun == Len(db.events)
      done  == Len(work.events) - begun
  IN  /\ txn.id = begun + 1
      /\ txn.next = done + 1
      /\ txn.children = [n \in 1..done |-> begun + n]
      /\ \A i \in (begun + 1)..Len(work.events) :
           /\ work.events[i].tx = txn.id
           /\ work.events[i].op # "data.transaction.execute"
      /\ req[p].kind # "transaction" => done = 0
      /\ done = 0 => txn.refs = [c \in Markers |-> Nil]

BlocksInOrder ==
  /\ BlocksWhole(db)
  /\ \A p \in Procs :
       /\ pc[p] = "body" => BlockOpen(p)
       /\ pc[p] \in {"commit", "publish"} => BlocksWhole(work)

LEMMA BlocksInit == Init => BlocksInOrder
  BY DEF Init, BlocksInOrder, EmptyImage, BlocksWhole

\* How a process comes to be inside the body of a transaction, or past it.
LEMMA BodySteps ==
  ASSUME IInv, [Next]_vars, NEW q \in Procs, pc'[q] = "body"
  PROVE  \/ BeginFresh(q)
         \/ RunMutation(q) /\ req[q].kind # "record"
         \/ pc[q] = "body" /\ req'[q] = req[q] /\ UNCHANGED <<db, work, txn>>
<1>1. /\ pc \in [Procs -> Locations]
      /\ req \in [Procs -> Submissions \cup {Nil}]
      /\ pc[q] = "body" => lock = q
      /\ Nil \notin Procs
  BY EngineAssumption DEF IInv, TypeOK, CallsInOrder, AcceptableCalls, Acceptable
<1>2. ASSUME NEW p \in Procs, Call(p) \/ ReadSchema(p) \/ Serve(p) \/ Crash(p)
      PROVE  \/ BeginFresh(q)
             \/ RunMutation(q) /\ req[q].kind # "record"
             \/ pc[q] = "body" /\ req'[q] = req[q] /\ UNCHANGED <<db, work, txn>>
  <2>1. CASE p = q
    BY <1>1, <1>2, <2>1 DEF Serve, Call, ReadSchema, Refuse, Busy,
       BeginReplay, BeginConflict, RunMutation, CloseTransaction, EnsureStructure,
       Rollback, Commit, ReadReceipt, CheckWritable, WriteSchema, CommitSchema,
       SchemaFails, Crash, Throw, Goto
  <2>2. CASE p # q
    BY <1>1, <1>2, <2>2 DEF Serve, Call, ReadSchema, Refuse, Busy, BeginFresh,
       MayBegin, BeginReplay, BeginConflict, RunMutation, CloseTransaction,
       EnsureStructure, Rollback, Commit, ReadReceipt, CheckWritable, WriteSchema,
       CommitSchema, SchemaFails, Crash, Throw, Goto
  <2> QED
    BY <2>1, <2>2
<1> QED
  BY <1>2 DEF Next, MarkQuarantined, vars

LEMMA CommitSteps ==
  ASSUME IInv, [Next]_vars, NEW q \in Procs, pc'[q] = "commit"
  PROVE  \/ RunMutation(q) /\ req[q].kind = "record"
         \/ CloseTransaction(q)
         \/ EnsureStructure(q)
         \/ pc[q] = "commit" /\ req'[q] = req[q] /\ UNCHANGED <<db, work, txn>>
<1>1. /\ pc \in [Procs -> Locations]
      /\ req \in [Procs -> Submissions \cup {Nil}]
      /\ pc[q] = "commit" => lock = q
      /\ Nil \notin Procs
  BY EngineAssumption DEF IInv, TypeOK, CallsInOrder, AcceptableCalls, Acceptable
<1>2. ASSUME NEW p \in Procs, Call(p) \/ ReadSchema(p) \/ Serve(p) \/ Crash(p)
      PROVE  \/ RunMutation(q) /\ req[q].kind = "record"
             \/ CloseTransaction(q)
             \/ EnsureStructure(q)
             \/ pc[q] = "commit" /\ req'[q] = req[q] /\ UNCHANGED <<db, work, txn>>
  <2>1. CASE p = q
    BY <1>1, <1>2, <2>1 DEF Serve, Call, ReadSchema, Refuse, Busy, BeginFresh,
       BeginReplay, BeginConflict, RunMutation,
       Rollback, Commit, ReadReceipt, CheckWritable, WriteSchema, CommitSchema,
       SchemaFails, Crash, Throw, Goto
  <2>2. CASE p # q
    BY <1>1, <1>2, <2>2 DEF Serve, Call, ReadSchema, Refuse, Busy, BeginFresh,
       MayBegin, BeginReplay, BeginConflict, RunMutation, CloseTransaction,
       EnsureStructure, Rollback, Commit, ReadReceipt, CheckWritable, WriteSchema,
       CommitSchema, SchemaFails, Crash, Throw, Goto
  <2> QED
    BY <2>1, <2>2
<1> QED
  BY <1>2 DEF Next, MarkQuarantined, vars

\* An empty block opens.
LEMMA BlockOpens ==
  ASSUME IInv, NEW q \in Procs, BeginFresh(q)
  PROVE  BlockOpen(q)'
<1>1. /\ txn' = FreshTxn /\ work' = db /\ db' = db /\ req' = req
      /\ Len(db.events) \in Nat
  BY DEF BeginFresh, IInv, TypeOK, Images
<1>2. Len(db.events) - Len(db.events) = 0
  BY <1>1
<1>3. <<>> = [n \in 1..0 |-> Len(db.events) + n]
  OBVIOUS
<1> QED
  BY <1>1, <1>2, <1>3 DEF BlockOpen, FreshTxn

\* The private log is the committed one and, from there on, new events.
LEMMA CommittedPrefix ==
  ASSUME IInv
  PROVE  /\ Len(db.events) \in Nat /\ Len(work.events) \in Nat
         /\ Len(db.events) <= Len(work.events)
         /\ \A i \in 1..Len(db.events) : work.events[i] = db.events[i]
  BY DEF IInv, TypeOK, ImagesInOrder, Extends, Images

\* The block grows by one event.
LEMMA BlockGrows ==
  ASSUME IInv, NEW q \in Procs, BlockOpen(q), RunMutation(q), req[q].kind # "record"
  PROVE  BlockOpen(q)'
<1> DEFINE begun == Len(db.events)
           n == Len(work.events)
<1>1. PICK m \in Mutations, r \in Ids :
        /\ req[q] \in Submissions
        /\ txn.next \in 1..Len(req[q].ops)
        /\ MayMutate(work, m, r)
        /\ work' = Mutated(work, m, r, req[q].actor, TxOf(q))
        /\ txn' = Advanced(q, r, work')
  BY MutationStep
<1>2. db' = db /\ req' = req
  BY DEF RunMutation
<1>3. req[q].kind = "transaction"
  <2>1. req[q].kind # "ensure"
    BY <1>1, EngineAssumption DEF AcceptableCalls, Acceptable
  <2> QED
    BY <1>1, <2>1, EngineAssumption DEF Requests, AcceptableCalls, Acceptable
<1>4. /\ work \in Images /\ txn \in Txns /\ work' \in Images
      /\ begun \in Nat /\ n \in Nat /\ begun <= n
  BY NextInv, CommittedPrefix DEF IInv, TypeOK, Next, Serve
<1>5. /\ Len(work'.events) = n + 1
      /\ work'.events[n + 1].tx = txn.id
      /\ work'.events[n + 1].op = m.op
  BY <1>1, <1>3, <1>4, MutatedLeaves DEF TxOf
<1>6. \A i \in 1..n : work'.events[i] = work.events[i]
  <2>1. PICK row, refs : work' = Written(work, r, row, refs, m, req[q].actor, TxOf(q))
    BY <1>1, MutatedWrites
  <2>2. work'.events = Append(work.events, EventOf(r, row, m, req[q].actor, TxOf(q)))
    BY <2>1 DEF Written
  <2> QED
    BY <1>4, <2>2 DEF Images
<1>7. m.op # "data.transaction.execute"
  BY DEF Mutations, MutationOps
<1>8. /\ txn'.id = txn.id
      /\ txn'.next = txn.next + 1
      /\ txn'.children = Append(txn.children, n + 1)
  BY <1>1, <1>5 DEF Advanced
<1>9. txn.children = [k \in 1..(n - begun) |-> begun + k] /\ txn.next = n - begun + 1
      /\ txn.id = begun + 1
      /\ \A i \in (begun + 1)..n :
           /\ work.events[i].tx = txn.id
           /\ work.events[i].op # "data.transaction.execute"
  BY DEF BlockOpen
<1>10. txn'.children = [k \in 1..(n + 1 - begun) |-> begun + k]
  <2> DEFINE done == n - begun
  <2>1. /\ done \in Nat
        /\ n + 1 = begun + done + 1
        /\ n + 1 - begun = done + 1
    BY <1>4
  <2>2. txn'.children = Append([k \in 1..done |-> begun + k], n + 1)
    BY <1>8, <1>9
  <2> HIDE DEF done, n, begun
  <2> QED
    BY <1>4, <2>1, <2>2, AppendedRun
<1>11. \A i \in (begun + 1)..(n + 1) :
         work'.events[i].tx = txn.id /\ work'.events[i].op # "data.transaction.execute"
  <2> SUFFICES ASSUME NEW i \in (begun + 1)..(n + 1)
               PROVE  /\ work'.events[i].tx = txn.id
                      /\ work'.events[i].op # "data.transaction.execute"
    OBVIOUS
  <2>1. CASE i = n + 1
    BY <1>5, <1>7, <2>1
  <2>2. CASE i # n + 1
    BY <1>4, <1>6, <1>9, <2>2
  <2> QED
    BY <2>1, <2>2
<1>12. /\ Len(work'.events) - Len(db'.events) = n + 1 - begun
       /\ n + 1 - begun # 0
       /\ txn'.next = (n + 1 - begun) + 1
       /\ txn'.id = Len(db'.events) + 1
  BY <1>2, <1>4, <1>5, <1>8, <1>9
<1> QED
  BY <1>2, <1>3, <1>5, <1>8, <1>10, <1>11, <1>12 DEF BlockOpen

\* A block that closes is whole.
LEMMA BlockCloses ==
  ASSUME IInv, NEW q \in Procs, BlockOpen(q), BlocksWhole(db), work' \in Images,
         Len(work'.events) = Len(work.events) + 1,
         \A i \in 1..Len(work.events) : work'.events[i] = work.events[i],
         work'.events[Len(work.events) + 1] = ClosingEvent(req[q], txn.id, txn.children)
  PROVE  BlocksWhole(work')
<1> DEFINE begun == Len(db.events)
           n == Len(work.events)
           t == txn.id
<1>1. /\ begun \in Nat /\ n \in Nat /\ begun <= n
      /\ \A i \in 1..begun : work.events[i] = db.events[i]
      /\ db \in Images
  BY CommittedPrefix DEF IInv, TypeOK
<1>2. /\ t = begun + 1
      /\ txn.children = [k \in 1..(n - begun) |-> begun + k]
      /\ \A i \in (begun + 1)..n :
           work.events[i].tx = t /\ work.events[i].op # "data.transaction.execute"
  BY DEF BlockOpen
<1>3. /\ work'.events[n + 1].op = "data.transaction.execute"
      /\ work'.events[n + 1].tx = t
      /\ work'.events[n + 1].children = txn.children
  BY DEF ClosingEvent
<1> HIDE DEF begun, n, t
<1>4. \A i \in t..(n + 1) : work'.events[i].tx = t
  <2> SUFFICES ASSUME NEW i \in t..(n + 1) PROVE work'.events[i].tx = t
    OBVIOUS
  <2>1. CASE i = n + 1
    BY <1>3, <2>1
  <2>2. CASE i # n + 1
    <3>1. i \in (begun + 1)..n /\ i \in 1..n
      BY <1>1, <1>2, <2>2
    <3> QED
      BY <1>2, <3>1 DEF n
  <2> QED
    BY <2>1, <2>2
<1>5. \A i \in t..((n + 1) - 1) : work'.events[i].op # "data.transaction.execute"
  <2> SUFFICES ASSUME NEW i \in t..((n + 1) - 1)
               PROVE  work'.events[i].op # "data.transaction.execute"
    OBVIOUS
  <2>1. i \in (begun + 1)..n /\ i \in 1..n
    BY <1>1, <1>2
  <2> QED
    BY <1>2, <2>1 DEF n
<1>6. work'.events[n + 1].children = [k \in 1..((n + 1) - t) |-> t + k - 1]
  <2>1. begun \in Nat /\ n \in Nat /\ t = begun + 1
    BY <1>1, <1>2
  <2>2. (n + 1) - t = n - begun
    BY <2>1
  <2>3. \A k \in 1..(n - begun) : t + k - 1 = begun + k
    BY <2>1
  <2> QED
    BY <1>2, <1>3, <2>2, <2>3
<1>7. ClosesBlock(work', t, n + 1)
  BY <1>3, <1>4, <1>5, <1>6 DEF ClosesBlock
<1>8. \A i \in 1..begun : work'.events[i] = db.events[i]
  BY <1>1 DEF n
<1>9. ASSUME NEW i \in (begun + 1)..(n + 1)
      PROVE  \E j \in i..(n + 1) :
               work'.events[i].tx <= i /\ ClosesBlock(work', work'.events[i].tx, j)
  <2>1. i \in t..(n + 1) /\ n + 1 \in i..(n + 1) /\ t <= i
    BY <1>1, <1>2
  <2> QED
    BY <1>4, <1>7, <2>1
<1>10. Len(work'.events) = n + 1 /\ begun <= n + 1
  BY <1>1 DEF n
<1> QED
  BY <1>1, <1>8, <1>9, <1>10, BlocksExtended DEF begun

LEMMA BlocksKept == IInv /\ BlocksInOrder /\ [Next]_vars => BlocksInOrder'
<1> SUFFICES ASSUME IInv, BlocksInOrder, [Next]_vars PROVE BlocksInOrder'
  OBVIOUS
<1>1. /\ BlocksWhole(db)
      /\ db \in Images /\ work \in Images /\ db' \in Images /\ work' \in Images
  BY NextInv DEF BlocksInOrder, IInv, TypeOK
<1>2. BlocksWhole(db')
  <2>1. CASE db' = db
    BY <1>1, <2>1
  <2>2. ASSUME NEW p \in Procs, Commit(p) \/ CommitSchema(p) PROVE BlocksWhole(db')
    BY <2>2 DEF Commit, CommitSchema, BlocksInOrder
  <2> QED
    BY <2>1, <2>2, ImageSteps
       DEF RunMutation, CloseTransaction, EnsureStructure, WriteSchema
<1>3. ASSUME NEW q \in Procs, pc'[q] = "body" PROVE BlockOpen(q)'
  <2>1. CASE BeginFresh(q)
    BY <2>1, BlockOpens
  <2>2. CASE RunMutation(q) /\ req[q].kind # "record"
    BY <2>2, BlockGrows DEF BlocksInOrder, RunMutation
  <2>3. CASE pc[q] = "body" /\ req'[q] = req[q] /\ UNCHANGED <<db, work, txn>>
    BY <2>3 DEF BlocksInOrder, BlockOpen
  <2> QED
    BY <1>3, <2>1, <2>2, <2>3, BodySteps
<1>4. ASSUME NEW q \in Procs, pc'[q] = "commit" PROVE BlocksWhole(work')
  <2>0. pc[q] = "body" => BlockOpen(q) /\ req[q] \in Submissions
    BY DEF BlocksInOrder, IInv, CallsInOrder, Serving
  <2>1. CASE RunMutation(q) /\ req[q].kind = "record"
    <3>1. BlockOpen(q)
      BY <2>0, <2>1 DEF RunMutation
    <3>2. PICK m \in Mutations, r \in Ids :
            /\ MayMutate(work, m, r)
            /\ work' = Mutated(work, m, r, req[q].actor, TxOf(q))
      BY <2>1, MutationStep
    <3>3. TxOf(q) = 0
      BY <2>1 DEF TxOf
    <3>4. Len(work.events) = Len(db.events)
      BY <2>1, <3>1, CommittedPrefix DEF BlockOpen
    <3>5. /\ Len(work'.events) = Len(db.events) + 1
          /\ work'.events[Len(db.events) + 1].tx = 0
      BY <1>1, <3>2, <3>3, <3>4, MutatedLeaves
    <3>6. \A i \in 1..Len(db.events) : work'.events[i] = db.events[i]
      BY NextInv, CommittedPrefix, <2>1 DEF IInv, ImagesInOrder, Extends, RunMutation
    <3>7. \A i \in (Len(db.events) + 1)..Len(work'.events) : work'.events[i].tx = 0
      BY <3>5, CommittedPrefix
    <3>8. Len(db.events) <= Len(work'.events)
      BY <3>5, CommittedPrefix
    <3> QED
      BY <1>1, <3>6, <3>7, <3>8, BlocksExtended
  <2>2. CASE CloseTransaction(q)
    <3>1. /\ work' = Closed(work, req[q], txn.id, txn.children, txn.snapshots)
          /\ BlockOpen(q) /\ req[q] \in Requests
      BY <2>0, <2>2, SubmissionType DEF CloseTransaction
    <3> QED
      BY <1>1, <3>1, ClosedLeaves, BlockCloses
  <2>3. CASE EnsureStructure(q)
    <3>1. /\ work' = Ensured(work, req[q], txn.id)
          /\ BlockOpen(q) /\ req[q] \in Requests
          /\ req[q].kind = "ensure"
      BY <2>0, <2>3, SubmissionType DEF EnsureStructure
    <3>2. txn.children = <<>>
      <4>1. Len(work.events) - Len(db.events) = 0
        BY <3>1 DEF BlockOpen
      <4>2. txn.children = [k \in 1..0 |-> Len(db.events) + k]
        BY <3>1, <4>1 DEF BlockOpen
      <4> QED
        BY <4>2
    <3> QED
      BY <1>1, <3>1, <3>2, EnsuredLeaves, BlockCloses
  <2>4. CASE pc[q] = "commit" /\ UNCHANGED <<db, work, txn>>
    BY <2>4 DEF BlocksInOrder
  <2> QED
    BY <1>4, <2>1, <2>2, <2>3, <2>4, CommitSteps
<1>5. ASSUME NEW q \in Procs, pc'[q] = "publish" PROVE BlocksWhole(work')
  <2>1. CASE WriteSchema(q)
    <3>1. work'.events = db.events
      BY <2>1 DEF WriteSchema, Evolved
    <3> QED
      BY <1>1, <3>1, BlocksExtended, CommittedPrefix
  <2>2. CASE pc[q] = "publish" /\ UNCHANGED <<db, work>>
    BY <2>2 DEF BlocksInOrder
  <2> QED
    BY <1>5, <2>1, <2>2, SchemaSteps
<1> QED
  BY <1>2, <1>3, <1>4, <1>5 DEF BlocksInOrder

\* The events of a committed transaction are contiguous, in order, and listed
\* by the event that closes them, however many mutations it has and whoever
\* else wrote before, after or in between its steps.
THEOREM TransactionsAreBlocks == Spec => []TransactionsContiguous
<1>1. BlocksInOrder => TransactionsContiguous
  BY DEF BlocksInOrder, TransactionsContiguous
<1> QED
  BY <1>1, BlocksInit, BlocksKept, Invariance, PTL DEF Spec

(***************************************************************************)
(* Answers.  A call that has bound its key has bound it to its own         *)
(* request, and keeps it bound until its caller is told.                   *)
(***************************************************************************)
Answered(d, r) == d.idem[r.key] # Nil /\ d.idem[r.key].fp = r

AnswersInOrder ==
  \A p \in Procs :
    /\ pc[p] = "commit" => Answered(work, req[p])
    /\ pc[p] = "receipt" => Answered(db, req[p])
    /\ reply[p] # Nil =>
         /\ Answered(db, reply[p].req)
         /\ db.idem[reply[p].req.key].result = reply[p].result
         /\ reply[p].receipt \in ReceiptsFor(db, reply[p].req.key)

LEMMA AnswersInit == Init => AnswersInOrder
  BY DEF Init, AnswersInOrder

\* What is bound stays bound, and receipts are kept.
LEMMA AnswersStay ==
  ASSUME IInv, [Next]_vars, NEW r \in Submissions, Answered(db, r)
  PROVE  /\ Answered(db', r)
         /\ db'.idem[r.key] = db.idem[r.key]
         /\ \A i \in ReceiptsFor(db, r.key) : i \in ReceiptsFor(db', r.key)
<1>1. r.key \in Keys /\ db \in Images /\ db' \in Images
  BY SubmissionType, NextInv DEF IInv, TypeOK
<1>2. db' = db \/ Extends(db, db')
  BY HistoryStep
<1>3. Len(db.events) \in Nat /\ Len(db'.events) \in Nat
  BY <1>1 DEF Images
<1>4. db'.idem[r.key] = db.idem[r.key]
  BY <1>1, <1>2 DEF Answered, Extends
<1>5. \A i \in ReceiptsFor(db, r.key) : i \in ReceiptsFor(db', r.key)
  BY <1>2, <1>3 DEF ReceiptsFor, Extends
<1> QED
  BY <1>4, <1>5 DEF Answered

\* A process comes to hold a bound request by binding it or by a replay.
LEMMA ReceiptSteps ==
  ASSUME IInv, [Next]_vars, NEW q \in Procs, pc'[q] = "receipt"
  PROVE  \/ BeginReplay(q)
         \/ Commit(q)
         \/ pc[q] = "receipt" /\ req'[q] = req[q]
<1>1. /\ pc \in [Procs -> Locations]
      /\ req \in [Procs -> Submissions \cup {Nil}]
  BY DEF IInv, TypeOK
<1>2. ASSUME NEW p \in Procs, Call(p) \/ ReadSchema(p) \/ Serve(p) \/ Crash(p)
      PROVE  BeginReplay(q) \/ Commit(q) \/ (pc[q] = "receipt" /\ req'[q] = req[q])
  <2>1. CASE p = q
    BY <1>1, <1>2, <2>1 DEF Serve, Call, ReadSchema, Refuse, Busy, BeginFresh,
       BeginConflict, RunMutation, CloseTransaction, EnsureStructure,
       Rollback, ReadReceipt, CheckWritable, WriteSchema, CommitSchema, SchemaFails,
       Crash, Throw, Goto
  <2>2. CASE p # q
    BY <1>1, <1>2, <2>2 DEF Serve, Call, ReadSchema, Refuse, Busy, BeginFresh,
       BeginReplay, BeginConflict, RunMutation, CloseTransaction,
       EnsureStructure, Rollback, Commit, ReadReceipt, CheckWritable, WriteSchema,
       CommitSchema, SchemaFails, Crash, Throw, Goto
  <2> QED
    BY <2>1, <2>2
<1> QED
  BY <1>2 DEF Next, MarkQuarantined, vars

LEMMA ReplySteps ==
  ASSUME IInv, [Next]_vars, NEW q \in Procs, reply'[q] # Nil
  PROVE  ReadReceipt(q) \/ reply'[q] = reply[q]
<1>1. reply \in [Procs -> Replies \cup {Nil}]
  BY DEF IInv, TypeOK
<1> QED
  BY <1>1 DEF Next, vars, Serve, Call, ReadSchema, Refuse, Busy, BeginFresh,
     BeginReplay, BeginConflict, RunMutation, CloseTransaction, EnsureStructure,
     Rollback, Commit, ReadReceipt, CheckWritable, WriteSchema, CommitSchema,
     SchemaFails, Crash, MarkQuarantined

\* A single mutation, which no transaction precedes, binds the request as it
\* was submitted.
LEMMA SingleBinds ==
  ASSUME IInv, BlocksInOrder, NEW q \in Procs, RunMutation(q), req[q].kind = "record"
  PROVE  work'.idem[req[q].key].fp = req[q]
<1>1. /\ pc[q] = "body" /\ BlockOpen(q) /\ req[q] \in Submissions
      /\ work \in Images /\ txn \in Txns
  BY DEF RunMutation, BlocksInOrder, IInv, TypeOK, CallsInOrder, Serving
<1>2. PICK m \in Mutations, r \in Ids :
        /\ m = NextMutation(q)
        /\ txn.next \in 1..Len(req[q].ops)
        /\ Resolvable(work, req[q].ops[txn.next], txn.refs)
        /\ MayMutate(work, m, r)
        /\ work' = Mutated(work, m, r, req[q].actor, TxOf(q))
  BY MutationStep
<1>3. /\ Len(req[q].ops) = 1
      /\ req[q] = AsRequest(req[q].ops[1], req[q].actor)
      /\ req[q].ops[1] \in Mutations
  BY <1>1, EngineAssumption, SubmissionType DEF AcceptableCalls, Acceptable
<1>4. txn.next = 1 /\ txn.refs = [c \in Markers |-> Nil]
  <2>1. Len(work.events) - Len(db.events) = 0
    BY <1>1 DEF BlockOpen
  <2> QED
    BY <1>1, <2>1 DEF BlockOpen
<1>5. m = req[q].ops[1]
  BY <1>2, <1>3, <1>4, ResolvedPlain DEF NextMutation
<1>6. work'.idem[m.key].fp = AsRequest(m, req[q].actor)
  BY <1>1, <1>2, MutatedLeaves
<1>7. m.key = req[q].key
  BY <1>3, <1>5 DEF AsRequest
<1> QED
  BY <1>3, <1>5, <1>6, <1>7

LEMMA AnswersKept ==
  IInv /\ BlocksInOrder /\ AnswersInOrder /\ [Next]_vars => AnswersInOrder'
<1> SUFFICES ASSUME IInv, BlocksInOrder, AnswersInOrder, [Next]_vars, NEW q \in Procs
             PROVE  /\ pc'[q] = "commit" => Answered(work', req'[q])
                    /\ pc'[q] = "receipt" => Answered(db', req'[q])
                    /\ reply'[q] # Nil =>
                         /\ Answered(db', reply'[q].req)
                         /\ db'.idem[reply'[q].req.key].result = reply'[q].result
                         /\ reply'[q].receipt \in ReceiptsFor(db', reply'[q].req.key)
  BY DEF AnswersInOrder
<1>1. /\ Serving(q) => req[q] \in Submissions
      /\ pc[q] = "commit" => Answered(work, req[q])
      /\ pc[q] = "receipt" => Answered(db, req[q])
      /\ reply[q] # Nil =>
           /\ Answered(db, reply[q].req)
           /\ db.idem[reply[q].req.key].result = reply[q].result
           /\ reply[q].receipt \in ReceiptsFor(db, reply[q].req.key)
      /\ reply[q] # Nil => reply[q].req \in Submissions
      /\ work \in Images /\ db \in Images
  BY DEF AnswersInOrder, IInv, TypeOK, CallsInOrder, Replies
<1>2. ASSUME pc'[q] = "commit" PROVE Answered(work', req'[q])
  <2>1. work'.idem[req'[q].key] # Nil
    BY <1>2, NextInv DEF IInv, CallsInOrder, Fresh
  <2>2. CASE RunMutation(q) /\ req[q].kind = "record"
    BY <2>1, <2>2, SingleBinds DEF RunMutation, Answered
  <2>3. CASE CloseTransaction(q)
    <3>1. /\ req[q] \in Requests /\ req' = req
          /\ work' = Closed(work, req[q], txn.id, txn.children, txn.snapshots)
      BY <1>1, <2>3, SubmissionType DEF CloseTransaction, Serving
    <3> QED
      BY <1>1, <2>1, <3>1, ClosedLeaves DEF Answered
  <2>4. CASE EnsureStructure(q)
    <3>1. /\ req[q] \in Requests /\ req' = req
          /\ work' = Ensured(work, req[q], txn.id)
      BY <1>1, <2>4, SubmissionType DEF EnsureStructure, Serving
    <3> QED
      BY <1>1, <2>1, <3>1, EnsuredLeaves DEF Answered
  <2>5. CASE pc[q] = "commit" /\ req'[q] = req[q] /\ UNCHANGED <<db, work, txn>>
    BY <1>1, <2>5
  <2> QED
    BY <1>2, <2>2, <2>3, <2>4, <2>5, CommitSteps
<1>3. ASSUME pc'[q] = "receipt" PROVE Answered(db', req'[q])
  <2>1. CASE BeginReplay(q)
    BY <2>1 DEF BeginReplay, Replays, Answered
  <2>2. CASE Commit(q)
    BY <1>1, <2>2 DEF Commit
  <2>3. CASE pc[q] = "receipt" /\ req'[q] = req[q]
    BY <1>1, <2>3, AnswersStay DEF Serving
  <2> QED
    BY <1>3, <2>1, <2>2, <2>3, ReceiptSteps
<1>4. ASSUME reply'[q] # Nil
      PROVE  /\ Answered(db', reply'[q].req)
             /\ db'.idem[reply'[q].req.key].result = reply'[q].result
             /\ reply'[q].receipt \in ReceiptsFor(db', reply'[q].req.key)
  <2>1. CASE ReadReceipt(q)
    <3>1. PICK i \in ReceiptsFor(db, req[q].key) :
            reply' = [reply EXCEPT ![q] =
                        [req |-> req[q], result |-> db.idem[req[q].key].result,
                         receipt |-> i]]
      BY <2>1 DEF ReadReceipt
    <3>2. /\ reply'[q].req = req[q]
          /\ reply'[q].result = db.idem[req[q].key].result
          /\ reply'[q].receipt \in ReceiptsFor(db, req[q].key)
      BY <3>1 DEF IInv, TypeOK
    <3>3. db' = db /\ pc[q] = "receipt"
      BY <2>1 DEF ReadReceipt
    <3> QED
      BY <1>1, <3>2, <3>3
  <2>2. CASE reply'[q] = reply[q]
    BY <1>1, <1>4, <2>2, AnswersStay
  <2> QED
    BY <1>4, <2>1, <2>2, ReplySteps
<1> QED
  BY <1>2, <1>3, <1>4

\* What a caller was told, by the call that did the work or by a replay of it,
\* is in the database, and the receipt it was given is its key's.
THEOREM AnswersAreDurable == Spec => []RepliesAreDurable
<1>1. AnswersInOrder => RepliesAreDurable
  BY DEF AnswersInOrder, Answered, RepliesAreDurable, ReceiptsFor
<1> QED
  BY <1>1, AnswersInit, AnswersKept, BlocksInit, BlocksKept, Invariance, PTL DEF Spec

(***************************************************************************)
(* Exports.  What an open transaction will say it returned is stored.      *)
(***************************************************************************)
ExportsInOrder ==
  /\ Exportable(db)
  /\ Exportable(work)
  /\ \A p \in Procs : pc[p] = "body" =>
       \A n \in 1..Len(txn.snapshots) : txn.snapshots[n].rec \in Stored(work)

LEMMA ExportsInit == Init => ExportsInOrder
  BY EmptyExportable DEF Init, ExportsInOrder

\* One more snapshot, of the record the mutation wrote.
LEMMA SnapshotsGrow ==
  ASSUME IInv, ExportsInOrder, NEW q \in Procs, RunMutation(q)
  PROVE  /\ Exportable(work')
         /\ \A n \in 1..Len(txn'.snapshots) : txn'.snapshots[n].rec \in Stored(work')
<1>1. /\ pc[q] = "body" /\ txn \in Txns /\ work \in Images
      /\ Exportable(work)
      /\ \A n \in 1..Len(txn.snapshots) : txn.snapshots[n].rec \in Stored(work)
  BY DEF RunMutation, IInv, TypeOK, ExportsInOrder
<1>2. PICK m \in Mutations, r \in Ids :
        /\ req[q].actor \in Actors
        /\ MayMutate(work, m, r)
        /\ work' = Mutated(work, m, r, req[q].actor, TxOf(q))
        /\ txn' = Advanced(q, r, work')
  BY MutationStep
<1>3. /\ Exportable(work')
      /\ Stored(work) \subseteq Stored(work')
      /\ r \in Stored(work')
  BY <1>1, <1>2, MutatedExportable
<1>4. txn'.snapshots = Append(txn.snapshots, [rec |-> r, row |-> work'.records[r]])
  BY <1>2 DEF Advanced
<1>5. txn.snapshots \in Seq(Snapshots)
  BY <1>1 DEF Txns
<1> DEFINE s == txn.snapshots
           x == [rec |-> r, row |-> work'.records[r]]
<1>6. /\ Len(txn'.snapshots) = Len(s) + 1
      /\ \A n \in 1..Len(s) : txn'.snapshots[n] = s[n]
      /\ txn'.snapshots[Len(s) + 1] = x
  BY <1>4, <1>5
<1>7. ASSUME NEW n \in 1..Len(txn'.snapshots) PROVE txn'.snapshots[n].rec \in Stored(work')
  <2>1. n \in 1..Len(s) \/ n = Len(s) + 1
    BY <1>5, <1>6
  <2>2. CASE n \in 1..Len(s)
    BY <1>1, <1>3, <1>6, <2>2
  <2>3. CASE n = Len(s) + 1
    BY <1>3, <1>6, <2>3
  <2> QED
    BY <2>1, <2>2, <2>3
<1> QED
  BY <1>3, <1>7

LEMMA ExportsKept ==
  IInv /\ BlocksInOrder /\ ExportsInOrder /\ [Next]_vars => ExportsInOrder'
<1> SUFFICES ASSUME IInv, BlocksInOrder, ExportsInOrder, [Next]_vars
             PROVE  ExportsInOrder'
  OBVIOUS
<1>1. /\ Exportable(db) /\ Exportable(work)
      /\ db \in Images /\ work \in Images /\ Len(db.events) \in Nat
  BY DEF ExportsInOrder, IInv, TypeOK, Images
<1>2. ASSUME NEW p \in Procs, pc[p] = "body" PROVE req[p] \in Requests /\ txn.id # 0
  <2>1. req[p] \in Submissions
    BY <1>2 DEF IInv, CallsInOrder, Serving
  <2>2. txn.id = Len(db.events) + 1
    BY <1>2 DEF BlocksInOrder, BlockOpen
  <2> QED
    BY <1>1, <2>1, <2>2, SubmissionType
<1>3. Exportable(db') /\ Exportable(work')
  <2>1. CASE db' = db /\ work' \in {db, work}
    BY <1>1, <2>1
  <2>2. ASSUME NEW p \in Procs, RunMutation(p) PROVE Exportable(db') /\ Exportable(work')
    BY <1>1, <2>2, SnapshotsGrow DEF RunMutation
  <2>3. ASSUME NEW p \in Procs, CloseTransaction(p)
        PROVE  Exportable(db') /\ Exportable(work')
    <3>1. /\ pc[p] = "body" /\ db' = db
          /\ work' = Closed(work, req[p], txn.id, txn.children, txn.snapshots)
      BY <2>3 DEF CloseTransaction
    <3>2. /\ req[p] \in Requests /\ txn.id # 0
          /\ \A n \in 1..Len(txn.snapshots) : txn.snapshots[n].rec \in Stored(work)
      BY <1>1, <1>2, <3>1 DEF ExportsInOrder
    <3> QED
      BY <1>1, <3>1, <3>2, ClosedExportable
  <2>4. ASSUME NEW p \in Procs, EnsureStructure(p)
        PROVE  Exportable(db') /\ Exportable(work')
    <3>1. pc[p] = "body" /\ db' = db /\ work' = Ensured(work, req[p], txn.id)
      BY <2>4 DEF EnsureStructure
    <3>2. req[p] \in Requests /\ txn.id # 0
      BY <1>2, <3>1
    <3> QED
      BY <1>1, <3>1, <3>2, EnsuredExportable
  <2>5. ASSUME NEW p \in Procs, Commit(p) \/ CommitSchema(p)
        PROVE  Exportable(db') /\ Exportable(work')
    BY <1>1, <2>5 DEF Commit, CommitSchema, Release
  <2>6. ASSUME NEW p \in Procs, WriteSchema(p) PROVE Exportable(db') /\ Exportable(work')
    BY <1>1, <2>6, EvolvedExportable DEF WriteSchema
  <2> QED
    BY <2>1, <2>2, <2>3, <2>4, <2>5, <2>6, ImageSteps
<1>4. ASSUME NEW q \in Procs, pc'[q] = "body"
      PROVE  \A n \in 1..Len(txn'.snapshots) : txn'.snapshots[n].rec \in Stored(work')
  <2>1. CASE BeginFresh(q)
    BY <2>1 DEF BeginFresh, FreshTxn
  <2>2. CASE RunMutation(q)
    BY <2>2, SnapshotsGrow
  <2>3. CASE pc[q] = "body" /\ req'[q] = req[q] /\ UNCHANGED <<db, work, txn>>
    BY <2>3 DEF ExportsInOrder
  <2> QED
    BY <1>4, <2>1, <2>2, <2>3, BodySteps
<1> QED
  BY <1>3, <1>4 DEF ExportsInOrder

\* At any moment, whatever its callers have done to it, the committed database
\* passes every check of an export, and its rows make the same database again.
THEOREM ExportsSucceed == Spec => []PortableStates
<1> DEFINE All == IInv /\ LogsInOrder /\ BlocksInOrder /\ ExportsInOrder
<1>1. Init => All
  BY InitInv, LogsInit, BlocksInit, ExportsInit
<1>2. All /\ [Next]_vars => All'
  BY NextInv, LogsKept, BlocksKept, ExportsKept
<1>3. All => PortableStates
  BY ImagePortable
     DEF IInv, TypeOK, ImagesInOrder, LogsInOrder, LogSound, ExportsInOrder, PortableStates
<1> HIDE DEF All
<1> QED
  BY <1>1, <1>2, <1>3, PTL DEF Spec

(***************************************************************************)
(* Quarantine.                                                             *)
(***************************************************************************)
\* Once the marker exists, however many handles are open and whatever they
\* were doing, no call gets past its last look at the marker any more; what is
\* still published is what the transaction of one that had gets done, and each
\* does so at most once.
THEOREM QuarantineStops == Spec => QuarantineHolds
<1> DEFINE Quiet ==
      /\ PastTheMarker' \subseteq PastTheMarker
      /\ db' # db => db' = work /\ PastTheMarker' # PastTheMarker
      /\ work' \notin {work, db'} =>
           \E p \in PastTheMarker : work' = Evolved(db, seen[p].schema)
<1>1. ASSUME IInv, [Next]_vars, quarantined PROVE Quiet
  <2>1. ASSUME NEW p \in PastTheMarker' PROVE p \in PastTheMarker
    <3>1. p \in Procs /\ pc'[p] \in {"commit", "store", "publish"}
      BY <2>1 DEF PastTheMarker
    <3>2. CASE pc'[p] = "commit"
      BY <1>1, <3>1, <3>2, CommitSteps
         DEF PastTheMarker, RunMutation, CloseTransaction, EnsureStructure
    <3>3. CASE pc'[p] = "store"
      BY <1>1, <3>1, <3>3, SchemaSteps DEF PastTheMarker, CheckWritable
    <3>4. CASE pc'[p] = "publish"
      BY <1>1, <3>1, <3>4, SchemaSteps DEF PastTheMarker, WriteSchema
    <3> QED
      BY <3>1, <3>2, <3>3, <3>4
  <2>2. ASSUME db' # db PROVE db' = work /\ PastTheMarker' # PastTheMarker
    <3>1. PICK p \in Procs : Commit(p) \/ CommitSchema(p)
      BY <1>1, <2>2, ImageSteps
         DEF RunMutation, CloseTransaction, EnsureStructure, WriteSchema
    <3>2. /\ pc[p] \in {"commit", "publish"}
          /\ pc'[p] \in {"receipt", "idle"}
          /\ db' = work
      BY <1>1, <3>1 DEF Commit, CommitSchema, Goto, IInv, TypeOK
    <3> QED
      BY <3>2 DEF PastTheMarker
  <2>3. ASSUME work' \notin {work, db'}
        PROVE  \E p \in PastTheMarker : work' = Evolved(db, seen[p].schema)
    <3>1. PICK p \in Procs : WriteSchema(p)
      BY <1>1, <2>3, ImageSteps
         DEF RunMutation, CloseTransaction, EnsureStructure, Commit, CommitSchema, Release
    <3> QED
      BY <3>1 DEF WriteSchema, PastTheMarker
  <2> QED
    BY <2>1, <2>2, <2>3
<1>2. IInv /\ [Next]_vars => [quarantined => Quiet]_vars
  BY <1>1
<1> QED
  BY <1>2, Invariance, PTL DEF Spec, QuarantineHolds

(***************************************************************************)
(* AtomicStore extends the same DataStore: what it says of images is what  *)
(* the engine says of them.                                                *)
(***************************************************************************)
LEMMA SameReads ==
  ASSUME NEW d, NEW m, NEW r, NEW refs, NEW key, NEW q
  PROVE  /\ Atomic!CurrentSchema(d) = CurrentSchema(d)
         /\ Atomic!SchemaVersion(d) = SchemaVersion(d)
         /\ Atomic!Fresh(d, key) <=> Fresh(d, key)
         /\ Atomic!WellKeyed(q) <=> WellKeyed(q)
         /\ Atomic!Resolvable(d, m, refs) <=> Resolvable(d, m, refs)
         /\ Atomic!Resolved(d, m, refs) = Resolved(d, m, refs)
         /\ Atomic!ClientRefFree(m, refs) <=> ClientRefFree(m, refs)
         /\ Atomic!Bind(refs, m, r) = Bind(refs, m, r)
<1>1. /\ Atomic!CurrentSchema(d) = CurrentSchema(d)
      /\ Atomic!SchemaVersion(d) = SchemaVersion(d)
  BY DEF Atomic!CurrentSchema, CurrentSchema, Atomic!SchemaVersion, SchemaVersion
<1>2. Atomic!Fresh(d, key) <=> Fresh(d, key)
  BY DEF Atomic!Fresh, Fresh
<1>3. Atomic!WellKeyed(q) <=> WellKeyed(q)
  BY DEF Atomic!WellKeyed, WellKeyed
<1>4. /\ Atomic!Resolvable(d, m, refs) <=> Resolvable(d, m, refs)
      /\ Atomic!Resolved(d, m, refs) = Resolved(d, m, refs)
  BY DEF Atomic!Resolvable, Resolvable, Atomic!Resolved, Resolved, Atomic!IsMarked,
         IsMarked, Atomic!IsReference, IsReference, Atomic!CurrentSchema, CurrentSchema,
         Atomic!SchemaVersion, SchemaVersion
<1>5. Atomic!ClientRefFree(m, refs) <=> ClientRefFree(m, refs)
  BY DEF Atomic!ClientRefFree, ClientRefFree
<1>6. Atomic!Bind(refs, m, r) = Bind(refs, m, r)
  BY DEF Atomic!Bind, Bind
<1> QED
  BY <1>1, <1>2, <1>3, <1>4, <1>5, <1>6

LEMMA SameGuard ==
  ASSUME NEW d, NEW m, NEW r
  PROVE  Atomic!MayMutate(d, m, r) <=> MayMutate(d, m, r)
  BY DEF Atomic!MayMutate, MayMutate, Atomic!Fresh, Fresh, Atomic!MayCreate, MayCreate,
         Atomic!MayUpdate, MayUpdate, Atomic!MayDelete, MayDelete,
         Atomic!WithDefaults, WithDefaults, Atomic!Defaulted, Defaulted,
         Atomic!Validates, Validates, Atomic!ValidFieldValue, ValidFieldValue,
         Atomic!TargetsExist, TargetsExist, Atomic!Active, Active, Atomic!RefsOf, RefsOf,
         Atomic!Merge, Merge, Atomic!VersionMatches, VersionMatches,
         Atomic!Unreferenced, Unreferenced, Atomic!CurrentSchema, CurrentSchema,
         Atomic!SchemaVersion, SchemaVersion, Atomic!IsReference, IsReference

LEMMA SameMutation ==
  ASSUME NEW d, NEW m, NEW r, NEW actor, NEW tx
  PROVE  Atomic!Mutated(d, m, r, actor, tx) = Mutated(d, m, r, actor, tx)
<1>1. ASSUME NEW row, NEW refs, NEW x
      PROVE  Atomic!Written(d, x, row, refs, m, actor, tx) =
               Written(d, x, row, refs, m, actor, tx)
  BY DEF Atomic!Written, Written, Atomic!EntryOf, EntryOf, Atomic!EventOf, EventOf,
         Atomic!AsRequest, AsRequest, Atomic!NoAdds, NoAdds
<1>2. ASSUME NEW schema, NEW data
      PROVE  /\ Atomic!RefsOf(schema, data) = RefsOf(schema, data)
             /\ Atomic!WithDefaults(schema, data) = WithDefaults(schema, data)
  BY DEF Atomic!RefsOf, RefsOf, Atomic!IsReference, IsReference,
         Atomic!WithDefaults, WithDefaults, Atomic!Defaulted, Defaulted
<1>3. /\ Atomic!CreatedRow(d, m, actor) = CreatedRow(d, m, actor)
      /\ Atomic!UpdatedRow(d, m, actor) = UpdatedRow(d, m, actor)
      /\ Atomic!DeletedRow(d, m, actor) = DeletedRow(d, m, actor)
      /\ Atomic!NoRefs = NoRefs
  BY <1>2, SameReads
     DEF Atomic!CreatedRow, CreatedRow, Atomic!UpdatedRow, UpdatedRow,
         Atomic!DeletedRow, DeletedRow, Atomic!Merge, Merge, Atomic!NoRefs, NoRefs
<1>4. /\ Atomic!Created(d, m, r, actor, tx) = Created(d, m, r, actor, tx)
      /\ Atomic!Updated(d, m, actor, tx) = Updated(d, m, actor, tx)
      /\ Atomic!Deleted(d, m, actor, tx) = Deleted(d, m, actor, tx)
  BY <1>1, <1>2, <1>3, SameReads
     DEF Atomic!Created, Created, Atomic!Updated, Updated, Atomic!Deleted, Deleted
<1> QED
  BY <1>4 DEF Atomic!Mutated, Mutated

LEMMA SameClosing ==
  ASSUME NEW d, NEW q, NEW tx, NEW children, NEW snapshots
  PROVE  Atomic!Closed(d, q, tx, children, snapshots) =
           Closed(d, q, tx, children, snapshots)
  BY DEF Atomic!Closed, Closed, Atomic!ClosingEntry, ClosingEntry,
         Atomic!ClosingEvent, ClosingEvent, Atomic!SchemaVersion, SchemaVersion

LEMMA SameSchemas ==
  ASSUME NEW d, NEW schema, NEW adds, NEW q, NEW tx
  PROVE  /\ Atomic!MayAddFields(schema, adds) <=> MayAddFields(schema, adds)
         /\ Atomic!WithFields(schema, adds) = WithFields(schema, adds)
         /\ Atomic!Evolved(d, schema) = Evolved(d, schema)
         /\ Atomic!MayEnsure(d, q) <=> MayEnsure(d, q)
         /\ Atomic!Ensured(d, q, tx) = Ensured(d, q, tx)
<1>1. ASSUME NEW s, NEW more
      PROVE  /\ Atomic!MayAddFields(s, more) <=> MayAddFields(s, more)
             /\ Atomic!WithFields(s, more) = WithFields(s, more)
             /\ Atomic!Missing(s, more) = Missing(s, more)
             /\ Atomic!Compatible(s, more) <=> Compatible(s, more)
             /\ Atomic!Evolved(d, s) = Evolved(d, s)
             /\ Atomic!NoAdds = NoAdds
  BY DEF Atomic!MayAddFields, MayAddFields, Atomic!MayAddField, MayAddField,
         Atomic!ValidDefinition, ValidDefinition, Atomic!ValidFieldValue, ValidFieldValue,
         Atomic!WithFields, WithFields, Atomic!Missing, Missing,
         Atomic!Compatible, Compatible, Atomic!Evolved, Evolved, Atomic!NoAdds, NoAdds
<1>2. Atomic!MayEnsure(d, q) <=> MayEnsure(d, q)
  BY <1>1, SameReads DEF Atomic!MayEnsure, MayEnsure
<1>3. Atomic!Ensured(d, q, tx) = Ensured(d, q, tx)
  BY <1>1, SameReads, SameClosing DEF Atomic!Ensured, Ensured
<1> QED
  BY <1>1, <1>2, <1>3

LEMMA SameOutcome ==
  ASSUME NEW d, NEW r, NEW recs, NEW tx, Len(r.ops) \in Nat
  PROVE  Atomic!Outcome(d, r, recs, tx) = Outcome(d, r, recs, tx)
<1> DEFINE n == Len(r.ops)
           Run(f) == f = [k \in 0..Len(r.ops) |->
                            IF k = 0 THEN Atomic!Begun(d)
                            ELSE Atomic!Continued(f[k - 1], r.ops[k], recs[k], r.actor, tx)]
<1>1. Atomic!Outcome(d, r, recs, tx) = (CHOOSE f : Run(f))[n]
  BY DEF Atomic!Outcome
<1>2. ASSUME NEW f PROVE Run(f) <=> IsRun(f, d, r, recs, tx, n)
  <2>1. Atomic!Begun(d) = Begun(d)
    BY DEF Atomic!Begun, Begun
  <2>2. ASSUME NEW o, NEW m, NEW x, NEW actor
        PROVE  Atomic!Continued(o, m, x, actor, tx) = Continued(o, m, x, actor, tx)
    BY SameReads, SameGuard, SameMutation DEF Atomic!Continued, Continued
  <2> QED
    BY <2>1, <2>2 DEF IsRun
<1> HIDE DEF Run, n
<1>3. PICK f : IsRun(f, d, r, recs, tx, n)
  BY RunExists DEF n
<1>4. IsRun(CHOOSE g : Run(g), d, r, recs, tx, n)
  BY <1>2, <1>3
<1>5. PICK g : IsRun(g, d, r, recs, tx, n) /\ After(d, r, recs, tx, n) = g[n]
  BY AfterIsRun DEF n
<1>6. n \in Nat /\ n <= n /\ n \in 0..n
  BY DEF n
<1>7. (CHOOSE h : Run(h))[n] = g[n]
  <2> DEFINE c == CHOOSE h : Run(h)
  <2>1. IsRun(c, d, r, recs, tx, n)
    BY <1>4
  <2> HIDE DEF c
  <2>2. c[n] = g[n]
    BY <1>5, <1>6, <2>1, RunsAgree
  <2> QED
    BY <2>2 DEF c
<1> QED
  BY <1>1, <1>5, <1>7, OutcomeIsAfter DEF n

LEMMA SamePerformance ==
  ASSUME NEW d, NEW r, Len(r.ops) \in Nat
  PROVE  /\ Atomic!MayPerform(d, r) <=> MayPerform(d, r)
         /\ Atomic!Performed(d, r) = Performed(d, r)
<1>1. Atomic!MayPerform(d, r) <=> MayPerform(d, r)
  BY SameReads, SameSchemas DEF Atomic!MayPerform, MayPerform
<1>2. ASSUME NEW tx PROVE Atomic!Outcomes(d, r, tx) = Outcomes(d, r, tx)
  BY SameOutcome DEF Atomic!Outcomes, Outcomes
<1> DEFINE tx == Len(d.events) + 1
<1>3. /\ {o.image : o \in Atomic!Outcomes(d, r, 0)} = {o.image : o \in Outcomes(d, r, 0)}
      /\ {Atomic!Closed(o.image, r, tx, o.children, o.snapshots) :
            o \in Atomic!Outcomes(d, r, tx)}
           = {Closed(o.image, r, tx, o.children, o.snapshots) : o \in Outcomes(d, r, tx)}
      /\ {Atomic!Ensured(d, r, tx)} = {Ensured(d, r, tx)}
  BY <1>2, SameClosing, SameSchemas
<1>4. Atomic!Performed(d, r) = Performed(d, r)
  BY <1>3 DEF Atomic!Performed, Performed
<1> QED
  BY <1>1, <1>4

LEMMA SameRequests ==
  Atomic!Requested(db, Submissions, Evolutions) = Requested(db, Submissions, Evolutions)
<1>1. \A r \in Submissions : Len(r.ops) \in Nat
  BY SubmissionType
<1>2. UNION {Atomic!Performed(db, q) : q \in {r \in Submissions : Atomic!MayPerform(db, r)}}
        = UNION {Performed(db, q) : q \in {r \in Submissions : MayPerform(db, r)}}
  BY <1>1, SamePerformance
<1>3. {Atomic!Evolved(db, Atomic!WithFields(Atomic!CurrentSchema(db), adds)) :
         adds \in {a \in Evolutions : Atomic!MayAddFields(Atomic!CurrentSchema(db), a)}}
        = {Evolved(db, WithFields(CurrentSchema(db), adds)) :
             adds \in {a \in Evolutions : MayAddFields(CurrentSchema(db), a)}}
  BY SameReads, SameSchemas
<1> QED
  BY <1>2, <1>3 DEF Atomic!Requested, Requested

(***************************************************************************)
(* The invariant of the refinement.  While a transaction is open, its      *)
(* private image is the outcome, on the committed image, of the mutations  *)
(* it has carried out; when it is about to commit, of the whole request.   *)
(* A caller that has read the schema holds what its fields make of the     *)
(* version it read.                                                        *)
(***************************************************************************)
Progress ==
  [ok |-> TRUE, image |-> work, refs |-> txn.refs, children |-> txn.children,
   snapshots |-> txn.snapshots]

UnderWay(p) ==
  /\ WellKeyed(req[p])
  /\ Fresh(db, req[p].key)
  /\ txn.next - 1 <= Len(req[p].ops)
  /\ \E recs \in [1..(txn.next - 1) -> Ids] :
       After(db, req[p], recs, TxOf(p), txn.next - 1) = Progress

Complete(r, image) == MayPerform(db, r) /\ image \in Performed(db, r)

ReadFrom(schema, next) ==
  \E adds \in Evolutions :
    MayAddFields(schema, adds) /\ next = WithFields(schema, adds)

\* An image is the committed one with the fields of one evolution more.
NextVersion(image) ==
  \E schema \in Schemas :
    ReadFrom(CurrentSchema(db), schema) /\ image = Evolved(db, schema)

WholeInOrder ==
  \A p \in Procs :
    /\ pc[p] = "body" => UnderWay(p)
    /\ pc[p] = "commit" => Complete(req[p], work)
    /\ pc[p] \in {"schema", "store"} =>
         ReadFrom(db.schemas[seen[p].version], seen[p].schema)
    /\ pc[p] = "publish" => NextVersion(work)

\* A mutation that succeeds takes the outcome of those before it one further.
LEMMA ProgressContinues ==
  ASSUME NEW m, NEW r, NEW actor, NEW tx,
         Resolvable(work, m, txn.refs),
         ClientRefFree(m, txn.refs),
         MayMutate(work, Resolved(work, m, txn.refs), r),
         work' = Mutated(work, Resolved(work, m, txn.refs), r, actor, tx)
  PROVE  Continued(Progress, m, r, actor, tx) =
           [ok |-> TRUE, image |-> work', refs |-> Bind(txn.refs, m, r),
            children  |-> Append(txn.children, Len(work'.events)),
            snapshots |-> Append(txn.snapshots, [rec |-> r, row |-> work'.records[r]])]
<1>1. /\ Progress.ok /\ Progress.image = work /\ Progress.refs = txn.refs
      /\ Progress.children = txn.children /\ Progress.snapshots = txn.snapshots
  BY DEF Progress
<1>2. Goes(Progress, m, r)
  BY <1>1 DEF Goes
<1>3. work' = Mutated(Progress.image, Resolved(Progress.image, m, Progress.refs), r,
                      actor, tx)
  BY <1>1
<1> QED
  BY <1>1, <1>2, <1>3, ContinuedGoes

LEMMA WholeInit == Init => WholeInOrder
  BY DEF Init, WholeInOrder

\* No mutation is carried out yet.
LEMMA WayOpens ==
  ASSUME IInv, NEW q \in Procs, BeginFresh(q)
  PROVE  UnderWay(q)'
<1>1. /\ txn' = FreshTxn /\ work' = db /\ db' = db /\ req' = req
      /\ WellKeyed(req[q]) /\ Fresh(db, req[q].key)
      /\ req[q] \in Submissions
  BY DEF BeginFresh, MayBegin, IInv, CallsInOrder, Serving
<1>2. Len(req[q].ops) \in Nat
  BY <1>1, SubmissionType
<1>3. PICK recs : recs \in [1..0 -> Ids]
  <2>1. [k \in 1..0 |-> CHOOSE i \in Ids : TRUE] \in [1..0 -> Ids]
    OBVIOUS
  <2> QED
    BY <2>1
<1>4. txn'.next - 1 = 0
  BY <1>1 DEF FreshTxn
<1>5. Progress' = Begun(db')
  BY <1>1 DEF Progress, FreshTxn, Begun
<1>6. After(db', req'[q], recs, TxOf(q)', 0) = Progress'
  BY <1>5, AfterNone
<1>7. /\ WellKeyed(req[q])' /\ Fresh(db, req[q].key)'
      /\ txn'.next - 1 <= Len(req'[q].ops)
  BY <1>1, <1>2, <1>4 DEF WellKeyed, Fresh
<1>8. \E rs \in [1..(txn'.next - 1) -> Ids] :
        After(db', req'[q], rs, TxOf(q)', txn'.next - 1) = Progress'
  BY <1>3, <1>4, <1>6
<1> QED
  BY <1>7, <1>8 DEF UnderWay

\* One more mutation is carried out.
LEMMA MutationOutcome ==
  ASSUME IInv, NEW q \in Procs, RunMutation(q), UnderWay(q)
  PROVE  /\ txn.next \in 1..Len(req[q].ops)
         /\ txn'.next = txn.next + 1
         /\ \E recs \in [1..txn.next -> Ids] :
              After(db, req[q], recs, TxOf(q), txn.next) = Progress'
<1> DEFINE n == txn.next - 1
           op == req[q].ops[txn.next]
<1>1. PICK m \in Mutations, r \in Ids :
        /\ m = NextMutation(q)
        /\ txn.next \in 1..Len(req[q].ops)
        /\ Resolvable(work, op, txn.refs)
        /\ ClientRefFree(op, txn.refs)
        /\ MayMutate(work, m, r)
        /\ work' = Mutated(work, m, r, req[q].actor, TxOf(q))
        /\ txn' = Advanced(q, r, work')
  BY MutationStep
<1>2. req[q] \in Submissions /\ txn \in Txns
  BY DEF RunMutation, IInv, TypeOK, CallsInOrder, Serving
<1>3. n \in Nat /\ n + 1 = txn.next
  BY <1>1, <1>2, SubmissionType DEF Txns
<1>4. PICK recs \in [1..n -> Ids] : After(db, req[q], recs, TxOf(q), n) = Progress
  BY DEF UnderWay
<1> DEFINE more == [k \in 1..txn.next |-> IF k = txn.next THEN r ELSE recs[k]]
<1>5. /\ more \in [1..txn.next -> Ids]
      /\ more[n + 1] = r
      /\ \A k \in 1..n : recs[k] = more[k]
  BY <1>1, <1>3, <1>4
<1> HIDE DEF more
<1>6. After(db, req[q], more, TxOf(q), n) = Progress
  <2>1. After(db, req[q], recs, TxOf(q), n) = After(db, req[q], more, TxOf(q), n)
    <3> HIDE DEF n
    <3> QED
      BY <1>3, <1>5, AfterSame
  <2> QED
    BY <1>4, <2>1
<1>7. After(db, req[q], more, TxOf(q), n + 1) =
        Continued(Progress, op, r, req[q].actor, TxOf(q))
  BY <1>3, <1>5, <1>6, AfterOneMore
<1>8. Continued(Progress, op, r, req[q].actor, TxOf(q)) = Progress'
  <2>1. /\ MayMutate(work, Resolved(work, op, txn.refs), r)
        /\ work' = Mutated(work, Resolved(work, op, txn.refs), r, req[q].actor, TxOf(q))
    BY <1>1 DEF NextMutation
  <2>2. Continued(Progress, op, r, req[q].actor, TxOf(q)) =
          [ok |-> TRUE, image |-> work', refs |-> Bind(txn.refs, op, r),
           children  |-> Append(txn.children, Len(work'.events)),
           snapshots |-> Append(txn.snapshots, [rec |-> r, row |-> work'.records[r]])]
    BY <1>1, <2>1, ProgressContinues
  <2>3. /\ txn'.refs = Bind(txn.refs, op, r)
        /\ txn'.children = Append(txn.children, Len(work'.events))
        /\ txn'.snapshots = Append(txn.snapshots, [rec |-> r, row |-> work'.records[r]])
    BY <1>1 DEF Advanced
  <2> QED
    BY <2>2, <2>3 DEF Progress
<1>9. txn'.next = txn.next + 1
  BY <1>1 DEF Advanced
<1> QED
  BY <1>1, <1>3, <1>5, <1>7, <1>8, <1>9

LEMMA WayGrows ==
  ASSUME IInv, NEW q \in Procs, RunMutation(q), UnderWay(q), req[q].kind # "record"
  PROVE  UnderWay(q)'
<1>1. /\ txn.next \in 1..Len(req[q].ops)
      /\ txn'.next = txn.next + 1
      /\ \E recs \in [1..txn.next -> Ids] :
           After(db, req[q], recs, TxOf(q), txn.next) = Progress'
  BY MutationOutcome
<1>2. db' = db /\ req' = req
  BY DEF RunMutation
<1>3. txn'.id = txn.id
  <2>1. \E r \in Ids : txn' = Advanced(q, r, work')
    BY DEF RunMutation
  <2> QED
    BY <2>1 DEF Advanced
<1>4. TxOf(q)' = TxOf(q)
  BY <1>2, <1>3 DEF TxOf
<1>5. txn'.next - 1 = txn.next
  BY <1>1
<1> QED
  BY <1>1, <1>2, <1>4, <1>5 DEF UnderWay

(***************************************************************************)
(* The three ways a request is complete.                                   *)
(***************************************************************************)
LEMMA RecordCompletes ==
  ASSUME IInv, NEW q \in Procs, RunMutation(q), UnderWay(q), req[q].kind = "record"
  PROVE  Complete(req[q], work)'
<1>1. /\ txn.next \in 1..Len(req[q].ops)
      /\ \E recs \in [1..txn.next -> Ids] :
           After(db, req[q], recs, TxOf(q), txn.next) = Progress'
  BY MutationOutcome
<1>2. /\ db' = db /\ req' = req /\ TxOf(q) = 0
      /\ Fresh(db, req[q].key) /\ WellKeyed(req[q])
      /\ req[q] \in Submissions
  BY DEF RunMutation, TxOf, UnderWay, IInv, CallsInOrder, Serving
<1>3. txn.next = Len(req[q].ops)
  BY <1>1, <1>2, EngineAssumption DEF AcceptableCalls, Acceptable
<1>4. PICK recs \in [1..Len(req[q].ops) -> Ids] :
        Outcome(db, req[q], recs, 0) = Progress'
  BY <1>1, <1>2, <1>3, OutcomeIsAfter
<1>5. Progress' \in Outcomes(db, req[q], 0)
  BY <1>4 DEF Outcomes, Progress
<1>6. Progress'.image = work'
  BY DEF Progress
<1>7. work' \in Performed(db, req[q])
  BY <1>5, <1>6 DEF Performed
<1>8. MayPerform(db, req[q])
  BY <1>2 DEF MayPerform
<1> QED
  BY <1>2, <1>7, <1>8 DEF Complete

LEMMA TransactionCompletes ==
  ASSUME IInv, NEW q \in Procs, CloseTransaction(q), UnderWay(q), BlockOpen(q)
  PROVE  Complete(req[q], work)'
<1>1. /\ db' = db /\ req' = req
      /\ req[q].kind = "transaction"
      /\ ~(txn.next <= Len(req[q].ops)) /\ txn.next - 1 <= Len(req[q].ops)
      /\ WellKeyed(req[q]) /\ Fresh(db, req[q].key)
      /\ work' = Closed(work, req[q], txn.id, txn.children, txn.snapshots)
      /\ req[q] \in Submissions /\ txn \in Txns
      /\ txn.id = Len(db.events) + 1
  BY DEF CloseTransaction, MoreMutations, UnderWay, BlockOpen, IInv, TypeOK,
         CallsInOrder, Serving
<1>2. txn.next - 1 = Len(req[q].ops)
  BY <1>1, SubmissionType DEF Txns
<1>3. TxOf(q) = Len(db.events) + 1
  BY <1>1 DEF TxOf
<1>4. PICK recs \in [1..Len(req[q].ops) -> Ids] :
        Outcome(db, req[q], recs, Len(db.events) + 1) = Progress
  BY <1>2, <1>3, OutcomeIsAfter DEF UnderWay
<1>5. Progress \in Outcomes(db, req[q], Len(db.events) + 1)
  BY <1>4 DEF Outcomes, Progress
<1>6. work' = Closed(Progress.image, req[q], Len(db.events) + 1, Progress.children,
                     Progress.snapshots)
  BY <1>1 DEF Progress
<1>7. work' \in Performed(db, req[q])
  BY <1>1, <1>5, <1>6 DEF Performed
<1>8. MayPerform(db, req[q])
  BY <1>1 DEF MayPerform
<1> QED
  BY <1>1, <1>7, <1>8 DEF Complete

LEMMA EnsureCompletes ==
  ASSUME IInv, NEW q \in Procs, EnsureStructure(q), UnderWay(q), BlockOpen(q)
  PROVE  Complete(req[q], work)'
<1>1. /\ db' = db /\ req' = req
      /\ req[q].kind = "ensure"
      /\ MayEnsure(work, req[q])
      /\ work' = Ensured(work, req[q], txn.id)
      /\ Fresh(db, req[q].key) /\ WellKeyed(req[q])
      /\ txn.id = Len(db.events) + 1
  BY DEF EnsureStructure, UnderWay, BlockOpen
<1>2. txn.next - 1 = 0
  BY <1>1, CommittedPrefix DEF BlockOpen
<1>3. Progress = Begun(db)
  BY <1>2, AfterNone DEF UnderWay
<1>4. work = db
  BY <1>3 DEF Progress, Begun
<1>5. work' \in Performed(db, req[q])
  BY <1>1, <1>4 DEF Performed
<1>6. MayPerform(db, req[q])
  BY <1>1, <1>4 DEF MayPerform
<1> QED
  BY <1>1, <1>5, <1>6 DEF Complete

\* What a caller holds comes from a version that stays what it was.
LEMMA ReadKept ==
  ASSUME IInv, SchemasInOrder, WholeInOrder, [Next]_vars, NEW q \in Procs,
         pc'[q] \in {"schema", "store"}
  PROVE  ReadFrom(db'.schemas[seen'[q].version], seen'[q].schema)
<1>1. /\ pc \in [Procs -> Locations]
      /\ seen \in [Procs -> [version : Nat, schema : Schemas]]
      /\ db \in Images
  BY DEF IInv, TypeOK
<1>2. CASE ReadSchema(q)
  <2>1. PICK adds \in Evolutions :
          /\ MayAddFields(CurrentSchema(db), adds)
          /\ seen' = [seen EXCEPT ![q] =
                        [version |-> SchemaVersion(db),
                         schema  |-> WithFields(CurrentSchema(db), adds)]]
    BY <1>2 DEF ReadSchema
  <2>2. /\ db'.schemas[seen'[q].version] = CurrentSchema(db)
        /\ seen'[q].schema = WithFields(CurrentSchema(db), adds)
    BY <1>1, <1>2, <2>1 DEF ReadSchema, CurrentSchema
  <2> QED
    BY <2>1, <2>2 DEF ReadFrom
<1>3. CASE ~ReadSchema(q)
  <2>1. pc[q] \in {"schema", "store"} /\ seen'[q] = seen[q]
    BY <1>1, <1>3 DEF Next, Serve, vars, Call, ReadSchema, Refuse, Busy, BeginFresh,
       BeginReplay, BeginConflict, RunMutation, CloseTransaction, EnsureStructure,
       Rollback, Commit, ReadReceipt, CheckWritable, WriteSchema, CommitSchema,
       SchemaFails, Crash, Throw, Goto, MarkQuarantined
  <2>2. \A i \in 1..SchemaVersion(db) : db'.schemas[i] = db.schemas[i]
    BY HistoryStep DEF Extends, SchemaVersion
  <2>3. /\ ReadFrom(db.schemas[seen[q].version], seen[q].schema)
        /\ seen[q].version \in 1..SchemaVersion(db)
    BY <2>1 DEF WholeInOrder, SchemasInOrder
  <2> QED
    BY <2>1, <2>2, <2>3
<1> QED
  BY <1>2, <1>3

\* The comparison of versions makes what the caller had read the last version.
LEMMA VersionWritten ==
  ASSUME IInv, WholeInOrder, NEW q \in Procs, WriteSchema(q)
  PROVE  NextVersion(work)'
<1>1. /\ ReadFrom(CurrentSchema(db), seen[q].schema)
      /\ work' = Evolved(db, seen[q].schema)
      /\ db' = db
  BY DEF WriteSchema, WholeInOrder, CurrentSchema
<1>2. seen[q].schema \in Schemas
  BY DEF IInv, TypeOK
<1> QED
  BY <1>1, <1>2 DEF NextVersion, CurrentSchema, SchemaVersion

LEMMA WholeKept ==
  IInv /\ SchemasInOrder /\ BlocksInOrder /\ WholeInOrder /\ [Next]_vars
    => WholeInOrder'
<1> SUFFICES ASSUME IInv, SchemasInOrder, BlocksInOrder, WholeInOrder, [Next]_vars,
                    NEW q \in Procs
             PROVE  /\ pc'[q] = "body" => UnderWay(q)'
                    /\ pc'[q] = "commit" => Complete(req[q], work)'
                    /\ pc'[q] \in {"schema", "store"} =>
                         ReadFrom(db'.schemas[seen'[q].version], seen'[q].schema)
                    /\ pc'[q] = "publish" => NextVersion(work)'
  BY DEF WholeInOrder
<1>1. /\ pc[q] = "body" => UnderWay(q) /\ BlockOpen(q)
      /\ pc[q] = "commit" => Complete(req[q], work)
  BY DEF WholeInOrder, BlocksInOrder
<1>2. ASSUME pc'[q] = "body" PROVE UnderWay(q)'
  <2>1. CASE BeginFresh(q)
    BY <2>1, WayOpens
  <2>2. CASE RunMutation(q) /\ req[q].kind # "record"
    BY <1>1, <2>2, WayGrows DEF RunMutation
  <2>3. CASE pc[q] = "body" /\ req'[q] = req[q] /\ UNCHANGED <<db, work, txn>>
    BY <1>1, <2>3 DEF UnderWay, TxOf, Progress, WellKeyed, Fresh
  <2> QED
    BY <1>2, <2>1, <2>2, <2>3, BodySteps
<1>3. ASSUME pc'[q] = "commit" PROVE Complete(req[q], work)'
  <2>1. CASE RunMutation(q) /\ req[q].kind = "record"
    BY <1>1, <2>1, RecordCompletes DEF RunMutation
  <2>2. CASE CloseTransaction(q)
    BY <1>1, <2>2, TransactionCompletes DEF CloseTransaction
  <2>3. CASE EnsureStructure(q)
    BY <1>1, <2>3, EnsureCompletes DEF EnsureStructure
  <2>4. CASE pc[q] = "commit" /\ req'[q] = req[q] /\ UNCHANGED <<db, work, txn>>
    BY <1>1, <2>4 DEF Complete
  <2> QED
    BY <1>3, <2>1, <2>2, <2>3, <2>4, CommitSteps
<1>4. ASSUME pc'[q] = "publish" PROVE NextVersion(work)'
  <2>1. CASE WriteSchema(q)
    BY <2>1, VersionWritten
  <2>2. CASE pc[q] = "publish" /\ UNCHANGED <<db, work>>
    BY <2>2 DEF WholeInOrder, NextVersion, CurrentSchema, SchemaVersion
  <2> QED
    BY <1>4, <2>1, <2>2, SchemaSteps
<1> QED
  BY <1>2, <1>3, <1>4, ReadKept

(***************************************************************************)
(* Every step maps to a step of the atomic store or leaves the committed   *)
(* image alone.                                                            *)
(***************************************************************************)
LEMMA CommitIsARequest ==
  ASSUME IInv, WholeInOrder, NEW q \in Procs, Commit(q)
  PROVE  db' \in Requested(db, Submissions, Evolutions)
<1>1. /\ req[q] \in Submissions
      /\ Complete(req[q], work)
      /\ db' = work
  BY DEF Commit, IInv, CallsInOrder, Serving, WholeInOrder
<1> QED
  BY <1>1, RequestedCases DEF Complete

LEMMA CommitSchemaIsAnEvolution ==
  ASSUME WholeInOrder, NEW q \in Procs, CommitSchema(q)
  PROVE  db' \in Requested(db, Submissions, Evolutions)
<1>1. NextVersion(work) /\ db' = work
  BY DEF CommitSchema, WholeInOrder
<1>2. PICK schema \in Schemas :
        ReadFrom(CurrentSchema(db), schema) /\ work = Evolved(db, schema)
  BY <1>1 DEF NextVersion
<1>3. PICK adds \in Evolutions :
        /\ MayAddFields(CurrentSchema(db), adds)
        /\ schema = WithFields(CurrentSchema(db), adds)
  BY <1>2 DEF ReadFrom
<1> QED
  BY <1>1, <1>2, <1>3, RequestedCases

LEMMA StepsSimulate ==
  ASSUME IInv, WholeInOrder, [Next]_vars
  PROVE  [Atomic!Next]_db
<1> SUFFICES ASSUME db' # db
             PROVE  db' \in Atomic!Requested(db, Submissions, Evolutions)
  BY DEF Atomic!Next
<1>1. \E q \in Procs : Commit(q) \/ CommitSchema(q)
  BY ImageSteps DEF RunMutation, CloseTransaction, EnsureStructure, WriteSchema
<1> QED
  BY <1>1, CommitIsARequest, CommitSchemaIsAnEvolution, SameRequests

LEMMA InitSimulates == Init => Atomic!Init
  BY DEF Init, Atomic!Init, Atomic!EmptyImage, EmptyImage, Atomic!NoRefs, NoRefs

\* Whatever the interleaving, the crashes, the retries and the quarantine, and
\* however many callers, records, keys and mutations there are, the committed
\* image changes only by one whole request at a time, carried out on the image
\* the one before it left, and at most once: each publication of a private
\* image, and each stored schema version, is a step of the atomic store.
THEOREM Refinement == Spec => ImplementsAtomicStore
<1> DEFINE All == IInv /\ SchemasInOrder /\ BlocksInOrder /\ WholeInOrder
<1>1. Init => All
  BY InitInv, SchemasInit, BlocksInit, WholeInit
<1>2. All /\ [Next]_vars => All'
  BY NextInv, SchemasKept, BlocksKept, WholeKept
<1>3. All /\ [Next]_vars => [Atomic!Next]_db
  BY StepsSimulate
<1> HIDE DEF All
<1> QED
  BY <1>1, <1>2, <1>3, InitSimulates, PTL DEF Spec, ImplementsAtomicStore, Atomic!Spec
===============================================================================
