------------------------ MODULE MCRecordTransactions ------------------------
(***************************************************************************)
(* Small instances of RecordTransactions: the requests the callers of each *)
(* run submit, the schemas they start from and the fields they add.        *)
(***************************************************************************)
EXTENDS RecordTransactions, TLC

CONSTANTS a, b, f, g, c, u, v, k1, k2, k3, k4, k5, k6, k7

Symmetry == Permutations(Procs)

(***************************************************************************)
(* Fields, objects and mutations.                                          *)
(***************************************************************************)
Optional(type) ==
  [type |-> type, required |-> FALSE, nullable |-> TRUE, default |-> Absent]

RequiredWith(type, value) ==
  [type |-> type, required |-> TRUE, nullable |-> FALSE, default |-> value]

NullByDefault(type) ==
  [type |-> type, required |-> TRUE, nullable |-> TRUE, default |-> Null]

Adds(field, def) == [NoAdds EXCEPT ![field] = def]

Empty == [x \in Fields |-> Absent]

Holding(field, value) == [Empty EXCEPT ![field] = value]

Create(key, data) ==
  [op |-> "data.record.create", key |-> key, rec |-> Nil, expected |-> 0,
   data |-> data, clientRef |-> Nil]

CreateNamed(key, data, name) == [Create(key, data) EXCEPT !.clientRef = name]

Update(key, r, version, patch) ==
  [op |-> "data.record.update", key |-> key, rec |-> r, expected |-> version,
   data |-> patch, clientRef |-> Nil]

Delete(key, r, version) ==
  [op |-> "data.record.delete", key |-> key, rec |-> r, expected |-> version,
   data |-> Empty, clientRef |-> Nil]

Transaction(key, actor, ops) ==
  [kind |-> "transaction", key |-> key, actor |-> actor, ops |-> ops,
   adds |-> NoAdds]

Ensure(key, actor, adds) ==
  [kind |-> "ensure", key |-> key, actor |-> actor, ops |-> <<>>, adds |-> adds]

(***************************************************************************)
(* Schemas and evolutions.                                                 *)
(***************************************************************************)
\* f refers to another record; g is not declared yet.
ReferenceSchema == Adds(f, Optional("reference"))

NoEvolutions == {}

\* Two callers race to declare g, one as a reference and one as a string.
GrowingEvolutions ==
  {Adds(g, NullByDefault("reference")), Adds(g, RequiredWith("string", a))}

(***************************************************************************)
(* Single-record calls: writers that read the same version of a record, a  *)
(* delete of the version one of them makes, references that keep their     *)
(* target or move away from it, a key that another actor uses, and every   *)
(* call resubmitted at any time.                                           *)
(***************************************************************************)
RecordCalls ==
  {AsRequest(Create(k1, Empty), u),
   AsRequest(Create(k1, Empty), v),
   AsRequest(Create(k5, Holding(f, a)), v),
   AsRequest(Update(k2, a, 1, Holding(f, b)), u),
   AsRequest(Update(k3, a, 1, Holding(f, Null)), v),
   AsRequest(Update(k2, b, 1, Holding(f, b)), u),
   AsRequest(Delete(k4, a, 2), v)}

(***************************************************************************)
(* Transactions: creates that refer to earlier creates of the same         *)
(* transaction, one that links what another made and one that removes it;  *)
(* a nested mutation that is also submitted alone.  And the faulty ones: a *)
(* name bound twice, a name not bound, the transaction's own key nested, a *)
(* nested key used twice.                                                  *)
(***************************************************************************)
TransactionCalls ==
  {Transaction(k1, u, <<CreateNamed(k2, Empty, c), Create(k3, Holding(f, c))>>),
   Transaction(k4, v, <<Create(k2, Empty), Update(k5, a, 1, Holding(f, b))>>),
   Transaction(k6, v, <<Update(k5, b, 1, Holding(f, Null)), Delete(k7, a, 1)>>),
   AsRequest(CreateNamed(k2, Empty, c), u),
   AsRequest(Delete(k3, b, 1), v)}

FaultyTransactions ==
  {Transaction(k1, u, <<CreateNamed(k2, Empty, c), CreateNamed(k3, Holding(f, c), c)>>),
   Transaction(k1, v, <<Create(k2, Empty), Create(k3, Holding(f, c))>>),
   Transaction(k4, u, <<Create(k4, Empty)>>),
   Transaction(k6, u, <<Create(k5, Empty), Update(k5, a, 1, Holding(f, a))>>)}

RecordsAndTransactions == RecordCalls \cup TransactionCalls \cup FaultyTransactions

(***************************************************************************)
(* Records and the schema: references written, moved and removed while the *)
(* other field is declared, unknown fields that become declared, and a     *)
(* transaction, which every failure of its parts must end.                 *)
(***************************************************************************)
SchemaCalls ==
  {AsRequest(Create(k1, Holding(g, Blob)), u),
   AsRequest(Create(k2, Holding(f, a)), u),
   AsRequest(Update(k3, b, 1, Holding(g, a)), u),
   AsRequest(Update(k3, a, 1, Holding(f, a)), v),
   AsRequest(Delete(k4, a, 1), v),
   Transaction(k6, u, <<CreateNamed(k7, Empty, c), Update(k3, a, 1, Holding(f, c))>>),
   Ensure(k5, v, [ReferenceSchema EXCEPT ![g] = Optional("reference")])}
=============================================================================
