------------------------- MODULE MCSchemaMigrations -------------------------
(***************************************************************************)
(* A small instance of SchemaMigrations: a reference field that is renamed *)
(* or removed, a string field that becomes a reference, one that is added  *)
(* with values for the records there are; and callers that create, link    *)
(* and delete records, under fields both declared and not.                 *)
(***************************************************************************)
EXTENDS SchemaMigrations, TLC

CONSTANTS a, b, f, g, c, u, v, k1, k2, k3, k4, k5, k6, x1, x2, y1, y2

Symmetry == Permutations(Procs)

\* The keys of the rewrites of a and b by the migrations under k1 and k2.
RewriteKey(k, r) ==
  CASE k = k1 /\ r = a -> x1
    [] k = k1 /\ r = b -> x2
    [] k = k2 /\ r = a -> y1
    [] OTHER -> y2

Optional(type) ==
  [type |-> type, required |-> FALSE, nullable |-> TRUE, default |-> Absent]

Required(type) == [Optional(type) EXCEPT !.required = TRUE]

ReferenceSchema == [NoAdds EXCEPT ![f] = Optional("reference")]

AddString == {[NoAdds EXCEPT ![g] = Optional("string")]}

Change(op, field, to, def) == [op |-> op, field |-> field, newField |-> to, def |-> def]

Rename == Change("rename_field", f, g, Undeclared)

Proposal(version, changes, backfills) ==
  [actor |-> v, expected |-> version, changes |-> changes, backfills |-> backfills]

ProposedMigrations ==
  {Proposal(1, <<Rename>>, <<>>),
   Proposal(1, <<Change("add_field", g, g, Required("reference"))>>,
            <<[field |-> g, mode |-> "set_if_missing", value |-> a]>>),
   Proposal(2, <<Change("remove_field", f, f, Undeclared),
                 Change("replace_field", g, g, Optional("reference"))>>, <<>>),
   Proposal(2, <<Change("remove_field", g, g, Undeclared), Rename>>,
            <<[field |-> g, mode |-> "set", value |-> Null]>>)}

Empty == [x \in Fields |-> Absent]

Holding(field, value) == [Empty EXCEPT ![field] = value]

Mutation(op, key, r, version, data) ==
  [op |-> op, key |-> key, rec |-> r, expected |-> version, data |-> data,
   clientRef |-> Nil]

OtherCalls ==
  {AsRequest(Mutation("data.record.create", k3, Nil, 0, Empty), u),
   AsRequest(Mutation("data.record.create", k4, Nil, 0, Holding(g, a)), u),
   AsRequest(Mutation("data.record.update", k5, b, 1, Holding(f, a)), u),
   AsRequest(Mutation("data.record.delete", k6, a, 1, Empty), u),
   AsRequest(Mutation("data.record.delete", k2, a, 2, Empty), u)}
=============================================================================
