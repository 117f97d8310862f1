-------------------------- MODULE MCBulkOperations --------------------------
(***************************************************************************)
(* A small instance of BulkOperations: two bulk requests under three keys, *)
(* and other callers that change a record the requests touch and evolve    *)
(* the schema.                                                             *)
(***************************************************************************)
EXTENDS BulkOperations, TLC

CONSTANTS a, b, f, g, c, u, v, k1, k2, k3, k4, k5, k6, k7

Symmetry == Permutations(Procs)

\* The keys k6 and k7 are derived from k1 and k2.
DerivedKey(k) == CASE k = k1 -> k6 [] k = k2 -> k7 [] OTHER -> k

Optional(type) ==
  [type |-> type, required |-> FALSE, nullable |-> TRUE, default |-> Absent]

ReferenceSchema == [NoAdds EXCEPT ![f] = Optional("reference")]

DefaultToA ==
  {[NoAdds EXCEPT ![g] = [type |-> "string", required |-> TRUE,
                          nullable |-> FALSE, default |-> a]]}

Empty == [x \in Fields |-> Absent]

Mutation(op, key, r, version, data, name) ==
  [op |-> op, key |-> key, rec |-> r, expected |-> version, data |-> data,
   clientRef |-> name]

CreateAB ==
  <<Mutation("data.record.create", k3, Nil, 0, Empty, c),
    Mutation("data.record.create", k4, Nil, 0, [Empty EXCEPT ![f] = c], Nil)>>

UpdateA ==
  <<Mutation("data.record.update", k5, a, 1, [Empty EXCEPT ![f] = a], Nil)>>

ReviewedBulks ==
  {[key |-> k1, actor |-> u, ops |-> CreateAB],
   [key |-> k1, actor |-> u, ops |-> UpdateA],
   [key |-> k2, actor |-> v, ops |-> UpdateA]}

OtherCalls ==
  {AsRequest(Mutation("data.record.update", k2, a, 1,
                      [Empty EXCEPT ![f] = Null], Nil), u),
   AsRequest(Mutation("data.record.create", k3, Nil, 0, Empty, c), u)}
=============================================================================
