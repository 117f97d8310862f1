-------------------------- MODULE MCClientSessions --------------------------
(* Three records of one entity, two natural keys and their competitors.    *)
EXTENDS ClientSessions

CONSTANTS a, b, c, f, u, v, k1, k2, k3, k4, k5, k6

\* Texts are named like records.
x == a
y == b

TextSchema ==
  [NoAdds EXCEPT ![f] = [type |-> "string", required |-> TRUE, nullable |-> FALSE,
                         default |-> Absent]]

Value(w) == [e \in Fields |-> w]

Mutation(op, key, r, version, data) ==
  [op |-> op, key |-> key, rec |-> r, expected |-> version, data |-> data,
   clientRef |-> Nil]

Create(key, w)             == Mutation("data.record.create", key, Nil, 0, Value(w))
Update(key, r, version, w) == Mutation("data.record.update", key, r, version, Value(w))
Delete(key, r, version)    == Mutation("data.record.delete", key, r, version, Value(Absent))

\* The value x is written by creations by natural key alone, y by others too.
NaturalCreations ==
  {[create |-> Create(k1, x), actor |-> u, field |-> f],
   [create |-> Create(k2, x), actor |-> v, field |-> f],
   [create |-> Create(k3, y), actor |-> u, field |-> f]}

OtherRequests ==
  {AsRequest(Create(k4, y), v), AsRequest(Update(k5, a, 1, y), v),
   AsRequest(Delete(k6, a, 1), u)}

IdOrder == <<a, b, c>>

\* All records, those with the value y, deleted ones too.
SmallQueries ==
  {[field |-> f, value |-> Nil, includeDeleted |-> FALSE, limit |-> 1],
   [field |-> f, value |-> y, includeDeleted |-> FALSE, limit |-> 1],
   [field |-> f, value |-> Nil, includeDeleted |-> TRUE, limit |-> 2]}

\* All creations and deletions, and whatever happens to the record a.
Subscriptions ==
  {[rec |-> Nil, ops |-> {"data.record.create", "data.record.delete"}, limit |-> 1],
   [rec |-> a, ops |-> MutationOps, limit |-> 1]}

None == {}
=============================================================================
