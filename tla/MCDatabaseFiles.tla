--------------------------- MODULE MCDatabaseFiles ---------------------------
(***************************************************************************)
(* A small instance of DatabaseFiles: a canonical database of a workspace  *)
(* and a place to recover it to, and callers who create a record.          *)
(***************************************************************************)
EXTENDS DatabaseFiles, TLC

CONSTANTS a, u, k1, k2, w

Symmetry == Permutations(Procs)

OneBinding(l) == w

PlainSchema == NoAdds

Calls ==
  {[kind |-> "transaction", key |-> k1, actor |-> u, adds |-> NoAdds,
    ops |-> <<[op |-> "data.record.create", key |-> k2, rec |-> Nil, expected |-> 0,
               data |-> [x \in Fields |-> Absent], clientRef |-> Nil]>>]}
==============================================================================
