----------------------------- MODULE AtomicStore -----------------------------
(***************************************************************************)
(* What the mutation engine promises: a store that carries out whole       *)
(* requests, one at a time, each on the state the one before it left, and  *)
(* each at most once.  There are no processes here, no locks, no private   *)
(* images, no crashes and no marker.                                       *)
(***************************************************************************)
EXTENDS DataStore

CONSTANTS
  Submissions,  \* the requests callers submit
  Evolutions,   \* the field additions catalog callers submit
  BaseSchema    \* the entity's first schema version

VARIABLE store

Init == store = EmptyImage(BaseSchema)

\* A request that takes effect leaves its event behind, an addition of fields
\* its schema version.
Next ==
  /\ store' \in Requested(store, Submissions, Evolutions)
  /\ store' # store

Spec == Init /\ [][Next]_store
==============================================================================
