--------------------------- MODULE ReviewedChanges ---------------------------
(***************************************************************************)
(* What bulk operations and schema migrations have in common: processes    *)
(* that preview a change, are given a digest of it, and execute it later,  *)
(* on a database that other callers write in between.                      *)
(***************************************************************************)
EXTENDS DataStore

CONSTANTS
  Procs,        \* processes that review and execute changes
  Submissions,  \* the requests of the other callers
  Evolutions,   \* the field additions of the other callers
  BaseSchema    \* the entity's first schema version

ASSUME CallersAssumption == AcceptableCalls(Submissions, Evolutions, BaseSchema)

VARIABLE store  \* the committed image
=============================================================================
