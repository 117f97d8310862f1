-------------------------- MODULE MCFormatMigrations --------------------------
(***************************************************************************)
(* Small instances of FormatMigrations.  Target is the format of the       *)
(* repository, 2, or one more, so that a path has two migrations.          *)
(***************************************************************************)
EXTENDS FormatMigrations, TLC

Symmetry ==
  UNION {Permutations(Bindings), Permutations(Directories), Permutations(Migrators)}
===============================================================================
