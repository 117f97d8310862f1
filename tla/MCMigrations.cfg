SPECIFICATION Spec
CONSTANTS
  Procs = {p1, p2}
  Migrators = {p1, p2}
  Bindings = {s1, s2}
  Directories = {d1, d2}
  Target = 3
  Empty = Empty
  Nil = Nil
SYMMETRY Symmetry
INVARIANTS
  LedgerSound
  HandlesSound
  OnlyMigrationsMislead
PROPERTIES
  DatabaseKept
\* Every call is refused once the file is quarantined: the system stops there.
CHECK_DEADLOCK FALSE
