SPECIFICATION Spec
CONSTANTS
  Procs = {p1, p2}
  Migrators = {p1, p2}
  Bindings = {s1}
  Directories = {d1, d2}
  Target = 2
  Empty = Empty
  Nil = Nil
SYMMETRY Symmetry
INVARIANTS
  FailedKeepsOldFormat
\* Every call is refused once the file is quarantined: the system stops there.
CHECK_DEADLOCK FALSE
