SPECIFICATION Spec
CONSTANTS
  Procs = {p, q}
  FileCount = 3
  MaxForeign = 2
  Cooperative = FALSE
  Absent = Absent
  Untouched = Untouched
  Nil = Nil
  Commands <- InstallAndSwitch
SYMMETRY Symmetry
INVARIANTS
  FilesBeforeEntry
