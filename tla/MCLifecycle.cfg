SPECIFICATION FairSpec
CONSTANTS
  Procs = {p, q}
  FileCount = 3
  MaxForeign = 2
  Cooperative = TRUE
  Absent = Absent
  Untouched = Untouched
  Nil = Nil
  Commands <- AllCommands
INVARIANTS
  ForeignKept
  FailedCallsRestore
PROPERTIES
  CommandsEnd
