SPECIFICATION Spec
CONSTANTS
  Procs = {p, q}
  Locations = {main, spare}
  Workspaces = {main}
  Misplaced = {spare}
  Directories = {d1}
  Stranger = Stranger
  MaxFiles = 2
  MaxFaults = 1
  Fragile = {main}
  Flaky = {main}
  Ids = {a}
  Fields = {}
  Markers = {}
  Keys = {k1, k2}
  Actors = {u}
  a = a
  u = u
  w = w
  k1 = k1
  k2 = k2
  Blob = Blob
  Null = Null
  Absent = Absent
  Undeclared = Undeclared
  Nil = Nil
  Empty = Empty
  AllowUnknown = TRUE
  BindingOf <- OneBinding
  BaseSchema <- PlainSchema
  Submissions <- Calls
SYMMETRY Symmetry
INVARIANTS
  RestoredStays
  QuarantineJustified
PROPERTIES
  NothingIsReplaced
\* Calls may be refused once files are damaged or used up.
CHECK_DEADLOCK FALSE
