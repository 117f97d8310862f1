SPECIFICATION MigrationSpec
CONSTANTS
  Procs = {p, q}
  Ids = {a, b}
  Fields = {f, g}
  Markers = {c}
  Keys = {k1, k2, k3, k4, k5, k6, x1, x2, y1, y2}
  MigrationKeys = {k1, k2}
  Actors = {u, v}
  a = a
  b = b
  f = f
  g = g
  c = c
  u = u
  v = v
  k1 = k1
  k2 = k2
  k3 = k3
  k4 = k4
  k5 = k5
  k6 = k6
  x1 = x1
  x2 = x2
  y1 = y1
  y2 = y2
  Blob = Blob
  Null = Null
  Absent = Absent
  Undeclared = Undeclared
  Nil = Nil
  AllowUnknown = TRUE
  ChildKey <- RewriteKey
  Proposals <- ProposedMigrations
  BaseSchema <- ReferenceSchema
  Submissions <- OtherCalls
  Evolutions <- AddString
SYMMETRY Symmetry
INVARIANTS
  ImagesStaySound
  MigratedAsReviewed
  HistoryStaysWhole
\* The modelled calls may all have been made.
CHECK_DEADLOCK FALSE
