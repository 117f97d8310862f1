SPECIFICATION FairSpec
CONSTANTS
  Procs = {p, q}
  Ids = {a, b}
  Fields = {f, g}
  Markers = {c}
  Keys = {k1, k2, k3, k4, k5, k6, k7}
  Actors = {u, v}
  a = a
  b = b
  f = f
  g = g
  c = c
  u = u
  v = v
  k1 = k1
  k2 = k2
  k3 = k3
  k4 = k4
  k5 = k5
  k6 = k6
  k7 = k7
  Blob = Blob
  Null = Null
  Absent = Absent
  Undeclared = Undeclared
  Nil = Nil
  AllowUnknown = TRUE
  BaseSchema <- ReferenceSchema
  Submissions <- SchemaCalls
  Evolutions <- GrowingEvolutions
INVARIANTS
  ReferentialIntegrity
  RecordsHydrate
  SchemasOnlyGrow
  PortableStates
PROPERTIES
  QuarantineHolds
  CallsEnd
