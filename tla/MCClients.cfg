SPECIFICATION FairSpec
CONSTANTS
  a = a
  b = b
  c = c
  f = f
  u = u
  v = v
  k1 = k1
  k2 = k2
  k3 = k3
  k4 = k4
  k5 = k5
  k6 = k6
  Ids = {a, b, c}
  Fields = {f}
  Markers = {}
  Keys = {k1, k2, k3, k4, k5, k6}
  Actors = {u, v}
  Blob = Blob
  Null = Null
  Absent = Absent
  Undeclared = Undeclared
  Nil = Nil
  AllowUnknown = FALSE
  BaseSchema <- TextSchema
  Submissions <- OtherRequests
  Evolutions <- None
  Admissions <- NaturalCreations
  Order <- IdOrder
  Queries <- SmallQueries
  Feeds <- Subscriptions
  Window = 2
INVARIANTS
  OneRecordPerNaturalKey
  AdmissionsRepeatable
  PagingLosesOnlyToWrites
  FeedsLoseNothing
  EvidenceBelongs
PROPERTIES
  EventsArrive
CHECK_DEADLOCK FALSE
