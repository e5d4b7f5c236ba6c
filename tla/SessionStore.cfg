CONSTANTS
  s1 = s1
  s2 = s2
  s3 = s3
  s4 = s4
  k1 = k1
  k2 = k2
  r1 = r1
  r2 = r2
  r3 = r3
  e1 = e1
  e2 = e2
  NoId = NoId
  Ids = {s1, s2, s3, s4}
  Keys = {k1, k2}
  Requests = {r1, r2}
  Endpoints = {e1}
  Policies <- ChangePolicies
  Capacity = 2
  Persistent = TRUE
  MaxRevision = 1
  MaxCount = 1
  Amounts = {0}
  MaxTime = 0
  Environment = {"crash", "store", "select", "operator"}
SPECIFICATION Spec
SYMMETRY Symmetric
INVARIANTS
  TypeOK
  MemoryIsDurable
  IndexExact
PROPERTY
  Affinity
