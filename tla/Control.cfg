SPECIFICATION ControlSpec
CONSTANTS
  e1 = e1  e2 = e2  p1 = p1  p2 = p2  c1 = c1  q1 = q1  w1 = w1  w2 = w2  b1 = b1  a1 = a1
  \* Inventory
  Endpoints = {e1}
  Pools = {p1, p2}
  Chains = {c1}
  Policies = {q1}
  Shadows = {w1, w2}
  Budgets = {b1}
  Clients = {a1}
  PoolDocs <- SomePools
  ChainDocs <- Hops
  PolicyDocs <- Uses
  MaxShadows = 1
  MaxGeneration = 2
  \* Runtime
  Documents = {d1, d2}
  NoChain = none
  Callers = {r1}
  Retained = 2
  MaxRevision = 3
  MaxChainRevision = 2
  \* Sources
  SourceIds = {s1}
  SourceDocs = {x1, x2}
  Identities = {i1, i2}
  Refreshers = {f1, f2}
  NoSource = nosource
  NoEndpoint = noendpoint
  Operator = operator
  MaxSourceRevision = 3
  MaxNow = 2
  \* HealthChecks
  CheckEndpoints = {e1, e2}
  CheckPools = {p1, p2}
  Checkers = {k1, k2}
  Bundles <- SomeBundles
  GlobalPace = 1
  PoolPace = 3
  \* Evaluation
  Conditions <- SomeConditions
  Height <- SomeHeights
  Drafts <- SomeRules
  Values = {1, 2}
  MaxDepth = 2
  MaxRules = 2
INVARIANTS
  InventorySound RevisionsAgree SingleFlight MarksAreCalls DecidesAsWritten
PROPERTIES
  RevisionsAdvance RefreshesAreCurrent Paced
SYMMETRY Symmetric
CHECK_DEADLOCK FALSE
