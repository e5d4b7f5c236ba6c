SPECIFICATION GatewaySpec
CONSTANTS
  e1 = e1
  e2 = e2
  e3 = e3
  Requests = {r1, r2}
  Endpoints = {e1, e2, e3}
  RootPool <- MCRootPool
  Chains <- MCChains
  Metered = {e1}
  MaxAttempts = 3
  Kinds = {"http", "connect", "test"}
INVARIANT CacheHoldsWhole
SYMMETRY Alike
CHECK_DEADLOCK FALSE
