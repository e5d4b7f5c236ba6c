CONSTANTS
  b1 = b1
  b2 = b2
  s1 = s1
  s2 = s2
  Budgets = {b1}
  Streams = {s1, s2}
  Options <- RollingOptions
  Imported <- RollingImported
  MaxChunk = 2
  Minute = 2
  Start = 5
  MaxTime = 10
  MaxMoved = 3
  Faults = {}
SPECIFICATION Spec
PROPERTIES
  RollingNeverExpiresEarly
