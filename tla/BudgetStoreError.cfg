CONSTANTS
  b1 = b1
  b2 = b2
  s1 = s1
  s2 = s2
  Budgets = {b1, b2}
  Streams = {s1, s2}
  Options <- SafetyOptions
  Imported <- SafetyImported
  MaxChunk = 2
  Minute = 1
  Start = 5
  MaxTime = 5
  MaxMoved = 3
  Faults = {"store"}
SPECIFICATION Spec
INVARIANTS
  NoUndershoot
