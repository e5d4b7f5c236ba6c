\* Two budgets, one of which changes its limit and window, with crashes, at one
\* instant.
CONSTANTS
  b1 = b1
  b2 = b2
  s1 = s1
  s2 = s2
  Budgets = {b1, b2}
  Streams = {s1, s2}
  Options <- SafetyOptions
  Imported <- SafetyImported
  MaxChunk = 2
  Minute = 1
  Start = 5
  MaxTime = 5
  MaxMoved = 2
  Faults = {"crash"}
SPECIFICATION Spec
SYMMETRY Symmetric
INVARIANTS
  TypeOK
  RowWithinLimit
  NothingElseReserved
  NoUndershoot
PROPERTIES
  OnlyOperatorCreates
