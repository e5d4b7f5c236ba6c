CONSTANTS
  e1 = e1
  e2 = e2
  a1 = a1
  a2 = a2
  a3 = a3
  Endpoints = {e1, e2}
  Attempts = {a1, a2}
  Routes <- Mixed
  FailureThreshold = 2
  SuccessThreshold = 2
  OpenDuration = 1
  MaxLag = 1
SPECIFICATION Spec
INVARIANTS
  TypeOK
  Coherent
  ProbesBacked
PROPERTIES
  BreaksCircuits
  NeverLockedOut
