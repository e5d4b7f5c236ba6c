CONSTANTS
  e1 = e1
  e2 = e2
  a1 = a1
  a2 = a2
  a3 = a3
  Endpoints = {e1}
  Attempts = {a1, a2, a3}
  Routes <- SingleHop
  FailureThreshold = 1
  SuccessThreshold = 2
  OpenDuration = 1
  MaxLag = 0
SPECIFICATION Spec
INVARIANT
  OneProbe
