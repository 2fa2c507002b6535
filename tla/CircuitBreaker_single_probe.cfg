CONSTANTS
  Callers = {c1, c2, c3}
  MinRequests = 2
  ThresholdNum = 1
  ThresholdDen = 2
  Cooldown = 2
  MaxTime = 5
  MaxSample = 4
SPECIFICATION Spec
INVARIANT
  SingleProbe
CHECK_DEADLOCK FALSE
