\* Three callers: two probes and a late call can be under way together.
\* MaxTime leaves room for two outages with their cooldowns.  No symmetry: the
\* run checks liveness.
CONSTANTS
  Callers = {c1, c2, c3}
  MinRequests = 3
  ThresholdNum = 1
  ThresholdDen = 2
  Cooldown = 2
  MaxTime = 6
  MaxSample = 5
SPECIFICATION Spec
INVARIANTS
  HalfOpenHasItsProbes
  ClosedWhileSampleGood
PROPERTIES
  SilentAfterTrip
  OutageNotExtended
  KeepsContract
\* The clock is bounded: behaviours end.
CHECK_DEADLOCK FALSE
