\* Three requests: one trips the breaker of m1 and two probe it.
CONSTANTS
  r1 = r1
  r2 = r2
  r3 = r3
  m1 = m1
  m2 = m2
  m3 = m3
  m4 = m4
  Requests = {r1, r2, r3}
  Models = {m1, m2}
  Registered = {m1, m2}
  Watched = m1
  Chains <- MCShortChains
  CacheKey <- MCCacheKey
  CacheEnabled = FALSE
  MaxAttempts = 1
  MinRequests = 1
  ThresholdNum = 1
  ThresholdDen = 2
  Cooldown = 1
  MaxTime = 1
SPECIFICATION Spec
INVARIANT
  HalfOpenHasCall
PROPERTY
  KeepsContract
\* Requests are served once: behaviours end.
CHECK_DEADLOCK FALSE
