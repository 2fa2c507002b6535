\* Two requests for one key.  A request trips a breaker at its first failure,
\* makes two calls of the three its chain offers, and the clock leaves room for
\* two cooldowns.
CONSTANTS
  r1 = r1
  r2 = r2
  r3 = r3
  m1 = m1
  m2 = m2
  m3 = m3
  m4 = m4
  Requests = {r1, r2}
  Models = {m1, m2, m3, m4}
  Registered = {m1, m2, m3}
  Watched = m1
  Chains <- MCChains
  CacheKey <- MCCacheKey
  CacheEnabled = TRUE
  MaxAttempts = 2
  MinRequests = 1
  ThresholdNum = 1
  ThresholdDen = 2
  Cooldown = 1
  MaxTime = 2
SPECIFICATION Spec
INVARIANTS
  TooManyRequestsIsHonest
  CallsAreBounded
  CallsAreMetered
  AnswerIsFirstToServe
  GivesUpLast
  CachedAnswersAreReal
PROPERTY
  EveryRequestEnds
\* Requests are served once: behaviours end.
CHECK_DEADLOCK FALSE
