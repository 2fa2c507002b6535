\* Three requests: a creation, or one before a restart, and two that overlap.
CONSTANTS
  r1 = r1
  r2 = r2
  r3 = r3
  t1 = t1
  t2 = t2
  Absent = Absent
  Requests = {r1, r2, r3}
  Tenants = {t1, t2}
  Kinds = {"memory", "postgres"}
  Cataloged = {1}
  MaxClock = 2
  MaxRestarts = 1
SPECIFICATION Spec
SYMMETRY Symmetry
INVARIANTS
  QuietAgentIsExact
  AgentsAreNotLost
  AnswersAreHonest
  ListingIsHonest
\* Requests are handled once: behaviours end.
CHECK_DEADLOCK FALSE
