\* A second of two clock units and a minute of four let both windows slide past
\* their edges within MaxTime.  The ceiling is below the sum of what the two
\* keys may do alone.  The larger estimate never fits the limit of k2.
CONSTANTS
  k1 = k1
  k2 = k2
  Keys <- MCKeys
  Qps <- MCQps
  Tpm <- MCTpm
  Estimates = {1, 3}
  GlobalQps = 3
  Second = 2
  Minute = 4
  MaxTime = 6
  MaxGrants = 5
SPECIFICATION Spec
INVARIANTS
  GlobalCeiling
  TokenCeiling
  RequestRate
  QuietKeyIsAdmitted
PROPERTY
  RefusalIsFree
\* The clock is bounded: behaviours end.
CHECK_DEADLOCK FALSE
