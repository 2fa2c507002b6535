\* Three models: enough for a list of third-party models that the insertion sort
\* takes apart, and for a jump to two models that are not candidates.
CONSTANTS
  m1 = m1
  m2 = m2
  m3 = m3
  Models = {m1, m2, m3}
  Cards <- MCCards
  Asked <- MCAsked
  Defaults <- MCDefaults
  MaxFailures = 2
SPECIFICATION Spec
INVARIANTS
  OnlyViableModels
  NoViableModelIsLost
  CostOrder
\* One call of Resolve: behaviours end.
CHECK_DEADLOCK FALSE
