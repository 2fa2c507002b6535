\* Up to three messages, and two calls: each protocol after each.
CONSTANTS
  Roles = {"system", "user"}
  MaxMessages = 3
  MaxCalls = 2
  MaxParts = 2
SPECIFICATION Spec
INVARIANTS
  WireIsFaithful
  ServedIsAnswered
\* One request: behaviours end.
CHECK_DEADLOCK FALSE
