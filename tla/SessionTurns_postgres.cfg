CONSTANTS
  Turns = {t1, t2}
  Kinds = {"postgres"}
  OldLengths = {0, 5}
SPECIFICATION Spec
INVARIANT
  PersistsBothTurns
CHECK_DEADLOCK FALSE
