\* Two turns that may overlap, on sessions whose array is full or has room for one
\* or for three more messages, and a reader of the history.
CONSTANTS
  Turns = {t1, t2}
  Readers = {h1}
  Kinds = {"memory", "postgres"}
  OldLengths = {0, 1, 2, 3, 4, 5, 6, 7}
SPECIFICATION ReadSpec
INVARIANTS
  QuietHistoryStays
  SerialIsExact
  AppendsAreCounted
  NothingInvented
  HistoryIsHonest
\* Every turn is sent once: behaviours end.
CHECK_DEADLOCK FALSE
