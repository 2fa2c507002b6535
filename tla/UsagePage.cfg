\* A channel of one and three reports: it fills, drops, drains and fills again,
\* before, during and after Close, and a figure is due before the last one.  Two pages
\* are put together at any time, one after the other or both at once.
\* The system stops when there is nothing left to report and no page to ask for.
CONSTANTS
  Buffer = 1
  MaxReports = 3
  MaxPages = 2
SPECIFICATION PageSpec
INVARIANTS
  NothingLostOnTheWay
  BilledAtMostOnce
  CloseFlushes
  PagesNeverGoBack
PROPERTIES
  AcceptedIsSunk
  CloseEnds
  PagesAreAnswered
CHECK_DEADLOCK FALSE
