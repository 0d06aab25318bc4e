SPECIFICATION FairSpec
CONSTANTS
  n1 = n1
  n2 = n2
  Node = {n1, n2}
  Requests <- Both
  MaxRuns = 2
  MaxImages = 1
INVARIANTS
  TypeOK
  DoneIsEarned
PROPERTIES
  EventsEndRun
  AbortEndsSpinner
CHECK_DEADLOCK FALSE
