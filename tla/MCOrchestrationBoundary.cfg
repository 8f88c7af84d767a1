CONSTANTS
  rq = rq
  a1 = a1
  a2 = a2
  a3 = a3
  none = none
  Activities <- MCActivities
  NoActivity = none
  Configs <- BoundaryStart
  Deadlines <- MCDeadlines
  MaxDuration = 1
  Horizon = 4
SPECIFICATION Spec
INVARIANTS
  FinalIsResponse
CHECK_DEADLOCK FALSE
