CONSTANTS
  rq = rq
  a1 = a1
  a2 = a2
  a3 = a3
  none = none
  Activities <- MCActivities
  NoActivity = none
  Configs <- MCConfigs
  Deadlines <- MCDeadlines
  MaxDuration = 1
  Horizon = 4
SPECIFICATION Spec
INVARIANTS
  TypeOK
  FinalIsResponse
  BoundaryOffPath
  OvershootBounded
PROPERTIES
  PathAllowed
  AcyclicEnds
CHECK_DEADLOCK FALSE
