CONSTANTS
  Modes <- MCModes
  MaxMessages = 4
  MaxResets = 1
SPECIFICATION Spec
INVARIANTS
  TypeOK
  LossAnnounced
  FlushSettles
PROPERTIES
  FailureStops
  ImplementsSinkStage
  MonitorsEnd
CHECK_DEADLOCK FALSE
