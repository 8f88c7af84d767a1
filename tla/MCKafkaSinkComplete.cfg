CONSTANTS
  Modes <- DirectModes
  MaxMessages = 2
  MaxResets = 0
SPECIFICATION Spec
INVARIANTS
  CompleteWhenFlushed
CHECK_DEADLOCK FALSE
