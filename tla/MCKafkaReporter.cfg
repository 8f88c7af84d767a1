CONSTANTS
  Cases = {c1, c2, c3}
  NoCase = NoCase
  QueueSize = 2
  MaxErrors = 1
SPECIFICATION Spec
INVARIANTS
  TypeOK
  OutcomesConserved
PROPERTIES
  StopSettles
CHECK_DEADLOCK FALSE
