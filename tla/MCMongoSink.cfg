CONSTANTS
  Operations = {"insertOne", "updateOne", "deleteOne"}
  MaxMessages = 4
  MaxDiscarded = 1
SPECIFICATION Spec
INVARIANTS
  TypeOK
  FlushTellsTheTruth
  CountersTrusted
PROPERTIES
  ImplementsSinkStage
CHECK_DEADLOCK FALSE
