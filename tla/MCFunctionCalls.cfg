SPECIFICATION Spec
CONSTANT Calls <- MCCalls
CHECK_DEADLOCK FALSE
INVARIANTS
  BuiltRunsAsWritten
  BuiltIsAccepted
  AmountsKeepTheirValue
  ItemsSelected
  ArraysAccountedFor
