CONSTANTS
  Cases = {c1, c2, c3, c4, c5}
  NoCase = NoCase
  QueueSize = 3
SPECIFICATION FileSpec
INVARIANTS
  FileTypeOK
  SenderNeverBlocks
  SlotsAccounted
PROPERTIES
  ImplementsReportLog
  StopEnds
CHECK_DEADLOCK FALSE
