CONSTANTS
  sub = sub
  each = each
  body = body
  req2 = req2
  request = request
  Names = {sub, each, body, req2}
  RequestName = request
  RequestLike = {req2}
  NestedName = sub
  LoopName = each
  LoopBody = body
  PlainNames = {body, req2}
  Configs <- MCConfigs
  MaxRuns = 4
SPECIFICATION Spec
INVARIANTS
  TypeOK
  NothingLost
  ResponsesInOrder
  Answered
PROPERTIES
  RecordStays
  ConfiguredErrorSurfaces
  LoopEnds
CHECK_DEADLOCK FALSE
