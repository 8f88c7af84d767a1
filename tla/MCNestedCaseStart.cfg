CONSTANTS
  sub = sub
  each = each
  body = body
  req2 = req2
  request = request
  Names = {sub, each, body, req2}
  RequestName = request
  RequestLike = {req2}
  NestedName = sub
  LoopName = each
  LoopBody = body
  PlainNames = {body, req2}
  Configs <- LateStart
  MaxRuns = 3
SPECIFICATION Spec
INVARIANTS
  IteratorInRange
CHECK_DEADLOCK FALSE
