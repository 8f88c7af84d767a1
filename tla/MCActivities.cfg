CONSTANTS
  case1 = case1
  case2 = case2
  first = first
  second = second
  a = a
  b = b
  c = c
  missA = missA
  missC = missC
  request = request
  t = t
  Cases = {case1, case2}
  Activities = {first, second}
  Names = {a, b, c, missA, missC, request}
  RequestName = request
  Requests = {r1, r2}
  Unresolved = Unresolved
  Templates = {t}
  NoTemplate = NoTemplate
  NoName = NoName
  Configs <- MCConfigs
SPECIFICATION Spec
SYMMETRY Symmetry
INVARIANTS
  TypeOK
  ReadsLastEntry
  ActsOnItsAnswer
  NoForeignAnswer
