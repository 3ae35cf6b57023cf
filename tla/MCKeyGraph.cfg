CONSTANTS
  a = a
  b = b
  c = c
  k = k
  l = l
  h = h
  i = i
  Count = 3
  Identity = {a, b, c}
  Master = {k, l}
  Hint = {h, i}
  None = None
  Responses <- AllResponses
SPECIFICATION FairSpec
CHECK_DEADLOCK FALSE
INVARIANTS
  RecoversReachable
  ErrorHasCause
PROPERTIES
  Terminates
