CONSTANTS
  me = me
  sponsor = sponsor
  stranger = stranger
  s = s
  t = t
  top = top
  mid = mid
  low = low
  x = x
  y = y
  Count = 3
  Peer = {me, sponsor, stranger}
  Secret = {s, t}
  Name = {top, mid, low}
  Identity = {x, y}
  None = None
  MaxRuns = 2
  Holdings <- AllHoldings
  Later <- LaterHoldings
SPECIFICATION Spec
CHECK_DEADLOCK FALSE
INVARIANTS
  DoneIsComplete
  FilesAreAuthentic
