SPECIFICATION FairSpec
CONSTANTS
  Proc = {c1}
  Bottle = {b1}
  Peer = {p1}
  None = None
  MaxEpoch = 1
  MaxRetries = 0
PROPERTIES
  EventuallyJoined
