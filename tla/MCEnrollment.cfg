SPECIFICATION Spec
CONSTANTS
  Proc = {c1, c2}
  Bottle = {b1, b2}
  Peer = {p1, p2}
  None = None
  MaxEpoch = 2
  MaxRetries = 1
SYMMETRY Symmetry
INVARIANTS
  AttemptsAuthorised
  AttemptsRecorded
  AttemptsOnMarkedBottle
  SessionMatchesPending
  StatusConsistent
PROPERTIES
  JoinCarriesTrust
  ImplementsAbs
