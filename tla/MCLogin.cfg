CONSTANTS
  Command = {c1, c2}
  Account = {a1, a2}
  Provided = {d1}
  Generated = {g1}
  None = None
  Number = {1, 2}
SPECIFICATION FairSpec
INVARIANTS
  OneAccount
  SessionOnItsDevice
PROPERTIES
  EnrollmentKept
  NoneUndone
  EventuallySignedIn
