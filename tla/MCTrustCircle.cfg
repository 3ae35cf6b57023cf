CONSTANTS
  Device = {1, 2, 4}
  Founder = 2
  Me = 3
  None = None
  MaxClock = 3
  MaxStrangers = 2
SPECIFICATION Spec
INVARIANTS
  StrangersHaveNoSay
  ExcludedHaveNoSay
  JoinAddsOnlyMe
  TrustIsWhatCounts
CHECK_DEADLOCK FALSE
