CONSTANTS
  Library = {l1, l2}
  Version = {v1, v2}
  None = None
SPECIFICATION FairSpec
INVARIANTS
  LibrariesAreWhole
PROPERTIES
  EventuallyLoaded
