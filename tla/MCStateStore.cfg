SPECIFICATION FairSpec
CONSTANTS
  Proc = {c1, c2}
  Inode = {l1, l2}
  None = None
  RootDepth = 1
  Depth = 2
  MaxWrites = 1
  MaxFaults = 2
  MaxFailures = 1
INVARIANTS
  OneGuard
  ReadsLatest
  SavedSurvives
PROPERTIES
  ImplementsAtomicFile
  EventuallySaved
