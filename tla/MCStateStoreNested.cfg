SPECIFICATION Spec
CONSTANTS
  Proc = {c1}
  Inode = {l1, l2}
  None = None
  RootDepth = 1
  Depth = 2
  MaxWrites = 1
  MaxFaults = 1
  MaxFailures = 1
INVARIANT NestedSaveSurvives
