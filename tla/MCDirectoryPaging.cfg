CONSTANTS
  Peer = {p1, p2}
  MaxPages = 4
  MaxChanges = 5
SPECIFICATION Spec
SYMMETRY Symmetry
INVARIANTS
  DirectoryIsSnapshot
