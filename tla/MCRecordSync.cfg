CONSTANTS
  Name = {n1, n2}
  None = None
  MaxPages = 3
  MaxChanges = 4
  MaxPlans = 2
SPECIFICATION Spec
SYMMETRY Symmetry
INVARIANTS
  UpdateConfirmed
  DeleteConfirmed
  SnapshotFaithful
  AppliedOnce
PROPERTIES
  NoLostUpdate
