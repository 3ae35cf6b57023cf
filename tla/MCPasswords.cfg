CONSTANTS
  Item = {i1}
  Key = {k1, k2}
  Tlk = {t1, t2}
  Secret = {s1, s2}
  None = None
  MaxPages = 3
  MaxChanges = 5
  MaxCommands = 2
SPECIFICATION Spec
SYMMETRY Symmetry
INVARIANTS
  WriteConfirmed
  ListFaithful
PROPERTIES
  NoLostUpdate
  UpdateKeepsAttributes
  SealedUnderCurrentKey
