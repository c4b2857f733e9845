CONSTANTS
  Issues = {i1, i2}
  Groups = {g1, g2}
  Assignees = {a1, a2}
  NoRow = NoRow
  MaxPageDup = 1
  MaxStampLag = 2
  MaxPendingId = 8
SPECIFICATION Spec
SYMMETRY TablesSymmetry
INVARIANTS
  LoadAccounted
  PendingUnique
PROPERTIES
  LoadGrowsOnlyWithTracking
  GroupSticky
  KeepsPlace
