SPECIFICATION Spec
CONSTANTS
  Controllers = {c1, c2}
  Names = {n1, n2, n3}
  NoName = NoName
  ReplicaCounts = {1, 2}
  MaxDisturbances = 1
SYMMETRY Symmetric
PROPERTIES VictimsAreNewestExtras OvershootBounded
CHECK_DEADLOCK FALSE
