SPECIFICATION FairSpec
CONSTANTS
  Controllers = {c1}
  Names = {n1, n2, n3}
  NoName = NoName
  ReplicaCounts = {0, 1, 2}
  MaxDisturbances = 1
PROPERTIES Converges StatusConverges
CHECK_DEADLOCK FALSE
