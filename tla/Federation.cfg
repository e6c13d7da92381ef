SPECIFICATION FairFedSpec
CONSTANTS
  m1 = m1
  m2 = m2
  Controllers = {a, b}
  Members = {m1, m2}
  NoMember = NoMember
  Templates = {t1, t2}
  NoTemplate = NoTemplate
  TargetLists <- AllOrOne
  MaxDisturbances = 2
INVARIANTS ReadyWithinClusters
PROPERTIES FansOut StatusCountsSync ReadyFollowsProbe
