SPECIFICATION FairSpec
CONSTANTS
  a = a
  b = b
  Replicas = {a, b}
  NoHolder = NoHolder
  Gens = {1, 2}
  NoGen = 0
  TTL <- HalfSecondTTL
  Second = 2
  MaxClock = 3
INVARIANTS AtMostOneFreshLeader NoOrphanControllers
PROPERTIES ImplementsLease DeposedLeaderStops ExpiredLeaseIsTaken
