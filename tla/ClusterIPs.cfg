SPECIFICATION FairSpec
CONSTANTS
  s1 = s1
  s2 = s2
  Svcs = {s1, s2}
  Servers = {a, b}
  Clients = {c1, c2}
  NoSvc = NoSvc
  NoServer = NoServer
  NoIP = NoIP
  UseLoop = TRUE
  Modulus = 5
  Tries = 2
  Wanted = {3}
  Lower <- LowerNames
  Dotted = {}
  MaxRequests = 4
INVARIANTS AllocIsNextFree DistinctUnlessRaced
PROPERTIES RetryFindsFree AddressStable NamesFollowServices
