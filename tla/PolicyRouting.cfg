SPECIFICATION PolicyFairSpec
CONSTANTS
  s1 = s1
  p1 = p1
  p2 = p2
  ip1 = ip1
  Svcs = {s1}
  NoSvc = NoSvc
  Pods = {p1, p2}
  NoPod = NoPod
  Ports = {q1, q2}
  NoPort = NoPort
  IPs = {ip1}
  NoIP = NoIP
  AddrsOf <- OwnAddress
  Labels <- PodLabels
  Selector <- SvcSelector
  Controllers = {c1}
  MaxDisturbances = 1
  MaxRestarts = 0
  Policies = {n1}
  NoPolicy = NoPolicy
  PolicySpecs <- Specs
  ContainerPort <- PodPort
  MaxPolicyChanges = 1
PROPERTIES RunningPodIsReached PoliciesTakeEffect
