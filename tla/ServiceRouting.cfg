SPECIFICATION FairSpec
CONSTANTS
  s1 = s1
  p1 = p1
  p2 = p2
  ip1 = ip1
  Svcs = {s1}
  NoSvc = NoSvc
  Pods = {p1, p2}
  NoPod = NoPod
  Ports = {q1}
  NoPort = NoPort
  IPs = {ip1}
  NoIP = NoIP
  AddrsOf <- OwnAddress
  Labels <- PodLabels
  Selector <- SvcSelector
  Controllers = {c1, c2}
  MaxDisturbances = 2
  MaxRestarts = 1
PROPERTIES RunningPodIsReached MisroutingEnds RoutesFollowPods EndpointsBecomeLive
