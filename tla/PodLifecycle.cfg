SPECIFICATION FairSpec
CONSTANTS
  Pods = {p1, p2}
  NoPod = NoPod
  Ports = {q1, q2}
  NoPort = NoPort
  Handlers = {h1}
  MaxRestarts = 1
INVARIANT RunningPodIsServed
PROPERTIES ImplementsServing PhaseMovesForward EveryPodSettles
