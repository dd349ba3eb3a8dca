SPECIFICATION StartFairSpec
CONSTANTS
  Starters = {s1, s2}
  Followed = {s1}
  Pids = {p1}
  PidOf <- OneProcess
  NoTree = NoTree
  bridgeStderrTail = 3
INVARIANTS
  StartIsWhole
  InstallIsSound
  BridgeIsReached
PROPERTIES
  StartEnds
\* Starts are used up: a run of the model may stop.
CHECK_DEADLOCK FALSE
