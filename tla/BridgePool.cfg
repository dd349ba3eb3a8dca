SPECIFICATION PoolFairSpec
CONSTANTS
  Callers = {a1, a2}
  Stoppers = {s1}
  Proxies = {x1, x2}
  Processes = {p1, p2}
  Configs = {v1, v2}
  FirstConfig = v1
  None = None
INVARIANTS
  BridgesAreKnown
PROPERTIES
  PoolCallsReturn
\* Calls and processes are used up: a run of the model may stop.
CHECK_DEADLOCK FALSE
