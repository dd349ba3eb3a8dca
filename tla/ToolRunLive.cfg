SPECIFICATION FairSpec
CONSTANTS
  Runs = {r1}
  Turns = {q1, q2}
  Calls = {c1}
  Deltas = {d1}
  Processes = {p1}
  ProcessOf <- OnePerProcess
  None = None
INVARIANTS
  DeltasEndWithTurn
PROPERTIES
  NobodyWaitsForever
  StoppedRunsEnd
\* Turns and calls are used up: a run of the model may stop.
CHECK_DEADLOCK FALSE
