SPECIFICATION Spec
CONSTANTS
  Runs = {r1}
  Turns = {q1, q2, q3}
  Calls = {c1, c2}
  Deltas = {}
  Processes = {p1}
  ProcessOf <- OnePerProcess
  None = None
SYMMETRY Symmetry
INVARIANTS
  AnsweredOnce
  IdsResolve
  BatchesAreWhole
  EndedTurnLeavesNoRun
  TimersFit
PROPERTIES
  RelayRefined
\* Turns and calls are used up: a run of the model may stop.
CHECK_DEADLOCK FALSE
