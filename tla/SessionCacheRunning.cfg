SPECIFICATION ServeSpec
CONSTANTS
  Turns = {t1, t2, t3, t4}
  Processes = {p1}
  Exchanges = {hi}
  TextOf <- OwnText
  MaxLength = 2
  Limit = 4
  None = None
SYMMETRY SessionSymmetry
INVARIANTS
  RunningAgentKept
\* Every turn comes to its end.
CHECK_DEADLOCK FALSE
