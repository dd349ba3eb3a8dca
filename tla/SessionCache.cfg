SPECIFICATION SessionSpec
CONSTANTS
  Turns = {t1, t2, t3, t4}
  Processes = {p1, p2}
  Exchanges = {hi}
  TextOf <- OwnText
  MaxLength = 2
  Limit = 2
  None = None
SYMMETRY SessionSymmetry
INVARIANTS
  CacheIsConsistent
  HitContinuesTranscript
  ExclusiveUse
\* Every turn comes to its end.
CHECK_DEADLOCK FALSE
