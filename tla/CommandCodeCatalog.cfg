SPECIFICATION CatalogFairSpec
CONSTANTS
  Callers = {a1, a2, a3, a4}
  Keys = {k1}
  None = None
  MaxVersion = 3
  \* The second publication has no usable id.
  Usable = {1, 3}
INVARIANTS
  UpstreamIsSpared
  AnswersAreCurrent
  ModelsAreListed
PROPERTIES
  CatalogReturns
\* Every call of the instance may have been made: the model may stop.
CHECK_DEADLOCK FALSE
