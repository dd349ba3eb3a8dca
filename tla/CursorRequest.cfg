SPECIFICATION CursorFairSpec
CONSTANTS
  Requests = {r1}
  MaxDeltas = 3
  MaxCalls = 2
  promptMaxRunes = 2
  \* A text that no marker is, and one that is.
  Said = {"", "a text", "model not available"}
  OtherCodes = {"SOMETHING_ELSE"}
  Efforts <- MCEfforts
  Tiers <- MCTiers
  ToolChoices <- MCToolChoices
  ArgumentValues <- MCArgumentValues
  Tools <- MCTools
  MaxTools = 2
INVARIANTS
  AgentsAreLetGo
  StreamIsWhole
  FaultsAreTold
  CallsAreMeant
PROPERTIES
  QuiesceReaches
\* Every request may have ended: the model may stop.
CHECK_DEADLOCK FALSE
