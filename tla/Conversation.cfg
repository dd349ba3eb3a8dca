SPECIFICATION ChatSpec
CONSTANTS
  Words = {hi, quote}
  Labelled = {quote}
  Calls = {c1, c2}
  NoCall = NoCall
  MaxCalls = 2
  MaxMessages = 5
  imageMaxBytes = 2
INVARIANTS
  ChatGoesThrough
  ImagesArriveWhole
PROPERTIES
  ContinuedIsFound
\* A chat that has reached its bound may only go back, and the empty one stops there.
CHECK_DEADLOCK FALSE
SYMMETRY CallSymmetry
