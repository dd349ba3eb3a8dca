SPECIFICATION StreamFairSpec
CONSTANTS
  Requests = {r1}
  MaxEvents = 5
  imageMaxBytes = 2
  defaultRequestMaxBytes = 6
  Statuses <- MCStatuses
  ErrorTypes = {"", "overloaded_error"}
  ErrorCodes = {"", "c"}
  ErrorMessages <- MCErrorMessages
INVARIANTS
  StreamIsRelayed
  FailuresAgree
  WhatIsAskedIsSent
  NothingLeft
PROPERTIES
  QuiesceEndsWork
