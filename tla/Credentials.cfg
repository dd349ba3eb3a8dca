SPECIFICATION CredentialsSpec
CONSTANTS
  None = None
  Dates <- MCDates
  Stem <- MCStem
  Letters <- MCLetters
  Digest <- MCDigest
  Names <- MCNames
  Edited <- MCEdited
  Written <- MCWritten
  Keys <- MCKeys
  EmailOf <- MCEmailOf
  Configs <- MCConfigs
  MaxWeight = 10
  Renewal = 5
  MaxTime = 1
  MaxActs = 3
INVARIANTS
  WeightsFollow
PROPERTIES
  ImportIsSound
\* MaxActs uses the operators and hosts up: the model may stop.
CHECK_DEADLOCK FALSE
