SPECIFICATION FairSpec
CONSTANTS
  Mine = {s}
  Theirs = {r}
  Operations <- MCOperations
  Scenarios <- MCScenarios
  Worlds <- MCWorlds
  MaxConcurrent = 2
  MaxFaults = 1
  CacheLimit = 1
  None = None
CHECK_DEADLOCK FALSE
INVARIANTS
  TypeOK
  ScreenIsBacked
  SettledSendHasOneRow
  PreviewIsNewest
  AttachmentsHaveMessages
PROPERTIES
  RetentionCatchesUp
