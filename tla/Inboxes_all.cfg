SPECIFICATION PartsSpec
CONSTANTS
  i1 = i1
  i2 = i2
  imported = imported
  other = other
  Tabs = {t1, t2}
  Keys <- MCKeys
  Others <- MCOthers
  Limit = 2
  MaxFaults = 2
  None = None
  Pages = {t1, t2}
  Inboxes <- MCLocalInboxes
  Keyfiles <- MCKeyfiles
  MaxPageFaults = 1
  MaxActs <- MaxTrouble
  NoInbox = NoInbox
SYMMETRY MCSymmetry
CHECK_DEADLOCK FALSE
INVARIANTS
  PartsTypeOK
  OneCandidate
  NoInboxIsStranded
  PushReportsAreTrue
PROPERTIES
  PredecessorOutlivesReplacement
  SuccessIsDurable
  BurnReportsTruth
