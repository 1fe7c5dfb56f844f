SPECIFICATION FairRecoverySpec
CONSTANTS
  m1 = m1  m2 = m2  i1 = i1  c1 = c1  c2 = c2
  Messages = {m1}
  Effects = {}
  Inboxes = {i1}
  Layouts = {l1}
  NoInbox = NoInbox
  NoLayout = NoLayout
  OwnerOf <- MCOwnerOf
  TargetOf <- MCTargetOf
  Conversations = {c1}
  ConvOf <- MCConvOf
  NoConversation = NoConversation
  Lookback = 1
  MaxClock = 3
  MaxPending = 2
  MaxFailures = 1
  MaxGeneration = 2
  PageFreezes = FALSE
INVARIANTS
  RecoveryTypeOK
  NoUnseenGap
PROPERTIES
  MarkerIsHonest
  CatchesUp
