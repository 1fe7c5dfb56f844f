SPECIFICATION FairSpec
CONSTANTS
  Tabs = {t1, t2}
  Inboxes = {i1}
  Workers = {w1, w2, w3}
  NoInbox = NoInbox
  NoWorker = NoWorker
  Closed = Closed
  Operations = {"connect", "disconnect", "repair", "borrow", "legacyConnect"}
  PlanSizes = {1, 4}
INVARIANTS
  TypeOK
  LockedUseIsExclusive
  NoWorkerLeaks
  OneWorkerInUse
PROPERTY OperationsEnd
