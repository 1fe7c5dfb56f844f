SPECIFICATION Spec
CONSTANTS
  m1 = m1  m2 = m2   e1 = e1  i1 = i1  i2 = i2
  Messages = {m1, m2}
  Effects = {e1}
  Inboxes = {i1, i2}
  Layouts = {l1}
  NoInbox = NoInbox
  NoLayout = NoLayout
  OwnerOf <- MCOwnerOf
  TargetOf <- MCTargetOf
  MaxPending = 2
  MaxFailures = 0
  MaxGeneration = 2
INVARIANTS
  StaleWorkStaysOut
