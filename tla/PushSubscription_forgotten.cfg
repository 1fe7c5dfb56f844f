SPECIFICATION PushSpec
CONSTANTS
  Inboxes = {a, b}
  MaxEndpoints = 2
  MaxInstallations = 2
  MaxCalls = 3
  MaxFaults = 1
  None = None
SYMMETRY MCSymmetry
CHECK_DEADLOCK FALSE
INVARIANT RoutesAreRemembered
