SPECIFICATION ContactsSpec
CONSTANTS
  p = p
  a = a
  Calls = {c1, c2}
  MaxStarts = 3
  MaxFaults = 1
  None = None
SYMMETRY MCSymmetry
CHECK_DEADLOCK FALSE
INVARIANTS
  BlockOutlivesMerges
