CONSTANTS
  Processes = {p1, p2}
  Versions = {v1}
  Admin = admin
  Foreign = {x, y}
  Networks = {TRUE}
  CanWaitForever = FALSE
  TornWrites = FALSE
  MaxTransactions = 1
  MaxResets = 0
  None = None
  Nobody = Nobody
  Stale = Stale
  Damaged = Damaged
SPECIFICATION Spec
PROPERTIES
  MergeAddsAddresses
SYMMETRY ProcessSymmetry
CHECK_DEADLOCK FALSE
