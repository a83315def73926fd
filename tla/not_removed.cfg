CONSTANTS
  Processes = {p1, p2}
  Versions = {v1}
  Admin = admin
  Foreign = {z}
  Networks = {FALSE}
  CanWaitForever = FALSE
  TornWrites = FALSE
  MaxTransactions = 2
  MaxResets = 0
  None = None
  Nobody = Nobody
  Stale = Stale
  Damaged = Damaged
SPECIFICATION Spec
PROPERTIES
  RemovedAsReported
SYMMETRY ProcessSymmetry
CHECK_DEADLOCK FALSE
