CONSTANTS
  Processes = {p1, p2}
  Versions = {v1}
  Admin = admin
  Foreign = {x, y}
  Networks = {FALSE, TRUE}
  CanWaitForever = FALSE
  TornWrites = FALSE
  MaxTransactions = 1
  MaxResets = 1
  None = None
  Nobody = Nobody
  Stale = Stale
  Damaged = Damaged
SPECIFICATION Spec
INVARIANTS
  TypeOK
  AddressesAreUnique
PROPERTIES
  MergeKeepsAddresses
  RemovedOnlyIfInvalid
SYMMETRY ImportSymmetry
CHECK_DEADLOCK FALSE
