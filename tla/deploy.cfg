CONSTANTS
  Processes = {p1, p2}
  Versions = {v1}
  Admin = admin
  Foreign = {}
  Networks = {FALSE}
  CanWaitForever = FALSE
  TornWrites = TRUE
  MaxTransactions = 2
  MaxResets = 0
  None = None
  Nobody = Nobody
  Stale = Stale
  Damaged = Damaged
SPECIFICATION FairSpec
INVARIANTS
  CopiesAreCurrent
  NothingIsForgotten
  OneDeployment
PROPERTIES
  ReturnedIsRecorded
  CallsEnd
CHECK_DEADLOCK FALSE
