SPECIFICATION ChecksSpec
CONSTANTS
  None = None
  Types <- Catalogue
  Layouts <- MCLayouts
  Options <- MCOptions
  SlotBytes = 2
  BitsPerByte = 1
  Undefined = Undefined
  Projects <- MCProjects
  UnsafeAllowed = {{}}
  ErrorKinds = {"selfdestruct", "linking", "upgradeTo"}
  Linking = "linking"
  MissingUpgradeTo = "upgradeTo"
  Durations = {1, 2, 3, 4, 5}
  MaxTimestamp = 14
INVARIANTS
  EditsAreMinimal
  PassedIsSafe
  DroppedIsIncomplete
  StopsAtTimestamp
  PredictionIsStable
PROPERTIES
  AcceptedKeepsData
  AppendingPasses
CHECK_DEADLOCK FALSE
