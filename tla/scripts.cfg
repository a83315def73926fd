CONSTANTS
  Scripts = {"precog", "pcog", "staking"}
  Given = {{}, {"PCOG"}, {"WBTC", "PRICE_FEED"}, {"EXCHANGE_MIDDLEWARE", "PCOG"}}
  NoAddress = NoAddress
  Damaged = Damaged
  MaxStarts = 3
  Public = {"mainnet"}
  Unknown = {"dev5"}
  Development = {"dev31337"}
  Directories <- MCDirectories
  Fresh = Fresh
  Absent = Absent
  MaxRuns = 3
  Depth = 5
  Processes = {p1, p2}
  Versions = {"v1", "v2", "v3"}
  HasUpgradeTo = {"v1", "v3"}
  Compatible <- MCCompatible
  Starts <- MCStarts
  Admin = "admin"
  OtherAdmins = {"other"}
  None = None
  MaxContracts = 3
  MaxCalls = 2
SPECIFICATION ScriptsSpec
INVARIANTS
  RecordedAreComplete
  StorageKnowsConfig
  ProxiesAreKept
  LayoutsAreKept
  RegisteredHaveLayouts
PROPERTIES
  UpgradesAreCompatible
  UupsStaysUpgradeable
SYMMETRY ProcessSymmetry
CHECK_DEADLOCK FALSE
