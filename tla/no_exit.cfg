CONSTANTS
  Accounts = {a1, a2}
  StakeAmounts = {2}
  UnstakeAmounts = {1, 2}
  ClaimAmounts = {99}
  MinimumAmounts = {2}
  FundAmounts = {1}
  Funds = 48
  Pools <- MCPools
  AprTokens = {"PCOG", "WBTC"}
  Prices <- MCPrices
  InterestRates = {1, 2}
  RewardRates = {12}
  Durations = {3}
  Periods = {2}
  CheckPoints = {1}
  DisableTimes = {4}
  HundredPercent = 2
  InterestBase = 3
  Precision = 1
  RewardPrecision = 1
  Day = 2
  Unlimited = 99
  StartTime = 2
  MaxTime = 5
  MaxStakes = 3
  MaxSettings = 1
  MaxCalls = 2
SPECIFICATION MCSpec
INVARIANTS
  StakesAreReleased
SYMMETRY AccountSymmetry
CHECK_DEADLOCK FALSE
