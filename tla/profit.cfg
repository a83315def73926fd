CONSTANTS
  Accounts = {a1, a2}
  DepositAmounts = {1}
  WithdrawAmounts = {1}
  TransferAmounts = {}
  FirstDefundingCycle = 1
  FundingCycle = 1
  DefundingCycle = 1
  TradingCycle = 2
  MinFunding = 1
  MaxFunding = 3
  MaxFundingPool = 4
  MinDefunding = 1
  DepositFee = 0
  WithdrawalFee = 0
  TradingFee = 1
  FeeBase = 4
  MaxTime = 5
  ProfitAmounts = {7}
  PcogAmounts = {4}
  ProfitCutRate = 1
  MaxTransactions = 3
SPECIFICATION MCProfitSpec
INVARIANTS
  ProfitMatchesShares
PROPERTIES
  SettledUnitsAreFinal
SYMMETRY AccountSymmetry
CHECK_DEADLOCK FALSE
