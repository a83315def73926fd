CONSTANTS
  Accounts = {a1}
  DepositAmounts = {1, 2}
  WithdrawAmounts = {1}
  TransferAmounts = {}
  FirstDefundingCycle = 1
  FundingCycle = 1
  DefundingCycle = 1
  TradingCycle = 2
  MinFunding = 1
  MaxFunding = 4
  MaxFundingPool = 4
  MinDefunding = 1
  DepositFee = 0
  WithdrawalFee = 0
  TradingFee = 0
  FeeBase = 4
  MaxTime = 7
  ProfitAmounts = {7}
  PcogAmounts = {4}
  ProfitCutRate = 0
  MaxTransactions = 6
SPECIFICATION MCOverpaidSpec
INVARIANTS
  ProfitIsCovered
CHECK_DEADLOCK FALSE
