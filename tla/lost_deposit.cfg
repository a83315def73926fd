CONSTANTS
  Accounts = {a1}
  DepositAmounts = {3}
  WithdrawAmounts = {1}
  TransferAmounts = {2}
  FirstDefundingCycle = 4
  FundingCycle = 1
  DefundingCycle = 2
  TradingCycle = 4
  MinFunding = 1
  MaxFunding = 3
  MaxFundingPool = 4
  MinDefunding = 1
  DepositFee = 0
  WithdrawalFee = 0
  TradingFee = 0
  FeeBase = 10
  MaxTime = 12
  MaxTransactions = 6
  LastTransactionTime = 12
SPECIFICATION MCSpec
INVARIANTS
  AccountBacking
CHECK_DEADLOCK FALSE
