CONSTANTS
  Accounts = {a1}
  DepositAmounts = {1, 2}
  WithdrawAmounts = {1, 2}
  TransferAmounts = {1}
  FirstDefundingCycle = 4
  FundingCycle = 2
  DefundingCycle = 2
  TradingCycle = 4
  MinFunding = 1
  MaxFunding = 3
  MaxFundingPool = 4
  MinDefunding = 1
  DepositFee = 0
  WithdrawalFee = 0
  TradingFee = 0
  FeeBase = 10
  MaxTime = 9
  MaxTransactions = 6
  LastTransactionTime = 9
SPECIFICATION MCSpec
INVARIANTS
  OnlyBeforeFunding
CHECK_DEADLOCK FALSE
