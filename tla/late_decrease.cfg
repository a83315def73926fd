CONSTANTS
  Accounts = {a1}
  DepositAmounts = {1}
  WithdrawAmounts = {1}
  TransferAmounts = {}
  FirstDefundingCycle = 1
  FundingCycle = 1
  DefundingCycle = 1
  TradingCycle = 2
  MinFunding = 1
  MaxFunding = 3
  MaxFundingPool = 3
  MinDefunding = 1
  DepositFee = 0
  WithdrawalFee = 0
  TradingFee = 0
  FeeBase = 10
  MaxTime = 4
  MaxTransactions = 6
  LastTransactionTime = 4
SPECIFICATION MCSpec
INVARIANTS
  UnitConservation
CHECK_DEADLOCK FALSE
