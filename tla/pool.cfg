CONSTANTS
  Accounts = {a1, a2}
  DepositAmounts = {3}
  WithdrawAmounts = {1, 2}
  TransferAmounts = {1}
  FirstDefundingCycle = 2
  FundingCycle = 1
  DefundingCycle = 1
  TradingCycle = 2
  MinFunding = 1
  MaxFunding = 4
  MaxFundingPool = 4
  MinDefunding = 1
  DepositFee = 1
  WithdrawalFee = 1
  TradingFee = 0
  FeeBase = 3
  MaxTime = 7
  MaxTransactions = 3
  LastTransactionTime = 4
SPECIFICATION LiveSpec
INVARIANTS
  LiquidityBacking
  Solvency
PROPERTIES
  ImplementsLedger
  RegisterIsSettled
CHECK_DEADLOCK FALSE
