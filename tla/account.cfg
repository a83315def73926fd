CONSTANTS
  Accounts = {a1}
  DepositAmounts = {1, 3}
  WithdrawAmounts = {1, 2}
  TransferAmounts = {2}
  FirstDefundingCycle = 4
  FundingCycle = 2
  DefundingCycle = 2
  TradingCycle = 4
  MinFunding = 1
  MaxFunding = 3
  MaxFundingPool = 4
  MinDefunding = 1
  DepositFee = 1
  WithdrawalFee = 1
  TradingFee = 0
  FeeBase = 3
  MaxTime = 9
  MaxTransactions = 5
  LastTransactionTime = 9
SPECIFICATION MCSpec
INVARIANTS
  TypeOK
  AccountBacking
  WindowIsBounded
  PendingIsReversible
PROPERTIES
  DeadlineIsKept
  FirstRequestWaits
CHECK_DEADLOCK FALSE
