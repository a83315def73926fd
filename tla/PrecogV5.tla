------------------------------ MODULE PrecogV5 ------------------------------
(***************************************************************************)
(* One token pool of Precog as its users and the middleware see it:        *)
(* deposit, requestWithdrawal and withdraw (Precogv5.sol) with everything  *)
(* they call in PrecogInternal, PrecogVault, WithdrawalRegister, IPCOG and *)
(* PrecogStorage, takeInvestment of the vault, the public                  *)
(* updateCurrentTradingCycle, and the passing of block time.               *)
(*                                                                         *)
(* A transaction is one step; transactions of different callers interleave *)
(* in any order and several can have the same timestamp.  A transaction    *)
(* that reverts changes nothing and is not a step.  Pools of different     *)
(* tokens share no state that these handlers write, so one pool is         *)
(* modelled, from the block of its addLiquidityPool on.  The owners of     *)
(* IPCOG and of the token are taken to have approved Precog, and wallets   *)
(* to hold what their owner deposits.                                      *)
(***************************************************************************)
EXTENDS PrecogInternal, FiniteSets

CONSTANTS
    Accounts,                       \* users of the pool
    DepositAmounts,                 \* amounts tried in deposit
    WithdrawAmounts,                \* amounts tried in the other calls
    TransferAmounts,                \* what the middleware sends at a time
    FirstDefundingCycle, FundingCycle, DefundingCycle, TradingCycle,
    MinFunding, MaxFunding, MaxFundingPool, MinDefunding,
    DepositFee, WithdrawalFee, TradingFee, FeeBase,
    MaxTime                         \* bound: no step makes now exceed it

\* What PrecogCore.setCycleConfiguration requires of a configuration.
ASSUME CycleAssumption ==
    /\ {FirstDefundingCycle, FundingCycle, DefundingCycle, TradingCycle}
           \subseteq Nat \ {0}
    /\ FundingCycle <= TradingCycle /\ DefundingCycle <= TradingCycle
    /\ FirstDefundingCycle <= TradingCycle
    /\ (FirstDefundingCycle \div DefundingCycle) * DefundingCycle
           = FirstDefundingCycle

\* There are finitely many addresses, so their balances add up.
ASSUME AccountAssumption == IsFiniteSet(Accounts)

ASSUME AmountAssumption ==
    /\ DepositAmounts \subseteq Nat
    /\ WithdrawAmounts \subseteq Nat
    /\ TransferAmounts \subseteq Nat
    /\ {MinFunding, MaxFunding, MaxFundingPool, MinDefunding, MaxTime}
           \subseteq Nat
    /\ FeeBase \in Nat \ {0}
    /\ {DepositFee, WithdrawalFee, TradingFee} \subseteq 0 .. FeeBase

VARIABLES
    now,                            \* block.timestamp
    cycleConfiguration, feeConfiguration, limits,           \* PrecogCore
    cyclesChangedInfo,                                      \* PrecogCore
    tradingCycles, units, liquidity, whitelist,             \* PrecogStorage
    investmentsOf, accountTradingInfo, accountProfitInfo,   \* PrecogStorage
    profits, profitsForWhitelist, currentProfitId,          \* PrecogStorage
    register, isNotFirstWithdrawal,                         \* WithdrawalRegister
    ipcog, holders,                                         \* IPCOG
    tokens                          \* who holds the pool's token

settings == <<cycleConfiguration, feeConfiguration, limits, whitelist>>
calendar == <<cyclesChangedInfo, tradingCycles>>
profitVars == <<profits, profitsForWhitelist, currentProfitId>>
registerVars == <<register, isNotFirstWithdrawal>>
accountVars == <<investmentsOf, accountTradingInfo, accountProfitInfo>>
shareVars == <<ipcog, holders>>
vars == <<now, settings, calendar, units, liquidity, accountVars, profitVars,
          registerVars, shareVars, tokens>>

----------------------------------------------------------------------------
\* The pool at the block that added it (PrecogFactory.addLiquidityPool).
\* claimed and invested are what every account brings from earlier cycles.
PoolInit(claimed, invested) ==
    /\ now = 0
    /\ cycleConfiguration = [firstDefundingCycle |-> FirstDefundingCycle,
                             fundingCycle        |-> FundingCycle,
                             defundingCycle      |-> DefundingCycle,
                             tradingCycle        |-> TradingCycle]
    /\ feeConfiguration = [depositFee    |-> DepositFee,
                           withdrawalFee |-> WithdrawalFee,
                           tradingFee    |-> TradingFee]
    /\ limits = [minFunding     |-> MinFunding,
                 maxFunding     |-> MaxFunding,
                 maxFundingPool |-> MaxFundingPool,
                 minDefunding   |-> MinDefunding]
    /\ whitelist = {}
    /\ tradingCycles = <<[id |-> 0, startTime |-> 0, endTime |-> TradingCycle]>>
    /\ cyclesChangedInfo = [tradingApplyTime       |-> TradingCycle,
                            fundingApplyTime       |-> 0,
                            defundingApplyTime     |-> 0,
                            fundingDuration        |-> FundingCycle,
                            firstDefundingDuration |-> FirstDefundingCycle,
                            defundingDuration      |-> DefundingCycle]
    /\ units = [total |-> <<>>, whitelist |-> <<>>, updated |-> {0}]
    /\ liquidity = [total |-> 0, whitelist |-> 0]
    /\ investmentsOf = [a \in Accounts |-> invested]
    /\ accountTradingInfo = [a \in Accounts |->
           [depositedTimestampOf         |-> 0,
            availableAmount              |-> 0,
            isNotFirstIncreaseInvestment |-> invested # <<>>]]
    /\ accountProfitInfo = [a \in Accounts |->
           [profit |-> 0, profitForWhitelist |-> 0,
            claimedProfit |-> 0, claimedProfitForWhitelist |-> 0,
            lastProfitId |-> 0, lastInvestmentId |-> 0]]
    /\ profits = <<0>>
    /\ profitsForWhitelist = <<0>>
    /\ currentProfitId = 0
    /\ register = [a \in Accounts |-> [amount |-> 0, deadline |-> 0]]
    /\ isNotFirstWithdrawal = [a \in Accounts |-> claimed]
    /\ ipcog = [a \in Accounts |-> 0]
    /\ holders = 0
    /\ tokens = [vault |-> 0, register |-> 0, core |-> 0, middleware |-> 0,
                 profit |-> 0]

Init == PoolInit(FALSE, <<>>)

\* All accounts have been in the pool before: they took everything out and
\* claimed it.  Time and cycle ids are counted from the present cycle on.
ReturningInit ==
    PoolInit(TRUE, <<[amount |-> 0, unit |-> 0, timestamp |-> 0,
                      idChanged |-> 0, isWhitelist |-> FALSE]>>)

----------------------------------------------------------------------------
\* The calendar.  A handler that updates it first sees CurrentCycles, a view
\* or a handler that does not sees the stored tradingCycles.

CycleAt(cycles, t) ==
    CalculateTradingCycleByTimestamp(GetLast(cycles),
        cycleConfiguration.tradingCycle, cyclesChangedInfo.tradingApplyTime, t)

\* The cycle with an id that is not before the last one of cycles.
CycleOfId(cycles, id) ==
    IF id = GetLast(cycles).id THEN GetLast(cycles)
    ELSE NthCycle(GetLast(cycles), cycleConfiguration.tradingCycle,
                  cyclesChangedInfo.tradingApplyTime, id - GetLast(cycles).id)

\* How many cycles have ended since the calendar was last updated.
DueCycles ==
    CyclesUntil(GetLast(tradingCycles), cycleConfiguration.tradingCycle,
                cyclesChangedInfo.tradingApplyTime, now)

NewCycles(n) ==
    [k \in 1 .. n |->
        NthCycle(GetLast(tradingCycles), cycleConfiguration.tradingCycle,
                 cyclesChangedInfo.tradingApplyTime, k)]

CurrentCycles == tradingCycles \o NewCycles(DueCycles)

\* updateFundingDuration and updateDefundingDuration.
UpdatedChangedInfo ==
    LET info == cyclesChangedInfo
    IN [info EXCEPT
          !.fundingDuration =
              IF IsAppliedChangedCycle(now, info.fundingApplyTime)
              THEN cycleConfiguration.fundingCycle ELSE @,
          !.firstDefundingDuration =
              IF IsAppliedChangedCycle(now, info.defundingApplyTime)
              THEN cycleConfiguration.firstDefundingCycle ELSE @,
          !.defundingDuration =
              IF IsAppliedChangedCycle(now, info.defundingApplyTime)
              THEN cycleConfiguration.defundingCycle ELSE @]

\* The units once the liquidity has been counted in the n next cycles.
UnitsAfter(n) ==
    UpdateTotalUnitsForFirstTime(units, Range(NewCycles(n)), liquidity)

\* When a deposit made now starts to count, and in which trading cycle.
FundingTime ==
    NextFundingTime(now, cyclesChangedInfo.fundingApplyTime,
                    UpdatedChangedInfo.fundingDuration)

FutureCycle == CycleAt(CurrentCycles, FundingTime)

UpdateCalendar(n) ==
    /\ cyclesChangedInfo' = UpdatedChangedInfo
    /\ tradingCycles' = tradingCycles \o NewCycles(n)

\* updateCurrentTradingCycle, callable by anyone; a limit can stop it
\* before the calendar reaches now.
UpdateCurrentTradingCycle(n) ==
    /\ UpdateCalendar(n)
    /\ units' = UnitsAfter(n)
    /\ UNCHANGED <<now, settings, liquidity, accountVars, profitVars,
                   registerVars, shareVars, tokens>>

----------------------------------------------------------------------------
Investment(a) == GetLast(investmentsOf[a])

IsInDeadline(a) == register[a].deadline >= now

AvailableDepositedAmount(a) ==
    IF accountTradingInfo[a].depositedTimestampOf > now
    THEN accountTradingInfo[a].availableAmount ELSE 0

\* Fees are charged on the amount and go to PrecogCore.
FeeOf(amount, rate) == (amount * rate) \div FeeBase

\* Mutants: a mint forgets the old balance, a burn must leave something.
MutantMintSets(a, amount) ==
    /\ ipcog' = [ipcog EXCEPT ![a] = amount]
    /\ holders' = holders + IF ipcog[a] = 0 THEN 1 ELSE 0
MutantBurnsLess(a, amount) ==
    /\ amount < ipcog[a]
    /\ ipcog' = [ipcog EXCEPT ![a] = @ - amount]
    /\ holders' = holders

\* IPCOG._mint and _burn count a holder from the balance of the account
\* before the mint and after the burn, whatever the amount is.
Mint(a, amount) ==
    /\ ipcog' = [ipcog EXCEPT ![a] = @ + amount]
    /\ holders' = holders + IF ipcog[a] = 0 THEN 1 ELSE 0

Burn(a, amount) ==
    /\ amount <= ipcog[a]
    /\ ipcog' = [ipcog EXCEPT ![a] = @ - amount]
    /\ holders' = holders - IF ipcog[a] = amount THEN 1 ELSE 0
    /\ holders' >= 0

UpdatedProfitInfo(info, investments, cycles, newUnits) ==
    CalculateProfit(info, investments, cycles, newUnits, profits,
                    profitsForWhitelist, currentProfitId)

ChangeLiquidity(amount, whitelistAmount) ==
    liquidity' = [total     |-> liquidity.total + amount,
                  whitelist |-> liquidity.whitelist + whitelistAmount]

----------------------------------------------------------------------------
\* _processHandleIncreaseInvestment: the account's book and register after
\* amount is added for account a, and how much of it is a new deposit (the
\* rest only takes back what a pending request had registered).
HandleIncrease(a, amount, isWhitelist) ==
    LET Increase(book, x, t) ==
            IncreaseInvestment(book, x, t, CycleAt(CurrentCycles, t), liquidity,
                               isWhitelist)
        book == [investments |-> investmentsOf[a], units |-> UnitsAfter(DueCycles)]
        pending == register[a]
        last == Investment(a)
        \* what the replaced last investment's later cycles gain
        AddLaterUnits(u, x) ==
            LET later == (FutureCycle.id + 1) .. last.idChanged
                Add(map) == [i \in DOMAIN map \union later |->
                                ValueAt(map, i)
                                + IF i \in later
                                  THEN x * Duration(CycleOfId(CurrentCycles, i))
                                  ELSE 0]
            IN [u EXCEPT !.total = Add(@),
                         !.whitelist = IF last.isWhitelist THEN Add(@) ELSE @]
    IN IF investmentsOf[a] = <<>> \/ FutureCycle.id >= last.idChanged
       THEN [book      |-> Increase(book, amount, FundingTime),
             register  |-> pending,
             deposited |-> amount]
       ELSE IF amount < pending.amount
       THEN [book      |-> Increase(book, amount, pending.deadline),
             register  |-> [pending EXCEPT !.amount = @ - amount],
             deposited |-> 0]
       ELSE IF amount = pending.amount
       THEN [book      |-> Increase(book, amount, pending.deadline),
             register  |-> [amount |-> 0, deadline |-> now],
             deposited |-> 0]
       ELSE LET rest     == amount - pending.amount
                restored == Increase(book, pending.amount, pending.deadline)
                popped   == [restored EXCEPT !.investments = PopLast(@)]
                added    == Increase(popped, rest, FundingTime)
            IN [book      |-> [added EXCEPT !.units = AddLaterUnits(@, rest)],
                register  |-> [amount |-> 0, deadline |-> now],
                deposited |-> rest]

\* _processFirstTimeIncreaseInvestment: an account earns from the cycle of
\* its first investment on.
FirstTimeProfitInfo(a, investments) ==
    IF accountTradingInfo[a].isNotFirstIncreaseInvestment
    THEN accountProfitInfo[a]
    ELSE [accountProfitInfo[a] EXCEPT !.lastProfitId = investments[1].idChanged]

\* _updateDepositInfo: until its funding time a deposit can be forced out.
UpdatedTradingInfo(a, amount, timestamp) ==
    LET info == accountTradingInfo[a]
    IN IF now >= info.depositedTimestampOf
       THEN [depositedTimestampOf         |-> timestamp,
             availableAmount              |-> amount,
             isNotFirstIncreaseInvestment |-> TRUE]
       ELSE [info EXCEPT !.availableAmount = @ + amount,
                         !.isNotFirstIncreaseInvestment = TRUE]

Deposit(a, amount) ==
    LET fee    == FeeOf(amount, feeConfiguration.depositFee)
        actual == amount - fee
        done   == HandleIncrease(a, actual, a \in whitelist)
        invs   == done.book.investments
    IN /\ amount >= limits.minFunding
       /\ GetLast(invs).amount <= limits.maxFunding
       /\ liquidity.total + actual <= limits.maxFundingPool
       /\ UpdateCalendar(DueCycles)
       /\ units' = done.book.units
       /\ investmentsOf' = [investmentsOf EXCEPT ![a] = invs]
       /\ register' = [register EXCEPT ![a] = done.register]
       /\ accountProfitInfo' = [accountProfitInfo EXCEPT
              ![a] = UpdatedProfitInfo(FirstTimeProfitInfo(a, invs), invs,
                                       CurrentCycles, done.book.units)]
       /\ accountTradingInfo' = [accountTradingInfo EXCEPT
              ![a] = UpdatedTradingInfo(a, done.deposited, GetLast(invs).timestamp)]
       /\ ChangeLiquidity(actual, IF a \in whitelist THEN actual ELSE 0)
       /\ tokens' = [tokens EXCEPT !.vault = @ + done.deposited,
                                   !.core  = @ + fee]
       /\ Mint(a, done.deposited)
       /\ UNCHANGED <<now, settings, profitVars, isNotFirstWithdrawal>>

----------------------------------------------------------------------------
\* When the request of account a leaves the pool: the deadline of a first
\* request that is still pending, else the next defunding time.
DefundingTime(a) ==
    LET info == UpdatedChangedInfo
    IN IF isNotFirstWithdrawal[a]
       THEN NextDefundingTime(now, info.defundingApplyTime,
                              info.defundingDuration, 0)
       ELSE IF IsInDeadline(a) THEN register[a].deadline
       ELSE NextDefundingTime(now, info.defundingApplyTime,
                              info.defundingDuration, info.firstDefundingDuration)

\* Mutant: a further request moves the deadline of a pending one.
MutantLocksAgain(a) ==
    NextDefundingTime(now, cyclesChangedInfo.defundingApplyTime,
        UpdatedChangedInfo.defundingDuration,
        IF isNotFirstWithdrawal[a] THEN 0 ELSE cycleConfiguration.firstDefundingCycle)

\* When the register of account a unlocks.
LockTime(a) ==
    IF IsInDeadline(a) THEN register[a].deadline
    ELSE NextDefundingTime(now, cyclesChangedInfo.defundingApplyTime,
             UpdatedChangedInfo.defundingDuration,
             IF isNotFirstWithdrawal[a]
             THEN 0 ELSE cycleConfiguration.firstDefundingCycle)

\* Mutant: an account can register again without claiming first.
MutantRegistersAgain(a, amount, deadline) ==
    /\ deadline >= register[a].deadline
    /\ register' = [register EXCEPT
           ![a] = [amount |-> @.amount + amount, deadline |-> deadline]]

\* WithdrawalRegister.registerWithdrawal.
RegisterWithdrawal(a, amount, deadline) ==
    /\ deadline >= register[a].deadline
    /\ IsInDeadline(a) \/ register[a].amount = 0
    /\ register' = [register EXCEPT
           ![a] = [amount |-> @.amount + amount, deadline |-> deadline]]

RequestWithdrawal(a, amount) ==
    LET t    == DefundingTime(a)
        c    == CycleAt(CurrentCycles, t)
        book == [investments |-> investmentsOf[a], units |-> UnitsAfter(DueCycles)]
        done == DecreaseInvestment(book, amount, t, c, liquidity, a \in whitelist)
        remaining == GetLast(done.investments).amount
        fromWhitelist == IF a \in whitelist THEN amount ELSE 0
    IN /\ amount >= limits.minDefunding
       /\ AvailableDepositedAmount(a) = 0
       /\ CanDecreaseInvestment(book, amount, t, c, liquidity, a \in whitelist)
       /\ remaining = 0 \/ remaining >= limits.minFunding
       /\ RegisterWithdrawal(a, amount, LockTime(a))
       /\ amount <= liquidity.total /\ fromWhitelist <= liquidity.whitelist
       /\ UpdateCalendar(DueCycles)
       /\ units' = done.units
       /\ investmentsOf' = [investmentsOf EXCEPT ![a] = done.investments]
       /\ accountProfitInfo' = [accountProfitInfo EXCEPT
              ![a] = UpdatedProfitInfo(@, done.investments, CurrentCycles, done.units)]
       /\ ChangeLiquidity(-amount, -fromWhitelist)
       /\ UNCHANGED <<now, settings, accountTradingInfo, profitVars,
                      isNotFirstWithdrawal, shareVars, tokens>>

----------------------------------------------------------------------------
\* Mutant: a claim can exceed what is registered.
MutantClaimsMore(a, amount) ==
    LET fee == FeeOf(amount, feeConfiguration.withdrawalFee)
    IN /\ Burn(a, amount)
       /\ register[a].deadline < now
       /\ amount <= tokens.register
       /\ tokens' = [tokens EXCEPT !.register = @ - amount, !.core = @ + fee]
       /\ register' = [register EXCEPT ![a].amount = @ - amount]
       /\ isNotFirstWithdrawal' = [isNotFirstWithdrawal EXCEPT ![a] = TRUE]
       /\ UNCHANGED <<now, settings, calendar, units, liquidity, accountVars,
                      profitVars>>

\* withdraw with isEmergency = false: WithdrawalRegister.claimWithdrawal.
Claim(a, amount) ==
    LET fee == FeeOf(amount, feeConfiguration.withdrawalFee)
    IN /\ Burn(a, amount)
       /\ register[a].deadline < now
       /\ amount <= register[a].amount
       /\ amount <= tokens.register
       /\ tokens' = [tokens EXCEPT !.register = @ - amount, !.core = @ + fee]
       /\ register' = [register EXCEPT ![a].amount = @ - amount]
       /\ isNotFirstWithdrawal' = [isNotFirstWithdrawal EXCEPT ![a] = TRUE]
       /\ UNCHANGED <<now, settings, calendar, units, liquidity, accountVars,
                      profitVars>>

\* withdraw with isEmergency = true: PrecogVault.forceWithdraw takes a
\* deposit back before it is invested.  The calendar is not updated, and
\* the subtractions are unchecked: a remainder below zero wraps to a huge
\* amount, which passes the last requirement.
ForceWithdraw(a, amount) ==
    LET fee       == FeeOf(amount, feeConfiguration.withdrawalFee)
        last      == Investment(a)
        c         == CycleAt(tradingCycles, last.timestamp)
        unit      == amount * (c.endTime - last.timestamp)
        remaining == last.amount - amount
    IN /\ Burn(a, amount)
       /\ AvailableDepositedAmount(a) >= amount
       /\ tokens.vault >= amount
       /\ investmentsOf[a] # <<>>
       /\ amount >= limits.minDefunding
       /\ remaining \notin 1 .. (limits.minFunding - 1)
       /\ liquidity.total >= amount
       /\ investmentsOf' = [investmentsOf EXCEPT
              ![a] = [@ EXCEPT ![Len(@)] = [last EXCEPT !.amount = remaining,
                                                        !.unit = @ - unit]]]
       /\ units' = AddUnits(units, c.id, -unit,
                            IF last.isWhitelist THEN -unit ELSE 0)
       /\ ChangeLiquidity(-amount, IF last.isWhitelist THEN -amount ELSE 0)
       /\ accountTradingInfo' = [accountTradingInfo EXCEPT
              ![a].availableAmount = @ - amount]
       /\ tokens' = [tokens EXCEPT !.vault = @ - amount, !.core = @ + fee]
       /\ UNCHANGED <<now, settings, calendar, accountProfitInfo, profitVars,
                      registerVars>>

----------------------------------------------------------------------------
\* PrecogVault.takeInvestment leaves a tenth of the liquidity in the vault,
\* from or to the middleware.
TakeInvestment ==
    LET taken == tokens.vault - liquidity.total \div 10
    IN /\ tokens.middleware + taken >= 0
       /\ tokens' = [tokens EXCEPT !.vault = @ - taken, !.middleware = @ + taken]
       /\ UNCHANGED <<now, settings, calendar, units, liquidity, accountVars,
                      profitVars, registerVars, shareVars>>

\* The middleware sends tokens to the register, for the users to claim.
SendRequestedWithdrawal(amount) ==
    /\ amount <= tokens.middleware
    /\ tokens' = [tokens EXCEPT !.middleware = @ - amount, !.register = @ + amount]
    /\ UNCHANGED <<now, settings, calendar, units, liquidity, accountVars,
                   profitVars, registerVars, shareVars>>

Tick ==
    /\ now < MaxTime
    /\ now' = now + 1
    /\ UNCHANGED <<settings, calendar, units, liquidity, accountVars,
                   profitVars, registerVars, shareVars, tokens>>

UserStep(a) ==
    \/ \E amount \in DepositAmounts : Deposit(a, amount)
    \/ \E amount \in WithdrawAmounts : RequestWithdrawal(a, amount)
    \/ \E amount \in WithdrawAmounts : Claim(a, amount)
    \/ \E amount \in WithdrawAmounts : ForceWithdraw(a, amount)

Next ==
    \/ Tick
    \/ \E n \in 0 .. DueCycles : UpdateCurrentTradingCycle(n)
    \/ \E a \in Accounts : UserStep(a)
    \/ TakeInvestment
    \/ \E amount \in TransferAmounts : SendRequestedWithdrawal(amount)

Spec == Init /\ [][Next]_vars

ReturningSpec == ReturningInit /\ [][Next]_vars
----------------------------------------------------------------------------
\* Properties.

\* What account a has in the pool from its last change on.
InvestedAmount(a) ==
    IF investmentsOf[a] = <<>> THEN 0 ELSE Investment(a).amount

InvestmentType ==
    [amount : Nat, unit : Int, timestamp : Nat, idChanged : Nat, isWhitelist : BOOLEAN]

\* The part of the storage that belongs to accounts, and the calendar.
AccountTypeOK ==
    /\ now \in Nat
    /\ tradingCycles \in Seq([id : Nat, startTime : Nat, endTime : Nat])
    /\ tradingCycles # <<>>
    /\ investmentsOf \in [Accounts -> Seq(InvestmentType)]
    /\ accountTradingInfo \in [Accounts ->
           [depositedTimestampOf : Nat, availableAmount : Nat,
            isNotFirstIncreaseInvestment : BOOLEAN]]
    /\ register \in [Accounts -> [amount : Nat, deadline : Nat]]
    /\ isNotFirstWithdrawal \in [Accounts -> BOOLEAN]
    /\ ipcog \in [Accounts -> Nat]

\* Type correctness: every field of the storage has the type of its Solidity
\* declaration.  A unit counter below zero stands for one that wrapped.
TypeOK ==
    /\ AccountTypeOK
    /\ now <= MaxTime
    /\ whitelist \subseteq Accounts
    /\ \A field \in DOMAIN cyclesChangedInfo : cyclesChangedInfo[field] \in Nat
    /\ liquidity \in [total : Nat, whitelist : Nat]
    /\ \A a \in Accounts, field \in {"profit", "profitForWhitelist", "lastProfitId"} :
           accountProfitInfo[a][field] \in Nat
    /\ units.updated \subseteq Nat
    /\ holders \in Nat
    /\ tokens \in [{"vault", "register", "core", "middleware", "profit"} -> Nat]

\* Every IPCOG an account holds is backed by what it has invested and what
\* it has registered to withdraw, through deposits that take a pending
\* request back, partial claims and forced withdrawals.
AccountBacking ==
    \A a \in Accounts : ipcog[a] = InvestedAmount(a) + register[a].amount

\* The liquidity of the pool, from which the units of every new cycle are
\* computed, is the sum of what the accounts have invested.
LiquidityBacking ==
    liquidity.total = SumFunction([a \in Accounts |-> InvestedAmount(a)])

\* The tokens in the vault, with the middleware and in the register pay for
\* all the IPCOG there is; fees are taken out of neither.
Solvency ==
    tokens.vault + tokens.middleware + tokens.register = SumFunction(ipcog)

\* The unit an investment list earns in a cycle, the one _calculateProfit
\* pays for: prorated in the cycle of a change, whole in later cycles.
UnitInCycle(investments, cycle) ==
    LET reached == {j \in 1 .. Len(investments) : investments[j].idChanged <= cycle.id}
        last    == investments[Max(reached)]
    IN IF reached = {} THEN 0
       ELSE IF last.idChanged = cycle.id THEN last.unit
       ELSE last.amount * Duration(cycle)

CycleWithId(id) ==
    IF id < Len(tradingCycles) THEN tradingCycles[id + 1]
    ELSE CycleOfId(tradingCycles, id)

\* The total units of every cycle that was opened are the units of its
\* accounts: the profit of a cycle is divided by what the shares add up to.
UnitConservation ==
    \A id \in units.updated :
        ValueAt(units.total, id)
            = SumFunction([a \in Accounts |->
                               UnitInCycle(investmentsOf[a], CycleWithId(id))])

\* A deposit counts as not yet invested only until the funding time it was
\* given: what can be forced out has not reached its trading cycle.  A first
\* request that a deposit takes back refutes this.
OnlyBeforeFunding ==
    \A a \in Accounts :
        AvailableDepositedAmount(a) > 0 => Investment(a).timestamp > now

\* However deposits take requests back and hand their times on, a deposit can
\* be forced out for one duration of the configuration at most: that of its
\* funding, or of the request whose time the window was copied from.
WindowIsBounded ==
    \A a \in Accounts : AvailableDepositedAmount(a) > 0 =>
        \E d \in {FundingCycle, DefundingCycle, FirstDefundingCycle} :
            accountTradingInfo[a].depositedTimestampOf <= now + d

\* While an account is owed a registered amount the deadline it was given
\* stays: no further request, deposit or claim moves it.
DeadlineIsKept ==
    [][\A a \in Accounts :
          register[a].amount > 0 /\ register'[a].amount > 0
              => register'[a].deadline = register[a].deadline]_vars

\* An account that never had a register waits the first defunding duration,
\* counted from the defunding time before its request.
FirstRequestWaits ==
    [][\A a \in Accounts :
          register[a].deadline = 0 /\ register'[a].amount > 0
              => register'[a].deadline
                     >= now + FirstDefundingCycle - DefundingCycle]_vars

----------------------------------------------------------------------------
\* The inductive strengthening of AccountBacking, for a pool whose cycle
\* configuration is never changed.

\* The calendar is a row of cycles of the configured length.
CalendarInv ==
    /\ cycleConfiguration = [firstDefundingCycle |-> FirstDefundingCycle,
                             fundingCycle        |-> FundingCycle,
                             defundingCycle      |-> DefundingCycle,
                             tradingCycle        |-> TradingCycle]
    /\ cyclesChangedInfo = [tradingApplyTime       |-> TradingCycle,
                            fundingApplyTime       |-> 0,
                            defundingApplyTime     |-> 0,
                            fundingDuration        |-> FundingCycle,
                            firstDefundingDuration |-> FirstDefundingCycle,
                            defundingDuration      |-> DefundingCycle]
    /\ feeConfiguration = [depositFee    |-> DepositFee,
                           withdrawalFee |-> WithdrawalFee,
                           tradingFee    |-> TradingFee]
    /\ GetLast(tradingCycles).startTime = GetLast(tradingCycles).id * TradingCycle
    /\ GetLast(tradingCycles).endTime = GetLast(tradingCycles).startTime + TradingCycle
    /\ GetLast(tradingCycles).startTime <= now

\* In such a calendar the ids of cycles are quotients: that of the cycle a
\* deposit made now reaches, and that of the cycle in which the register of
\* an account unlocks, or the present one when it has.
FundingId == ((now \div FundingCycle + 1) * FundingCycle) \div TradingCycle

UnlockId(a) ==
    (IF IsInDeadline(a) THEN register[a].deadline ELSE now) \div TradingCycle

IdsAreQuotients ==
    /\ FutureCycle.id = FundingId
    /\ \A a \in Accounts :
           CycleAt(CurrentCycles, register[a].deadline).id = UnlockId(a)

\* An account whose last investment changes after the cycle that a deposit
\* made now would reach has a pending request: the investment before it is
\* the one to go back to, and the register unlocks in the last one's cycle.
PendingRequest(a) ==
    LET invs     == investmentsOf[a]
        previous == invs[Len(invs) - 1]
    IN /\ Len(invs) >= 2
       /\ previous.amount = Investment(a).amount + register[a].amount
       /\ previous.idChanged <= FundingId
       /\ register[a].amount > 0 => UnlockId(a) = Investment(a).idChanged
       /\ AvailableDepositedAmount(a) = 0

\* An account that never deposited has nothing anywhere.
NewAccount(a) ==
    /\ ipcog[a] = 0
    /\ register[a] = [amount |-> 0, deadline |-> 0]
    /\ AvailableDepositedAmount(a) = 0

InvestorInv(a) ==
    /\ Investment(a).idChanged <= FundingId + 1
    /\ Investment(a).idChanged > FundingId => PendingRequest(a)
    /\ AvailableDepositedAmount(a) <= Investment(a).amount
    /\ IsInDeadline(a) => UnlockId(a) <= Investment(a).idChanged
    /\ IsInDeadline(a) /\ isNotFirstWithdrawal[a] => UnlockId(a) <= FundingId

AccountInv(a) ==
    /\ ipcog[a] = InvestedAmount(a) + register[a].amount
    /\ IF investmentsOf[a] = <<>> THEN NewAccount(a) ELSE InvestorInv(a)

\* Deposits find back, at any time, what a pending request took away.
PendingIsReversible ==
    CalendarInv /\ IdsAreQuotients /\ \A a \in Accounts : AccountInv(a)
=============================================================================
