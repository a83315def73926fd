-------------------------- MODULE PrecogPool_proofs --------------------------
(***************************************************************************)
(* Proofs about the money of a PrecogV5 pool, for every finite set of      *)
(* accounts: what the pool holds pays for all the IPCOG there is, the      *)
(* liquidity is what the accounts have invested, every variable keeps its  *)
(* type, and first requests wait.  In a pool whose accounts have all       *)
(* claimed before, the units of a cycle are what the accounts earn in it   *)
(* and only deposits that wait for their cycle can be forced out.          *)
(* SumTheorems adds the balances up.                                       *)
(***************************************************************************)
EXTENDS PrecogRefinement, PrecogV5_proofs, SumTheorems

----------------------------------------------------------------------------
\* Solvency, for every cycle configuration: also in a pool that loses a
\* deposit the tokens of the deposit are there.

Holders == {"vault", "register", "core", "middleware", "profit"}

\* Every account has a register of some amount, until some time.
RegisterOK == \E Time : register \in [Accounts -> [amount : Int, deadline : Time]]

\* Balances, registers and fees are numbers; nothing is said of the calendar.
MoneyInv ==
    /\ ipcog \in [Accounts -> Int]
    /\ RegisterOK
    /\ tokens \in [Holders -> Int]
    /\ liquidity.total \in Int
    /\ feeConfiguration.depositFee \in 0 .. FeeBase
    /\ feeConfiguration.withdrawalFee \in 0 .. FeeBase

\* A fee is a number, and so is what it leaves.
LEMMA FeeIsInt ==
    ASSUME NEW amount \in Nat, NEW rate \in 0 .. FeeBase
    PROVE  /\ FeeOf(amount, rate) \in Int
           /\ amount - FeeOf(amount, rate) \in 0 .. amount
  <1>1. FeeOf(amount, rate) \in 0 .. amount
    BY FeeIsPart
  <1> QED BY <1>1

\* What a deposit takes back from the register and what it adds to the vault
\* make up the amount of the deposit.
LEMMA DepositSplit ==
    ASSUME NEW a, NEW x \in Nat, NEW w, NEW done, done = HandleIncrease(a, x, w),
           NEW Time, register[a] \in [amount : Int, deadline : Time]
    PROVE  /\ done.register \in [amount : Int, deadline : Time \union {now}]
           /\ done.deposited \in Int
           /\ done.register.amount + x = register[a].amount + done.deposited
           /\ register[a].amount \in Nat => /\ done.deposited <= x
                                            /\ done.register.amount <= register[a].amount
  <1> DEFINE r == register[a]
             n == [r EXCEPT !.amount = @ - x]
  <1>1. CASE investmentsOf[a] = <<>> \/ FutureCycle.id >= Investment(a).idChanged
    <2>1. done.register = r /\ done.deposited = x
      BY <1>1 DEF HandleIncrease
    <2> QED BY <2>1
  <1>2. CASE ~(investmentsOf[a] = <<>> \/ FutureCycle.id >= Investment(a).idChanged)
    <2>1. CASE x < r.amount
      <3>1. done.register = n /\ done.deposited = 0
        BY <1>2, <2>1, Zenon DEF HandleIncrease
      <3>2. n \in [amount : Int, deadline : Time] /\ n.amount = r.amount - x
        OBVIOUS
      <3> HIDE DEF n
      <3> QED BY <3>1, <3>2
    <2>2. CASE x = r.amount
      <3>1. ~(x < r.amount)
        BY <2>2
      <3>2. done.register = [amount |-> 0, deadline |-> now] /\ done.deposited = 0
        BY <1>2, <2>2, <3>1, Zenon DEF HandleIncrease
      <3> QED BY <2>2, <3>2
    <2>3. CASE x > r.amount
      <3>1. ~(x < r.amount) /\ x # r.amount
        BY <2>3
      <3>2. done.deposited = x - r.amount
        BY <1>2, <3>1, Zenon DEF HandleIncrease
      <3>3. done.register = [amount |-> 0, deadline |-> now]
        BY <1>2, <3>1, Zenon DEF HandleIncrease
      <3> QED BY <3>2, <3>3
    <2> QED BY <2>1, <2>2, <2>3
  <1> QED BY <1>1, <1>2

\* The register of one account changes and stays a register.
LEMMA RegisterAfter ==
    ASSUME NEW Time, register \in [Accounts -> [amount : Int, deadline : Time]],
           NEW Later, NEW a \in Accounts, NEW r \in [amount : Int, deadline : Later],
           register' = [register EXCEPT ![a] = r]
    PROVE  RegisterOK'
  <1> DEFINE All == Time \union Later
             R == [amount : Int, deadline : All]
  <1>1. r \in R /\ register \in [Accounts -> R]
    <2>1. [amount : Int, deadline : Time] \subseteq R
      OBVIOUS
    <2>2. r \in R
      OBVIOUS
    <2> HIDE DEF R
    <2> QED BY <2>1, <2>2
  <1> HIDE DEF R
  <1>2. register' \in [Accounts -> R]
    BY <1>1
  <1> QED BY <1>2 DEF R, RegisterOK

\* Two holders of tokens change by what a transfer and a fee add to them.
LEMMA TokensAfter ==
    ASSUME tokens \in [Holders -> Int], NEW x \in Holders, NEW y \in Holders, x # y,
           NEW p \in Int, NEW q \in Int,
           tokens' = [tokens EXCEPT ![x] = @ + p, ![y] = @ + q]
    PROVE  /\ tokens' \in [Holders -> Int]
           /\ tokens'[x] = tokens[x] + p
           /\ tokens'[y] = tokens[y] + q
           /\ \A h \in Holders \ {x, y} : tokens'[h] = tokens[h]
  <1> DEFINE f == [tokens EXCEPT ![x] = @ + p]
  <1>1. /\ f \in [Holders -> Int] /\ f[x] = tokens[x] + p
        /\ \A h \in Holders : h # x => f[h] = tokens[h]
    OBVIOUS
  <1>2. tokens' = [f EXCEPT ![y] = tokens[y] + q]
    BY Zenon
  <1> HIDE DEF f
  <1> QED BY <1>1, <1>2

\* The five holders are different ones.
LEMMA HoldersAre ==
    /\ "vault" \in Holders /\ "register" \in Holders /\ "core" \in Holders
    /\ "middleware" \in Holders /\ "profit" \in Holders
  BY DEF Holders

\* What the invariant says of one account and one balance.
LEMMA MoneyTypes ==
    MoneyInv => /\ tokens.vault \in Int /\ tokens.register \in Int
                /\ tokens.middleware \in Int /\ liquidity.total \in Int
  BY HoldersAre DEF MoneyInv

\* A new pool holds nothing and owes nothing.
LEMMA InitMoney == Init => MoneyInv /\ Solvency
  <1> SUFFICES ASSUME Init PROVE MoneyInv /\ Solvency
    OBVIOUS
  <1>1. /\ ipcog = [a \in Accounts |-> 0]
        /\ register = [a \in Accounts |-> [amount |-> 0, deadline |-> 0]]
        /\ tokens = [vault |-> 0, register |-> 0, core |-> 0, middleware |-> 0,
                     profit |-> 0]
        /\ liquidity.total = 0
        /\ feeConfiguration.depositFee = DepositFee
        /\ feeConfiguration.withdrawalFee = WithdrawalFee
    BY DEF Init, PoolInit
  <1>2. MoneyInv
    <2>1. register \in [Accounts -> [amount : Int, deadline : {0}]]
      BY <1>1
    <2> QED BY <1>1, <2>1, AmountAssumption DEF MoneyInv, Holders, RegisterOK
  <1>3. DOMAIN ipcog = Accounts /\ \A a \in Accounts : ipcog[a] = 0
    BY <1>1
  <1>4. SumFunction(ipcog) = 0
    BY <1>3, AccountAssumption, SumOfZeros
  <1>5. tokens.vault = 0 /\ tokens.middleware = 0 /\ tokens.register = 0
    BY <1>1
  <1> QED BY <1>2, <1>4, <1>5 DEF Solvency

\* A change of one balance changes the sum of the balances by as much.
LEMMA SharesAfter ==
    ASSUME ipcog \in [Accounts -> Int], NEW a \in Accounts, NEW x \in Int,
           ipcog' = [ipcog EXCEPT ![a] = @ + x]
    PROVE  /\ ipcog' \in [Accounts -> Int]
           /\ SumFunction(ipcog)' = SumFunction(ipcog) + x
           /\ SumFunction(ipcog) \in Int
  <1>1. SumFunction(ipcog) \in Int
    BY AccountAssumption, SumIsInt
  <1>2. ipcog[a] \in Int /\ ipcog[a] + x \in Int
    OBVIOUS
  <1>3. SumFunction([ipcog EXCEPT ![a] = ipcog[a] + x])
            = SumFunction(ipcog) + ((ipcog[a] + x) - ipcog[a])
    BY <1>2, AccountAssumption, SumOfChange
  <1> QED BY <1>1, <1>2, <1>3

\* A deposit puts into the vault what it mints.
LEMMA DepositIsPaid ==
    ASSUME MoneyInv, Solvency, NEW a \in Accounts, NEW amount \in DepositAmounts,
           Deposit(a, amount)
    PROVE  MoneyInv' /\ Solvency'
  <1> DEFINE fee == FeeOf(amount, feeConfiguration.depositFee)
             done == HandleIncrease(a, amount - fee, a \in whitelist)
  <1>1. amount \in Nat /\ fee \in Int /\ amount - fee \in Nat
    <2>1. amount \in Nat /\ feeConfiguration.depositFee \in 0 .. FeeBase
      BY AmountAssumption DEF MoneyInv
    <2>2. fee \in Int /\ amount - fee \in 0 .. amount
      BY <2>1, FeeIsInt
    <2> QED BY <2>1, <2>2
  <1>2. /\ feeConfiguration' = feeConfiguration
        /\ register' = [register EXCEPT ![a] = done.register]
        /\ ipcog' = [ipcog EXCEPT ![a] = @ + done.deposited]
        /\ liquidity'.total = liquidity.total + (amount - fee)
        /\ tokens' = [tokens EXCEPT !.vault = @ + done.deposited, !.core = @ + fee]
    BY Zenon DEF Deposit, Mint, ChangeLiquidity, settings
  <1> HIDE DEF fee
  <1>3. PICK d : d = done
    OBVIOUS
  <1>4. PICK Time : register \in [Accounts -> [amount : Int, deadline : Time]]
    BY DEF MoneyInv, RegisterOK
  <1>5. /\ d.register \in [amount : Int, deadline : Time \union {now}]
        /\ d.deposited \in Int
    <2>1. /\ d = HandleIncrease(a, amount - fee, a \in whitelist)
          /\ register[a] \in [amount : Int, deadline : Time]
      BY <1>3, <1>4
    <2> HIDE DEF done
    <2> QED BY <1>1, <2>1, DepositSplit
  <1> HIDE DEF done
  <1>6. /\ ipcog' \in [Accounts -> Int]
        /\ SumFunction(ipcog)' = SumFunction(ipcog) + d.deposited
        /\ SumFunction(ipcog) \in Int
    BY <1>2, <1>3, <1>5, SharesAfter DEF MoneyInv
  <1>7. RegisterOK'
    BY <1>2, <1>3, <1>4, <1>5, RegisterAfter
  <1>8. /\ tokens' \in [Holders -> Int]
        /\ tokens'.vault = tokens.vault + d.deposited
        /\ tokens'.middleware = tokens.middleware
        /\ tokens'.register = tokens.register
    <2>1. tokens' = [tokens EXCEPT !["vault"] = @ + d.deposited, !["core"] = @ + fee]
      BY <1>2, <1>3, Zenon
    <2> QED BY <1>1, <1>5, <2>1, TokensAfter, HoldersAre DEF MoneyInv
  <1>9. MoneyInv'
    BY <1>1, <1>2, <1>6, <1>7, <1>8 DEF MoneyInv
  <1> QED BY <1>5, <1>6, <1>8, <1>9, MoneyTypes DEF Solvency

\* A claim and a forced withdrawal pay what they burn from the register or
\* from the vault; the fee is the core's.
LEMMA WithdrawIsPaid ==
    ASSUME MoneyInv, Solvency, NEW a \in Accounts, NEW amount \in WithdrawAmounts,
           Claim(a, amount) \/ ForceWithdraw(a, amount)
    PROVE  MoneyInv' /\ Solvency'
  <1> DEFINE fee == FeeOf(amount, feeConfiguration.withdrawalFee)
  <1>1. amount \in Nat /\ fee \in Int /\ -amount \in Int
    <2>1. amount \in Nat /\ feeConfiguration.withdrawalFee \in 0 .. FeeBase
      BY AmountAssumption DEF MoneyInv
    <2>2. fee \in Int
      BY <2>1, FeeIsInt
    <2> QED BY <2>1, <2>2
  <1>2. /\ feeConfiguration' = feeConfiguration
        /\ ipcog' = [ipcog EXCEPT ![a] = @ - amount]
    BY DEF Claim, ForceWithdraw, Burn, settings
  <1>3. ipcog' = [ipcog EXCEPT ![a] = @ + (-amount)]
    BY <1>1, <1>2 DEF MoneyInv
  <1>4. /\ ipcog' \in [Accounts -> Int]
        /\ SumFunction(ipcog)' = SumFunction(ipcog) + (-amount)
        /\ SumFunction(ipcog) \in Int
    BY <1>1, <1>3, SharesAfter DEF MoneyInv
  <1>5. CASE Claim(a, amount)
    <2>1. /\ register' = [register EXCEPT ![a].amount = @ - amount]
          /\ liquidity' = liquidity
          /\ tokens' = [tokens EXCEPT !["register"] = @ - amount, !["core"] = @ + fee]
      BY <1>5, Zenon DEF Claim
    <2> HIDE DEF fee
    <2>2. PICK Time : register \in [Accounts -> [amount : Int, deadline : Time]]
      BY DEF MoneyInv, RegisterOK
    <2>3. RegisterOK'
      <3>1. register' \in [Accounts -> [amount : Int, deadline : Time]]
        BY <1>1, <2>1, <2>2
      <3> QED BY <3>1 DEF RegisterOK
    <2>4. /\ tokens' \in [Holders -> Int]
          /\ tokens'.vault = tokens.vault
          /\ tokens'.middleware = tokens.middleware
          /\ tokens'.register = tokens.register + (-amount)
      <3>1. tokens["register"] - amount = tokens["register"] + (-amount)
        BY <1>1, HoldersAre DEF MoneyInv
      <3>2. tokens' = [tokens EXCEPT !["register"] = @ + (-amount), !["core"] = @ + fee]
        BY <2>1, <3>1, Zenon
      <3> QED BY <1>1, <3>2, TokensAfter, HoldersAre DEF MoneyInv
    <2>5. MoneyInv'
      BY <1>2, <1>4, <2>1, <2>3, <2>4 DEF MoneyInv
    <2> QED BY <1>1, <1>4, <2>4, <2>5, MoneyTypes DEF Solvency
  <1>6. CASE ForceWithdraw(a, amount)
    <2>1. /\ register' = register
          /\ liquidity'.total = liquidity.total + (-amount)
          /\ tokens' = [tokens EXCEPT !["vault"] = @ - amount, !["core"] = @ + fee]
      BY <1>6, Zenon DEF ForceWithdraw, ChangeLiquidity, registerVars
    <2> HIDE DEF fee
    <2>2. /\ tokens' \in [Holders -> Int]
          /\ tokens'.vault = tokens.vault + (-amount)
          /\ tokens'.middleware = tokens.middleware
          /\ tokens'.register = tokens.register
      <3>1. tokens["vault"] - amount = tokens["vault"] + (-amount)
        BY <1>1, HoldersAre DEF MoneyInv
      <3>2. tokens' = [tokens EXCEPT !["vault"] = @ + (-amount), !["core"] = @ + fee]
        BY <2>1, <3>1, Zenon
      <3> QED BY <1>1, <3>2, TokensAfter, HoldersAre DEF MoneyInv
    <2>3. RegisterOK'
      BY <2>1 DEF MoneyInv, RegisterOK
    <2>4. MoneyInv'
      BY <1>1, <1>2, <1>4, <2>1, <2>2, <2>3, MoneyTypes DEF MoneyInv
    <2> QED BY <1>1, <1>4, <2>2, <2>4, MoneyTypes DEF Solvency
  <1> QED BY <1>5, <1>6

\* Between the vault, the middleware and the register tokens only move.
LEMMA TransferKeepsMoney ==
    ASSUME MoneyInv, Solvency,
           \/ TakeInvestment
           \/ \E amount \in TransferAmounts : SendRequestedWithdrawal(amount)
    PROVE  MoneyInv' /\ Solvency'
  <1>1. UNCHANGED <<ipcog, register, liquidity, feeConfiguration>>
    BY DEF TakeInvestment, SendRequestedWithdrawal, shareVars, registerVars, settings
  <1>2. CASE TakeInvestment
    <2> DEFINE taken == tokens.vault - liquidity.total \div 10
    <2>1. taken \in Int /\ tokens["vault"] - taken = tokens["vault"] + (-taken)
      BY HoldersAre DEF MoneyInv
    <2>2. tokens' = [tokens EXCEPT !["vault"] = @ - taken, !["middleware"] = @ + taken]
      BY <1>2, Zenon DEF TakeInvestment
    <2> HIDE DEF taken
    <2>3. tokens' = [tokens EXCEPT !["vault"] = @ + (-taken), !["middleware"] = @ + taken]
      BY <2>1, <2>2, Zenon
    <2>4. /\ tokens' \in [Holders -> Int]
          /\ tokens'.vault = tokens.vault + (-taken)
          /\ tokens'.middleware = tokens.middleware + taken
          /\ tokens'.register = tokens.register
      BY <2>1, <2>3, TokensAfter, HoldersAre DEF MoneyInv
    <2>5. RegisterOK'
      BY <1>1 DEF MoneyInv, RegisterOK
    <2>6. MoneyInv'
      BY <1>1, <2>4, <2>5 DEF MoneyInv
    <2> QED BY <1>1, <2>1, <2>4, <2>6, MoneyTypes DEF Solvency
  <1>3. ASSUME NEW amount \in TransferAmounts, SendRequestedWithdrawal(amount)
        PROVE  MoneyInv' /\ Solvency'
    <2>1. amount \in Nat /\ -amount \in Int
          /\ tokens["middleware"] - amount = tokens["middleware"] + (-amount)
      BY AmountAssumption, HoldersAre DEF MoneyInv
    <2>2. tokens' = [tokens EXCEPT !["middleware"] = @ - amount, !["register"] = @ + amount]
      BY <1>3, Zenon DEF SendRequestedWithdrawal
    <2>3. tokens' = [tokens EXCEPT !["middleware"] = @ + (-amount), !["register"] = @ + amount]
      BY <2>1, <2>2, Zenon
    <2>4. /\ tokens' \in [Holders -> Int]
          /\ tokens'.vault = tokens.vault
          /\ tokens'.middleware = tokens.middleware + (-amount)
          /\ tokens'.register = tokens.register + amount
      BY <2>1, <2>3, TokensAfter, HoldersAre DEF MoneyInv
    <2>5. RegisterOK'
      BY <1>1 DEF MoneyInv, RegisterOK
    <2>6. MoneyInv'
      BY <1>1, <2>4, <2>5 DEF MoneyInv
    <2> QED BY <1>1, <2>1, <2>4, <2>6, MoneyTypes DEF Solvency
  <1> QED BY <1>2, <1>3

\* Every step keeps the pool solvent.
LEMMA StepKeepsMoney ==
    ASSUME MoneyInv, Solvency, [Next]_vars
    PROVE  MoneyInv' /\ Solvency'
  <1>1. ASSUME NEW a \in Accounts, NEW amount \in WithdrawAmounts,
               RequestWithdrawal(a, amount)
        PROVE  MoneyInv' /\ Solvency'
    <2>1. amount \in Nat
      BY AmountAssumption
    <2>2. /\ UNCHANGED <<ipcog, tokens, feeConfiguration>>
          /\ liquidity'.total = liquidity.total + (-amount)
          /\ register' = [register EXCEPT
                 ![a] = [amount |-> @.amount + amount, deadline |-> LockTime(a)]]
      BY <1>1 DEF RequestWithdrawal, RegisterWithdrawal, ChangeLiquidity, settings,
             shareVars
    <2>3. PICK Time : register \in [Accounts -> [amount : Int, deadline : Time]]
      BY DEF MoneyInv, RegisterOK
    <2> DEFINE r == [amount |-> register[a].amount + amount, deadline |-> LockTime(a)]
    <2>4. RegisterOK'
      <3>1. r \in [amount : Int, deadline : {LockTime(a)}]
        BY <2>1, <2>3
      <3>2. register' = [register EXCEPT ![a] = r]
        BY <2>2
      <3> HIDE DEF r
      <3> QED BY <2>3, <3>1, <3>2, RegisterAfter
    <2>5. MoneyInv'
      BY <2>1, <2>2, <2>4 DEF MoneyInv
    <2> QED BY <2>2, <2>5 DEF Solvency
  <1>2. CASE UNCHANGED <<ipcog, register, tokens, liquidity, feeConfiguration>>
    BY <1>2, Zenon DEF MoneyInv, RegisterOK, Solvency
  <1>3. Tick => UNCHANGED <<ipcog, register, tokens, liquidity, feeConfiguration>>
    BY DEF Tick, settings, registerVars, shareVars
  <1>4. \A n : UpdateCurrentTradingCycle(n)
                => UNCHANGED <<ipcog, register, tokens, liquidity, feeConfiguration>>
    BY DEF UpdateCurrentTradingCycle, settings, registerVars, shareVars
  <1>5. UNCHANGED vars
        => UNCHANGED <<ipcog, register, tokens, liquidity, feeConfiguration>>
    BY DEF vars, settings, registerVars, shareVars
  <1>6. \A a \in Accounts : UserStep(a) => MoneyInv' /\ Solvency'
    BY <1>1, DepositIsPaid, WithdrawIsPaid DEF UserStep
  <1> QED BY <1>2, <1>3, <1>4, <1>5, <1>6, TransferKeepsMoney DEF Next

\* The pool is solvent, whatever the cycle configuration is: what the vault,
\* the middleware and the register hold pays for every IPCOG (deposit,
\* withdraw, takeInvestment and the middleware's transfers).
THEOREM Solvency_Safe == Spec => []Solvency
  <1>1. Init => MoneyInv /\ Solvency
    BY InitMoney
  <1>2. MoneyInv /\ Solvency /\ [Next]_vars => (MoneyInv /\ Solvency)'
    BY StepKeepsMoney
  <1> QED BY <1>1, <1>2, PTL DEF Spec

----------------------------------------------------------------------------
\* What each call of a user does to the amounts of its account.

\* A deposit adds what the fee leaves: part of it takes back what was
\* registered, the rest is minted.
LEMMA DepositEffect ==
    ASSUME IInv, NEW a \in Accounts, NEW amount \in DepositAmounts,
           Deposit(a, amount)
    PROVE  \E invs \in Seq(InvestmentType), fresh \in 0 .. amount, back \in 0 .. amount,
              r \in [amount : Nat, deadline : Nat] :
              /\ invs # <<>>
              /\ GetLast(invs).amount = InvestedAmount(a) + fresh + back
              /\ \/ GetLast(invs).timestamp = FundingTime
                 \/ /\ investmentsOf[a] # <<>>
                    /\ GetLast(invs).timestamp
                           \in {register[a].deadline, Investment(a).timestamp}
              /\ back <= register[a].amount
              /\ r.amount = register[a].amount - back
              /\ \/ r.deadline = register[a].deadline
                 \/ r.amount = 0 /\ r.deadline = now
              /\ now' = now
              /\ investmentsOf' = [investmentsOf EXCEPT ![a] = invs]
              /\ register' = [register EXCEPT ![a] = r]
              /\ accountTradingInfo' = [accountTradingInfo EXCEPT
                     ![a] = UpdatedTradingInfo(a, fresh, GetLast(invs).timestamp)]
              /\ ipcog' = [ipcog EXCEPT ![a] = @ + fresh]
              /\ tokens' = [tokens EXCEPT
                     !["vault"] = @ + fresh,
                     !["core"]  = @ + FeeOf(amount, feeConfiguration.depositFee)]
              /\ liquidity'.total = liquidity.total + (fresh + back)
  <1> DEFINE x == amount - FeeOf(amount, feeConfiguration.depositFee)
             done == HandleIncrease(a, x, a \in whitelist)
             invs == done.book.investments
             r == done.register
             fresh == done.deposited
             back == x - fresh
  <1>1. AccountTypeOK /\ CalendarInv /\ AccountInv(a)
    BY DEF IInv
  <1>2. amount \in Nat /\ x \in 0 .. amount
    <2>1. amount \in Nat /\ feeConfiguration.depositFee \in 0 .. FeeBase
      BY <1>1, AmountAssumption DEF CalendarInv
    <2> QED BY <2>1, FeeIsInt
  <1>3. /\ now' = now
        /\ investmentsOf' = [investmentsOf EXCEPT ![a] = invs]
        /\ register' = [register EXCEPT ![a] = r]
        /\ accountTradingInfo' = [accountTradingInfo EXCEPT
               ![a] = UpdatedTradingInfo(a, fresh, GetLast(invs).timestamp)]
        /\ ipcog' = [ipcog EXCEPT ![a] = @ + fresh]
        /\ tokens' = [tokens EXCEPT
               !["vault"] = @ + fresh,
               !["core"]  = @ + FeeOf(amount, feeConfiguration.depositFee)]
        /\ liquidity'.total = liquidity.total + x
    BY Zenon DEF Deposit, Mint, ChangeLiquidity
  <1>4. /\ register[a] \in [amount : Int, deadline : Nat]
        /\ register[a].amount \in Nat /\ InvestedAmount(a) \in Nat
    BY <1>1, AccountTypes DEF InvestedAmount
  <1> HIDE DEF x
  <1>5. /\ r.amount + x = register[a].amount + fresh
        /\ fresh <= x /\ r.amount <= register[a].amount
    <2>1. x \in Nat
      BY <1>2
    <2>2. /\ done.register.amount + x = register[a].amount + done.deposited
          /\ register[a].amount \in Nat => /\ done.deposited <= x
                                           /\ done.register.amount <= register[a].amount
      BY <1>4, <2>1, DepositSplit
    <2> HIDE DEF done
    <2> QED BY <1>4, <2>2
  <1>6. /\ invs \in Seq(InvestmentType)
        /\ invs # <<>>
        /\ done.deposited \in Nat
        /\ done.register \in [amount : Nat, deadline : Nat]
        /\ GetLast(invs).amount + done.register.amount
               = InvestedAmount(a) + register[a].amount + done.deposited
        /\ AvailableDepositedAmount(a) + done.deposited <= GetLast(invs).amount
        /\ \/ FreshOutcome(a, invs, done.register)
           \/ /\ PendingOutcome(a, invs, done.register)
              /\ done.deposited = 0
    <2>1. (a \in whitelist) \in BOOLEAN /\ x \in Nat
      BY <1>2
    <2> QED BY <1>1, <2>1, HandleIncreaseFacts, Zenon
  <1> HIDE DEF done
  <1>12. \/ GetLast(invs).timestamp = FundingTime
         \/ /\ investmentsOf[a] # <<>>
            /\ GetLast(invs).timestamp
                   \in {register[a].deadline, Investment(a).timestamp}
    <2> HIDE DEF invs
    <2> QED BY <1>6 DEF FreshOutcome, PendingOutcome
  <1>7. \/ r.deadline = register[a].deadline
        \/ r.amount = 0 /\ r.deadline = now
    <2>1. r = [amount |-> 0, deadline |-> now] \/ r.deadline = register[a].deadline
      BY <1>6 DEF FreshOutcome, PendingOutcome
    <2> HIDE DEF r
    <2> QED BY <2>1
  <1>8. /\ fresh \in 0 .. amount /\ back \in 0 .. amount
        /\ back <= register[a].amount /\ r.amount = register[a].amount - back
        /\ fresh + back = x
        /\ GetLast(invs).amount = InvestedAmount(a) + fresh + back
    <2>1. GetLast(invs).amount \in Nat /\ r.amount \in Nat /\ fresh \in Nat
      <3>1. GetLast(invs) \in InvestmentType
        BY <1>6, LastOfList
      <3> HIDE DEF invs
      <3> QED BY <1>6, <3>1 DEF InvestmentType
    <2> HIDE DEF invs, r, fresh
    <2>2. GetLast(invs).amount + r.amount = InvestedAmount(a) + register[a].amount + fresh
      BY <1>6 DEF invs, r, fresh
    <2> QED BY <1>2, <1>4, <1>5, <2>1, <2>2
  <1>9. r \in [amount : Nat, deadline : Nat]
    BY <1>6
  <1> HIDE DEF invs, r, fresh, back
  <1>10. liquidity'.total = liquidity.total + (fresh + back)
    BY <1>3, <1>8
  <1>11. invs \in Seq(InvestmentType) /\ invs # <<>>
    BY <1>6 DEF invs
  <1> QED BY <1>3, <1>7, <1>8, <1>9, <1>10, <1>11, <1>12

\* A request registers what it takes from the investment; a pending
\* deadline stays, any other is not in the past.
LEMMA RequestEffect ==
    ASSUME Aligned, IInv, NEW a \in Accounts, NEW amount \in WithdrawAmounts,
           RequestWithdrawal(a, amount)
    PROVE  \E invs \in Seq(InvestmentType), deadline \in Nat :
              /\ invs # <<>>
              /\ amount \in Nat /\ amount <= InvestedAmount(a)
              /\ GetLast(invs).amount = InvestedAmount(a) - amount
              /\ investmentsOf[a] # <<>>
              /\ GetLast(invs).timestamp = Investment(a).timestamp
              /\ deadline = LockTime(a) /\ deadline >= now
              /\ register[a].amount > 0 =>
                     /\ IsInDeadline(a)
                     /\ deadline = register[a].deadline
              /\ now' = now
              /\ investmentsOf' = [investmentsOf EXCEPT ![a] = invs]
              /\ register' = [register EXCEPT
                     ![a] = [amount |-> @.amount + amount, deadline |-> deadline]]
              /\ ipcog' = ipcog
              /\ liquidity'.total = liquidity.total + (-amount)
  <1> DEFINE t == DefundingTime(a)
             c == CycleAt(CurrentCycles, t)
             old == investmentsOf[a]
             w == a \in whitelist
             book == [investments |-> old, units |-> UnitsAfter(DueCycles)]
             done == DecreaseInvestment(book, amount, t, c, liquidity, w)
             invs == done.investments
             lock == LockTime(a)
  <1>1. AccountTypeOK /\ CalendarInv /\ AccountInv(a)
    BY DEF IInv
  <1>2. amount \in Nat
    BY AmountAssumption
  <1>3. /\ CanDecreaseInvestment(book, amount, t, c, liquidity, w)
        /\ IsInDeadline(a) \/ register[a].amount = 0
        /\ now' = now
        /\ investmentsOf' = [investmentsOf EXCEPT ![a] = invs]
        /\ register' = [register EXCEPT
               ![a] = [amount |-> @.amount + amount, deadline |-> lock]]
        /\ ipcog' = ipcog
        /\ liquidity'.total = liquidity.total + (-amount)
    BY DEF RequestWithdrawal, RegisterWithdrawal, ChangeLiquidity, settings, shareVars
  <1>4. old # <<>> /\ amount <= GetLast(old).amount
    BY <1>3 DEF CanDecreaseInvestment
  <1>5. old \in Seq(InvestmentType) /\ InvestedAmount(a) = GetLast(old).amount
    BY <1>1, <1>4, AccountTypes DEF InvestedAmount, Investment
  <1>6. /\ t \in Nat /\ lock \in Nat /\ lock >= now
        /\ IsInDeadline(a) => lock = register[a].deadline
    <2>1. /\ t \in Nat /\ lock \in Nat /\ now <= lock
          /\ IsInDeadline(a) => lock = register[a].deadline
      BY <1>1, RequestTimes
    <2> QED BY <1>1, <2>1 DEF AccountTypeOK
  <1>7. c \in Cycle
    BY <1>1, <1>6, CurrentCycleOfTime DEF InRow, Cycle
  <1>8. /\ invs \in Seq(InvestmentType) /\ invs # <<>>
        /\ GetLast(invs).amount = GetLast(old).amount - amount
        /\ GetLast(invs).timestamp = GetLast(old).timestamp
    <2>1. book.investments = old /\ w \in BOOLEAN
          /\ invs = DecreaseInvestment(book, amount, t, c, liquidity, w).investments
      OBVIOUS
    <2> HIDE DEF book, w, invs, c, t, old
    <2> QED BY <1>2, <1>4, <1>5, <1>6, <1>7, <2>1, DecreaseFacts, SMTT(90)
  <1>9. register[a].amount > 0 => IsInDeadline(a) /\ lock = register[a].deadline
    BY <1>1, <1>3, <1>6, AccountTypes
  <1>10. /\ amount <= InvestedAmount(a)
         /\ GetLast(invs).amount = InvestedAmount(a) - amount
         /\ GetLast(invs).timestamp = Investment(a).timestamp
    BY <1>4, <1>5, <1>8, Zenon DEF Investment
  <1>11. old # <<>> /\ lock = LockTime(a)
    BY <1>4
  <1> HIDE DEF invs, lock, c, t, book, w
  <1> QED BY <1>2, <1>3, <1>6, <1>8, <1>9, <1>10, <1>11

\* A forced withdrawal takes no more than is invested.
LEMMA ForceWithdrawEffect ==
    ASSUME IInv, NEW a \in Accounts, NEW amount \in WithdrawAmounts,
           ForceWithdraw(a, amount)
    PROVE  \E invs \in Seq(InvestmentType) :
              /\ invs # <<>>
              /\ amount \in Nat /\ amount <= InvestedAmount(a)
              /\ GetLast(invs).amount = InvestedAmount(a) - amount
              /\ investmentsOf[a] # <<>>
              /\ GetLast(invs).timestamp = Investment(a).timestamp
              /\ investmentsOf' = [investmentsOf EXCEPT ![a] = invs]
              /\ UNCHANGED <<now, register>>
              /\ ipcog' = [ipcog EXCEPT ![a] = @ - amount]
              /\ liquidity'.total = liquidity.total + (-amount)
  <1> DEFINE old == investmentsOf[a]
             last == Investment(a)
             unit == amount * (CycleAt(tradingCycles, last.timestamp).endTime - last.timestamp)
             left == last.amount - amount
             new == [last EXCEPT !.amount = left, !.unit = @ - unit]
             invs == [old EXCEPT ![Len(old)] = new]
  <1>1. AccountTypeOK /\ CalendarInv /\ AccountInv(a) /\ amount \in Nat
    BY AmountAssumption DEF IInv
  <1>2. /\ amount <= AvailableDepositedAmount(a) /\ old # <<>>
        /\ UNCHANGED <<now, register>>
        /\ ipcog' = [ipcog EXCEPT ![a] = @ - amount]
        /\ liquidity'.total = liquidity.total + (-amount)
    <2>1. AvailableDepositedAmount(a) \in Nat
      BY <1>1, AccountTypes
    <2> QED BY <1>1, <2>1 DEF ForceWithdraw, Burn, ChangeLiquidity, registerVars
  <1>3. investmentsOf' = [investmentsOf EXCEPT ![a] = invs]
    BY <1>1 DEF ForceWithdraw, AccountTypeOK
  <1>4. invs = investmentsOf'[a] /\ invs \in Seq(InvestmentType)
    <2>1. AccountTypeOK'
      BY ForceWithdrawStep
    <2>2. investmentsOf'[a] = invs
      BY <1>1, <1>3 DEF AccountTypeOK
    <2> HIDE DEF invs
    <2> QED BY <2>1, <2>2 DEF AccountTypeOK
  <1>5. /\ old \in Seq(InvestmentType) /\ last = old[Len(old)]
        /\ Len(old) \in Nat \ {0} /\ last \in InvestmentType
        /\ last.amount \in Nat /\ AvailableDepositedAmount(a) \in Nat
        /\ InvestedAmount(a) = last.amount
    BY <1>1, <1>2, AccountTypes DEF InvestedAmount
  <1>6. amount <= last.amount
    <2>1. AvailableDepositedAmount(a) <= last.amount
      BY <1>1, <1>2 DEF AccountInv, InvestorInv
    <2> QED BY <1>1, <1>2, <1>5, <2>1
  <1>7. new.amount = left /\ new.timestamp = last.timestamp
    <2> HIDE DEF last, unit, left
    <2> QED BY <1>5 DEF InvestmentType
  <1>8. GetLast(invs) = new /\ invs # <<>>
    <2> HIDE DEF new
    <2> QED BY <1>4, <1>5 DEF GetLast
  <1>9. /\ amount <= InvestedAmount(a)
        /\ GetLast(invs).amount = InvestedAmount(a) - amount
        /\ GetLast(invs).timestamp = Investment(a).timestamp
    BY <1>5, <1>6, <1>7, <1>8, Zenon
  <1> HIDE DEF invs, new
  <1> QED BY <1>1, <1>2, <1>3, <1>4, <1>8, <1>9

----------------------------------------------------------------------------
\* The liquidity is what the accounts have invested.

Invested == [a \in Accounts |-> InvestedAmount(a)]

\* What is invested is a number, and a transaction of one account changes
\* that of the account alone.
LEMMA InvestedTypes ==
    ASSUME AccountTypeOK
    PROVE  Invested \in [Accounts -> Nat] /\ Invested \in [Accounts -> Int]
  <1>1. \A a \in Accounts : InvestedAmount(a) \in Nat
    BY AccountTypes DEF InvestedAmount
  <1> QED BY <1>1 DEF Invested

\* A change of one list changes what one account has invested.
LEMMA InvestedAfter ==
    ASSUME AccountTypeOK, NEW a \in Accounts, NEW invs \in Seq(InvestmentType),
           invs # <<>>, investmentsOf' = [investmentsOf EXCEPT ![a] = invs]
    PROVE  Invested' = [Invested EXCEPT ![a] = GetLast(invs).amount]
  <1>1. InvestedAmount(a)' = GetLast(invs).amount
    BY DEF InvestedAmount, Investment, AccountTypeOK
  <1>2. \A b \in Accounts : b # a => InvestedAmount(b)' = InvestedAmount(b)
    BY DEF InvestedAmount, Investment, AccountTypeOK
  <1> QED BY <1>1, <1>2 DEF Invested

\* The liquidity follows a change of one investment by the same amount.
LEMMA LiquidityAfter ==
    ASSUME AccountTypeOK, LiquidityBacking, NEW a \in Accounts,
           NEW invs \in Seq(InvestmentType), invs # <<>>,
           investmentsOf' = [investmentsOf EXCEPT ![a] = invs],
           NEW x \in Int, GetLast(invs).amount = InvestedAmount(a) + x,
           liquidity'.total = liquidity.total + x
    PROVE  LiquidityBacking'
  <1>1. /\ Invested \in [Accounts -> Int]
        /\ Invested[a] = InvestedAmount(a) /\ InvestedAmount(a) \in Int
        /\ SumFunction(Invested) \in Int
    <2>1. Invested \in [Accounts -> Int]
      BY InvestedTypes
    <2> QED BY <2>1, AccountAssumption, SumIsInt DEF Invested
  <1>2. Invested' = [Invested EXCEPT ![a] = InvestedAmount(a) + x]
    BY InvestedAfter
  <1>3. SumFunction([Invested EXCEPT ![a] = InvestedAmount(a) + x])
            = SumFunction(Invested) + ((InvestedAmount(a) + x) - Invested[a])
    BY <1>1, AccountAssumption, SumOfChange, InvestedAmount(a) + x \in Int
  <1>4. liquidity.total = SumFunction(Invested)
    BY DEF LiquidityBacking, Invested
  <1>5. liquidity'.total = SumFunction(Invested')
    BY <1>1, <1>2, <1>3, <1>4
  <1> QED BY <1>5 DEF LiquidityBacking, Invested

\* Every step keeps it.
LEMMA StepKeepsLiquidity ==
    ASSUME Aligned, IInv, LiquidityBacking, [Next]_vars
    PROVE  LiquidityBacking'
  <1>1. AccountTypeOK
    BY DEF IInv
  <1>2. ASSUME UNCHANGED <<investmentsOf, liquidity>> PROVE LiquidityBacking'
    BY <1>2 DEF LiquidityBacking, InvestedAmount, Investment
  <1>3. ASSUME NEW a \in Accounts, NEW amount \in DepositAmounts, Deposit(a, amount)
        PROVE  LiquidityBacking'
    <2>1. PICK invs \in Seq(InvestmentType), fresh \in 0 .. amount, back \in 0 .. amount :
              /\ invs # <<>>
              /\ GetLast(invs).amount = InvestedAmount(a) + fresh + back
              /\ investmentsOf' = [investmentsOf EXCEPT ![a] = invs]
              /\ liquidity'.total = liquidity.total + (fresh + back)
      BY <1>3, DepositEffect
    <2>2. fresh + back \in Int /\ InvestedAmount(a) \in Int
      BY <1>1, AccountTypes DEF InvestedAmount
    <2>3. GetLast(invs).amount = InvestedAmount(a) + (fresh + back)
      BY <2>1, <2>2
    <2> QED BY <1>1, <2>1, <2>2, <2>3, LiquidityAfter
  <1>4. ASSUME NEW a \in Accounts, NEW amount \in WithdrawAmounts,
               RequestWithdrawal(a, amount) \/ ForceWithdraw(a, amount)
        PROVE  LiquidityBacking'
    <2>1. PICK invs \in Seq(InvestmentType) :
              /\ invs # <<>> /\ amount \in Nat
              /\ GetLast(invs).amount = InvestedAmount(a) - amount
              /\ investmentsOf' = [investmentsOf EXCEPT ![a] = invs]
              /\ liquidity'.total = liquidity.total + (-amount)
      <3>1. CASE RequestWithdrawal(a, amount)
        BY <3>1, RequestEffect
      <3>2. CASE ForceWithdraw(a, amount)
        BY <3>2, ForceWithdrawEffect
      <3> QED BY <1>4, <3>1, <3>2
    <2>2. -amount \in Int /\ InvestedAmount(a) \in Int
      BY <1>1, <2>1, AccountTypes DEF InvestedAmount
    <2>3. GetLast(invs).amount = InvestedAmount(a) + (-amount)
      BY <2>1, <2>2
    <2> QED BY <1>1, <2>1, <2>2, <2>3, LiquidityAfter
  <1>5. ASSUME NEW a \in Accounts, NEW amount, Claim(a, amount)
        PROVE  UNCHANGED <<investmentsOf, liquidity>>
    BY <1>5 DEF Claim, accountVars
  <1>6. CASE \E a \in Accounts : UserStep(a)
    BY <1>2, <1>3, <1>4, <1>5, <1>6 DEF UserStep
  <1>7. CASE Tick \/ \E n \in 0 .. DueCycles : UpdateCurrentTradingCycle(n)
    BY <1>2, <1>7 DEF Tick, UpdateCurrentTradingCycle, accountVars
  <1>8. CASE TakeInvestment \/ \E amount \in TransferAmounts :
                                  SendRequestedWithdrawal(amount)
    BY <1>2, <1>8 DEF TakeInvestment, SendRequestedWithdrawal, accountVars
  <1>9. CASE UNCHANGED vars
    BY <1>2, <1>9 DEF vars, accountVars
  <1> QED BY <1>6, <1>7, <1>8, <1>9 DEF Next

\* The liquidity from which every cycle gets its units is always the sum of
\* the last investments of the accounts, whatever requests later deposits
\* take back and whatever is forced out.
THEOREM LiquidityBacking_Safe == ASSUME Aligned PROVE Spec => []LiquidityBacking
  <1>1. Init => LiquidityBacking
    <2> SUFFICES ASSUME Init PROVE LiquidityBacking
      OBVIOUS
    <2> DEFINE f == [a \in Accounts |-> InvestedAmount(a)]
    <2>1. liquidity.total = 0 /\ \A a \in Accounts : InvestedAmount(a) = 0
      BY DEF Init, PoolInit, InvestedAmount
    <2>2. DOMAIN f = Accounts /\ \A a \in Accounts : f[a] = 0
      BY <2>1
    <2> HIDE DEF f
    <2>3. SumFunction(f) = 0
      BY <2>2, AccountAssumption, SumOfZeros
    <2> QED BY <2>1, <2>3 DEF LiquidityBacking, f
  <1>2. IInv /\ LiquidityBacking /\ [Next]_vars => LiquidityBacking'
    BY StepKeepsLiquidity
  <1> QED BY <1>1, <1>2, IInvIsInvariant, PTL DEF Spec

----------------------------------------------------------------------------
\* Types of the whole storage.

\* The units of a pool whose opened cycles have ids.
UnitsOK(u) == "updated" \in DOMAIN u /\ u["updated"] \subseteq Nat

\* Writing the counters of cycles leaves the set of opened cycles alone.
LEMMA CountersAreOther ==
    ASSUME NEW u, UnitsOK(u), NEW p, NEW q
    PROVE  UnitsOK([u EXCEPT !["total"] = p, !["whitelist"] = q])
           /\ UnitsOK([u EXCEPT !["whitelist"] = q])
  <1> DEFINE v == [u EXCEPT !["total"] = p]
  <1>1. DOMAIN v = DOMAIN u /\ v["updated"] = u["updated"]
    BY DEF UnitsOK
  <1>2. ASSUME NEW x, UnitsOK(x) PROVE UnitsOK([x EXCEPT !["whitelist"] = q])
    BY <1>2 DEF UnitsOK
  <1>3. UnitsOK(v)
    BY <1>1 DEF UnitsOK
  <1>4. UnitsOK([v EXCEPT !["whitelist"] = q])
    <2> HIDE DEF v
    <2> QED BY <1>2, <1>3
  <1> QED BY <1>2, <1>4, Zenon

\* Neither does adding to the units of a cycle.
LEMMA AddUnitsKeepsOpened ==
    ASSUME NEW u, UnitsOK(u), NEW id, NEW x, NEW y
    PROVE  UnitsOK(AddUnits(u, id, x, y))
  <1>1. PICK p, q : AddUnits(u, id, x, y) = [u EXCEPT !["total"] = p, !["whitelist"] = q]
    BY Zenon DEF AddUnits
  <1>2. UnitsOK([u EXCEPT !["total"] = p, !["whitelist"] = q])
    BY CountersAreOther
  <1> QED BY <1>1, <1>2, Zenon

\* Opening cycles adds their ids.
LEMMA OpenedUnits ==
    ASSUME NEW u, UnitsOK(u), NEW cycles, \A c \in cycles : c.id \in Nat, NEW l
    PROVE  UnitsOK(UpdateTotalUnitsForFirstTime(u, cycles, l))
  <1> DEFINE v == UpdateTotalUnitsForFirstTime(u, cycles, l)
             ids == {c.id : c \in {d \in cycles : d.id \notin u.updated}}
  <1>1. \E p, q : v = [total |-> p, whitelist |-> q, updated |-> u.updated \union ids]
    BY Zenon DEF UpdateTotalUnitsForFirstTime
  <1>2. u.updated \union ids \subseteq Nat
    BY DEF UnitsOK
  <1> HIDE DEF v, ids
  <1>3. "updated" \in DOMAIN v /\ v.updated = u.updated \union ids
    BY <1>1
  <1> QED BY <1>2, <1>3 DEF UnitsOK, v

\* The units with the liquidity counted in the cycles up to now.
LEMMA CurrentUnits ==
    ASSUME AccountTypeOK, CalendarInv, UnitsOK(units), NEW n \in Nat
    PROVE  UnitsOK(UnitsAfter(n))
  <1>1. /\ NewCycles(n) \in Seq(Cycle)
        /\ Len(NewCycles(n)) = n
        /\ \A k \in 1 .. n : NewCycles(n)[k] \in Cycle
    BY NewCyclesInRow DEF InRow
  <1>2. \A c \in Range(NewCycles(n)) : c \in Cycle
    BY <1>1 DEF Range
  <1>3. \A c \in Range(NewCycles(n)) : c.id \in Nat
    BY <1>2 DEF Cycle
  <1> QED BY <1>3, OpenedUnits DEF UnitsAfter

----------------------------------------------------------------------------
\* A list of investments none of which is whitelisted.
Plain(list) == \E S : list \in Seq(S) /\ \A e \in S : e.isWhitelist = FALSE

\* Storing and removing such investments.
LEMMA PlainLists ==
    ASSUME NEW list, Plain(list), NEW e, e.isWhitelist = FALSE
    PROVE  /\ list # <<>> => GetLast(list).isWhitelist = FALSE
           /\ Plain(Append(list, e))
           /\ list # <<>> => Plain([list EXCEPT ![Len(list)] = e])
           /\ Plain(PopLast(list))
           /\ Plain(StoreIncrease(list, e))
  <1>1. PICK S : list \in Seq(S) /\ \A x \in S : x.isWhitelist = FALSE
    BY DEF Plain
  <1> DEFINE T == S \union {e}
  <1>2. list \in Seq(T) /\ e \in T /\ \A x \in T : x.isWhitelist = FALSE
    BY <1>1
  <1> HIDE DEF T
  <1>3. list # <<>> => GetLast(list).isWhitelist = FALSE
    BY <1>1, LastOfList
  <1>4. Append(list, e) \in Seq(T)
    BY <1>2
  <1>5. list # <<>> => [list EXCEPT ![Len(list)] = e] \in Seq(T)
    BY <1>2
  <1>6. PopLast(list) \in Seq(T)
    <2>1. Len(list) - 1 \in Int /\ 1 \in Int /\ \A i \in 1 .. Len(list) - 1 : list[i] \in T
      BY <1>2
    <2> QED BY <1>2, <2>1, SubSeqProperties DEF PopLast
  <1>7. StoreIncrease(list, e) \in Seq(T)
    BY <1>2, <1>4, <1>5 DEF StoreIncrease
  <1> QED BY <1>2, <1>3, <1>4, <1>5, <1>6, <1>7 DEF Plain

\* A book whose investments are not whitelisted and whose opened cycles have
\* ids.
BookOK(book) == Plain(book.investments) /\ UnitsOK(book.units)

\* An increase and a decrease of an account that is not whitelisted keep it.
LEMMA IncreaseKeepsBook ==
    ASSUME NEW book, BookOK(book), NEW x, NEW t, NEW c, c.id \in Nat, NEW l
    PROVE  BookOK(IncreaseInvestment(book, x, t, c, l, FALSE))
  <1> DEFINE invs == book.investments
             new == IncreasedInvestment(invs, x, t, c, FALSE)
             touched == UpdateTotalUnitsForFirstTime(book.units, {c}, l)
             done == IncreaseInvestment(book, x, t, c, l, FALSE)
  <1>1. UnitsOK(touched)
    BY OpenedUnits DEF BookOK
  <1>2. done.investments = StoreIncrease(invs, new)
    BY DEF IncreaseInvestment
  <1>3. new.isWhitelist = FALSE
    BY DEF IncreasedInvestment
  <1>4. \E u, y, z : /\ u = AddUnits(touched, c.id, y, z)
                     /\ \/ done.units = u
                        \/ \E q : done.units = [u EXCEPT !["whitelist"] = q]
    BY Zenon DEF IncreaseInvestment
  <1> HIDE DEF touched, new, done
  <1>5. UnitsOK(done.units)
    <2>1. PICK u, y, z : /\ u = AddUnits(touched, c.id, y, z)
                         /\ \/ done.units = u
                            \/ \E q : done.units = [u EXCEPT !["whitelist"] = q]
      BY <1>4
    <2>2. UnitsOK(u)
      BY <1>1, <2>1, AddUnitsKeepsOpened
    <2>3. \A q : UnitsOK([u EXCEPT !["whitelist"] = q])
      BY <2>2, CountersAreOther, Zenon
    <2> QED BY <2>1, <2>2, <2>3, Zenon
  <1>6. Plain(done.investments)
    BY <1>2, <1>3, PlainLists DEF BookOK
  <1> QED BY <1>5, <1>6 DEF BookOK, done

\* The decrease also needs something to decrease.
LEMMA DecreaseKeepsBook ==
    ASSUME NEW book, BookOK(book), book.investments # <<>>,
           NEW x, NEW t, NEW c, c.id \in Nat, NEW l
    PROVE  BookOK(DecreaseInvestment(book, x, t, c, l, FALSE))
  <1> DEFINE invs == book.investments
             new == DecreasedInvestment(invs, x, t, c, FALSE)
             touched == UpdateTotalUnitsForFirstTime(book.units, {c}, l)
             done == DecreaseInvestment(book, x, t, c, l, FALSE)
  <1>1. UnitsOK(touched)
    BY OpenedUnits DEF BookOK
  <1>2. \/ done.investments = Append(invs, new)
        \/ done.investments = [invs EXCEPT ![Len(invs)] = new]
    BY DEF DecreaseInvestment
  <1>3. new.isWhitelist = FALSE
    BY DEF DecreasedInvestment
  <1>4. \E y, z : done.units = AddUnits(touched, c.id, y, z)
    BY Zenon DEF DecreaseInvestment
  <1> HIDE DEF touched, new, done
  <1>5. UnitsOK(done.units)
    BY <1>1, <1>4, AddUnitsKeepsOpened
  <1>6. Plain(Append(invs, new)) /\ Plain([invs EXCEPT ![Len(invs)] = new])
    <2>1. Plain(invs)
      BY DEF BookOK
    <2> QED BY <1>3, <2>1, PlainLists
  <1> QED BY <1>2, <1>5, <1>6, Zenon DEF BookOK, done

\* A deposit keeps the book, in every branch of the handler.
LEMMA HandleIncreaseKeepsBook ==
    ASSUME AccountTypeOK, CalendarInv, NEW a \in Accounts, NEW x,
           Plain(investmentsOf[a]), UnitsOK(units),
           NEW done, done = HandleIncrease(a, x, FALSE)
    PROVE  BookOK(done.book)
  <1> DEFINE Increase(b, y, t) ==
                 IncreaseInvestment(b, y, t, CycleAt(CurrentCycles, t), liquidity, FALSE)
             book == [investments |-> investmentsOf[a], units |-> UnitsAfter(DueCycles)]
             pending == register[a]
             rest == x - pending.amount
             restored == Increase(book, pending.amount, pending.deadline)
             popped == [restored EXCEPT !.investments = PopLast(@)]
             added == Increase(popped, rest, FundingTime)
  <1>1. BookOK(book)
    <2>1. UnitsOK(UnitsAfter(DueCycles))
      BY LastCurrentCycle, CurrentUnits
    <2> QED BY <2>1 DEF BookOK
  <1>2. ASSUME NEW b, BookOK(b), NEW y, NEW t \in Nat
        PROVE  BookOK(Increase(b, y, t))
    <2>1. CycleAt(CurrentCycles, t) \in Cycle
      BY CurrentCycleOfTime DEF InRow
    <2>2. CycleAt(CurrentCycles, t).id \in Nat
      BY <2>1 DEF Cycle
    <2> QED BY <1>2, <2>2, IncreaseKeepsBook
  <1>3. FundingTime \in Nat /\ pending.deadline \in Nat
    BY FundingTimeFacts, AccountTypes
  <1>4. BookOK(Increase(book, x, FundingTime)) /\ BookOK(restored)
        /\ BookOK(Increase(book, x, pending.deadline))
    <2> HIDE DEF Increase, book
    <2> QED BY <1>1, <1>2, <1>3
  <1>5. BookOK(popped)
    <2>1. /\ popped.investments = PopLast(restored.investments)
          /\ popped.units = restored.units
      BY DEF IncreaseInvestment
    <2> HIDE DEF restored, popped
    <2>2. Plain(PopLast(restored.investments))
      <3>1. \E e : e.isWhitelist = FALSE
        <4>1. [isWhitelist |-> FALSE].isWhitelist = FALSE
          OBVIOUS
        <4> QED BY <4>1
      <3> QED BY <1>4, <3>1, PlainLists DEF BookOK
    <2> QED BY <1>4, <2>1, <2>2 DEF BookOK
  <1>6. BookOK(added)
    <2> HIDE DEF popped, Increase
    <2> QED BY <1>2, <1>3, <1>5
  <1>7. \/ done.book = Increase(book, x, FundingTime)
        \/ done.book = Increase(book, x, pending.deadline)
        \/ \E p, q : done.book =
               [added EXCEPT !.units = [@ EXCEPT !["total"] = p, !["whitelist"] = q]]
    <2> DEFINE c1 == investmentsOf[a] = <<>> \/ FutureCycle.id >= Investment(a).idChanged
               c2 == x < pending.amount
               c3 == x = pending.amount
    <2>1. CASE c1
      BY <2>1, Zenon DEF HandleIncrease
    <2>2. CASE ~c1 /\ c2
      BY <2>2, Zenon DEF HandleIncrease
    <2>3. CASE ~c1 /\ ~c2 /\ c3
      BY <2>3, Zenon DEF HandleIncrease
    <2>4. CASE ~c1 /\ ~c2 /\ ~c3
      BY <2>4, Zenon DEF HandleIncrease
    <2> HIDE DEF c1, c2, c3
    <2> QED BY <2>1, <2>2, <2>3, <2>4
  <1>8. ASSUME NEW p, NEW q,
               done.book = [added EXCEPT !.units = [@ EXCEPT !["total"] = p,
                                                             !["whitelist"] = q]]
        PROVE  BookOK(done.book)
    <2> DEFINE u == [added.units EXCEPT !["total"] = p, !["whitelist"] = q]
               b == [added EXCEPT !.units = u]
    <2>1. UnitsOK(u)
      BY <1>6, CountersAreOther DEF BookOK
    <2>2. b.investments = added.investments /\ b.units = u
      <3> HIDE DEF u
      <3> QED BY DEF IncreaseInvestment
    <2>3. done.book = b
      BY <1>8, Zenon
    <2> HIDE DEF added, u, b
    <2> QED BY <1>6, <2>1, <2>2, <2>3 DEF BookOK
  <1> QED BY <1>4, <1>7, <1>8

----------------------------------------------------------------------------
\* The types of the rest of the storage, in a pool whose owner whitelists
\* nobody and in which no profit has been shared out yet.

ProfitInfo ==
    [profit : Nat, profitForWhitelist : Nat, claimedProfit : Nat,
     claimedProfitForWhitelist : Nat, lastProfitId : Nat, lastInvestmentId : Nat]

StorageInv ==
    /\ now <= MaxTime
    /\ whitelist = {} /\ currentProfitId = 0
    /\ \A a \in Accounts : Plain(investmentsOf[a])
    /\ UnitsOK(units)
    /\ liquidity \in [total : Nat, whitelist : {0}]
    /\ accountProfitInfo \in [Accounts -> ProfitInfo]
    /\ holders \in Nat
    /\ tokens \in [Holders -> Nat]

\* A pool starts with an empty storage.
LEMMA InitStorage == Init => StorageInv
  <1> SUFFICES ASSUME Init PROVE StorageInv
    OBVIOUS
  <1>1. Plain(<<>>)
    <2> DEFINE S == {}
    <2>1. <<>> \in Seq(S) /\ \A e \in S : e.isWhitelist = FALSE
      OBVIOUS
    <2> HIDE DEF S
    <2> QED BY <2>1 DEF Plain
  <1>2. UnitsOK(units)
    BY DEF Init, PoolInit, UnitsOK
  <1>3. accountProfitInfo \in [Accounts -> ProfitInfo]
    BY DEF Init, PoolInit, ProfitInfo
  <1>4. tokens \in [Holders -> Nat]
    BY DEF Init, PoolInit, Holders
  <1> QED BY <1>1, <1>2, <1>3, <1>4, AmountAssumption DEF Init, PoolInit, StorageInv

\* Before any profit is shared out an update leaves the info as it is.
LEMMA ProfitInfoIsKept ==
    ASSUME currentProfitId = 0, NEW info \in ProfitInfo, NEW i, NEW c, NEW u
    PROVE  UpdatedProfitInfo(info, i, c, u) = info
  <1>1. ~(info.lastProfitId < currentProfitId)
    BY DEF ProfitInfo
  <1> QED BY <1>1, Zenon DEF UpdatedProfitInfo, CalculateProfit

\* The tokens of two holders change and stay natural numbers.
LEMMA TokensStayNat ==
    ASSUME tokens \in [Holders -> Nat], NEW x \in Holders, NEW y \in Holders, x # y,
           NEW p \in Int, NEW q \in Int,
           tokens' = [tokens EXCEPT ![x] = @ + p, ![y] = @ + q],
           tokens[x] + p >= 0, tokens[y] + q >= 0
    PROVE  tokens' \in [Holders -> Nat]
  <1>1. /\ tokens' \in [Holders -> Int]
        /\ tokens'[x] = tokens[x] + p
        /\ tokens'[y] = tokens[y] + q
        /\ \A h \in Holders \ {x, y} : tokens'[h] = tokens[h]
    BY TokensAfter
  <1>2. \A h \in Holders : tokens'[h] \in Nat
    BY <1>1
  <1> QED BY <1>1, <1>2

\* A deposit keeps the types of the storage.
LEMMA DepositStorage ==
    ASSUME IInv, IInv', StorageInv, NEW a \in Accounts, NEW amount \in DepositAmounts,
           Deposit(a, amount)
    PROVE  StorageInv'
  <1> DEFINE fee == FeeOf(amount, feeConfiguration.depositFee)
             x == amount - fee
             done == HandleIncrease(a, x, FALSE)
             invs == done.book.investments
             before == FirstTimeProfitInfo(a, invs)
  <1>1. AccountTypeOK /\ CalendarInv /\ AccountTypeOK'
    BY DEF IInv
  <1>2. (a \in whitelist) = FALSE /\ currentProfitId = 0
    BY DEF StorageInv
  <1>3. /\ UNCHANGED <<now, whitelist, currentProfitId>>
        /\ units' = done.book.units
        /\ investmentsOf' = [investmentsOf EXCEPT ![a] = invs]
        /\ accountProfitInfo' = [accountProfitInfo EXCEPT
               ![a] = UpdatedProfitInfo(before, invs, CurrentCycles, done.book.units)]
    BY <1>2 DEF Deposit, settings, profitVars
  <1>4. liquidity' = [total     |-> liquidity.total + x,
                      whitelist |-> liquidity.whitelist + 0]
    BY <1>2, Zenon DEF Deposit, ChangeLiquidity
  <1>5. holders' = holders + 1 \/ holders' = holders + 0
    BY DEF Deposit, Mint
  <1> HIDE DEF done
  <1>6. PICK fresh \in 0 .. amount, back \in 0 .. amount :
              /\ investmentsOf'[a] # <<>>
              /\ tokens' = [tokens EXCEPT !["vault"] = @ + fresh, !["core"] = @ + fee]
              /\ liquidity'.total = liquidity.total + (fresh + back)
    <2>1. PICK list \in Seq(InvestmentType), fresh \in 0 .. amount, back \in 0 .. amount :
              /\ list # <<>>
              /\ investmentsOf' = [investmentsOf EXCEPT ![a] = list]
              /\ tokens' = [tokens EXCEPT !["vault"] = @ + fresh, !["core"] = @ + fee]
              /\ liquidity'.total = liquidity.total + (fresh + back)
      BY DepositEffect
    <2>2. investmentsOf'[a] # <<>>
      BY <1>1, <2>1 DEF AccountTypeOK
    <2> QED BY <2>1, <2>2
  <1>7. amount \in Nat /\ fee \in Nat
    <2>1. amount \in Nat /\ feeConfiguration.depositFee \in 0 .. FeeBase
      BY <1>1, AmountAssumption DEF CalendarInv
    <2>2. fee \in 0 .. amount
      BY <2>1, FeeIsPart
    <2> QED BY <2>1, <2>2
  <1> HIDE DEF fee, x
  <1>8. BookOK(done.book)
    <2>1. Plain(investmentsOf[a]) /\ UnitsOK(units)
      BY DEF StorageInv
    <2> QED BY <1>1, <2>1, HandleIncreaseKeepsBook DEF done
  <1>9. \A b \in Accounts : Plain(investmentsOf'[b])
    BY <1>1, <1>3, <1>8 DEF StorageInv, AccountTypeOK, BookOK
  <1>10. accountProfitInfo' \in [Accounts -> ProfitInfo]
    <2>1. invs \in Seq(InvestmentType) /\ invs # <<>>
      <3> HIDE DEF invs
      <3>1. investmentsOf'[a] = invs
        BY <1>1, <1>3 DEF AccountTypeOK
      <3> QED BY <1>1, <1>6, <3>1 DEF AccountTypeOK
    <2>2. invs[1].idChanged \in Nat
      <3> HIDE DEF invs
      <3>1. invs[1] \in InvestmentType
        BY <2>1
      <3> QED BY <3>1 DEF InvestmentType
    <2>3. before \in ProfitInfo
      <3>1. accountProfitInfo[a] \in ProfitInfo
        BY DEF StorageInv
      <3> HIDE DEF invs
      <3> QED BY <2>2, <3>1 DEF FirstTimeProfitInfo, ProfitInfo
    <2> HIDE DEF before, invs
    <2>4. UpdatedProfitInfo(before, invs, CurrentCycles, done.book.units) = before
      BY <1>2, <2>3, ProfitInfoIsKept
    <2>5. accountProfitInfo' = [accountProfitInfo EXCEPT ![a] = before]
      BY <1>3, <2>4, Zenon
    <2> QED BY <2>3, <2>5 DEF StorageInv
  <1>11. liquidity' \in [total : Nat, whitelist : {0}]
    <2>1. liquidity.total \in Nat /\ liquidity.whitelist = 0
      BY DEF StorageInv
    <2>2. liquidity'.total \in Nat
      BY <1>6, <2>1
    <2>3. liquidity' = [total |-> liquidity'.total, whitelist |-> 0]
      BY <1>4, <2>1
    <2> QED BY <2>2, <2>3
  <1>12. tokens' \in [Holders -> Nat]
    <2>1. tokens["vault"] \in Nat /\ tokens["core"] \in Nat
      BY HoldersAre DEF StorageInv
    <2>2. tokens["vault"] + fresh >= 0 /\ tokens["core"] + fee >= 0
      BY <1>7, <2>1
    <2> QED BY <1>6, <1>7, <2>2, TokensStayNat, HoldersAre DEF StorageInv
  <1> QED BY <1>3, <1>5, <1>8, <1>9, <1>10, <1>11, <1>12 DEF StorageInv, BookOK

\* A request keeps the types of the storage.
LEMMA RequestStorage ==
    ASSUME Aligned, IInv, StorageInv, NEW a \in Accounts, NEW amount \in WithdrawAmounts,
           RequestWithdrawal(a, amount)
    PROVE  StorageInv'
  <1> DEFINE t == DefundingTime(a)
             c == CycleAt(CurrentCycles, t)
             book == [investments |-> investmentsOf[a], units |-> UnitsAfter(DueCycles)]
             done == DecreaseInvestment(book, amount, t, c, liquidity, FALSE)
  <1>1. AccountTypeOK /\ CalendarInv /\ amount \in Nat
    BY AmountAssumption DEF IInv
  <1>2. (a \in whitelist) = FALSE /\ currentProfitId = 0
    BY DEF StorageInv
  <1>3. /\ UNCHANGED <<now, whitelist, currentProfitId, holders, tokens>>
        /\ amount <= liquidity.total
        /\ units' = done.units
        /\ investmentsOf' = [investmentsOf EXCEPT ![a] = done.investments]
        /\ accountProfitInfo' = [accountProfitInfo EXCEPT
               ![a] = UpdatedProfitInfo(@, done.investments, CurrentCycles, done.units)]
        /\ CanDecreaseInvestment(book, amount, t, c, liquidity, FALSE)
    BY <1>2 DEF RequestWithdrawal, settings, profitVars, shareVars
  <1>4. liquidity' = [total     |-> liquidity.total + (-amount),
                      whitelist |-> liquidity.whitelist + (-0)]
    BY <1>2, Zenon DEF RequestWithdrawal, ChangeLiquidity
  <1>5. BookOK(done)
    <2>1. UnitsOK(UnitsAfter(DueCycles))
      BY <1>1, LastCurrentCycle, CurrentUnits DEF StorageInv
    <2>2. BookOK(book)
      BY <2>1 DEF BookOK, StorageInv
    <2>3. c.id \in Nat
      <3>1. t \in Nat
        BY <1>1, RequestTimes
      <3>2. c \in Cycle
        BY <1>1, <3>1, CurrentCycleOfTime DEF InRow
      <3> QED BY <3>2 DEF Cycle
    <2>4. book.investments # <<>>
      BY <1>3 DEF CanDecreaseInvestment
    <2> HIDE DEF book, c
    <2> QED BY <2>2, <2>3, <2>4, DecreaseKeepsBook
  <1> HIDE DEF done
  <1>6. \A b \in Accounts : Plain(investmentsOf'[b])
    BY <1>1, <1>3, <1>5 DEF StorageInv, AccountTypeOK, BookOK
  <1>7. accountProfitInfo' \in [Accounts -> ProfitInfo]
    <2>1. accountProfitInfo[a] \in ProfitInfo
      BY DEF StorageInv
    <2>2. accountProfitInfo' = [accountProfitInfo EXCEPT ![a] = accountProfitInfo[a]]
      BY <1>2, <1>3, <2>1, ProfitInfoIsKept
    <2> QED BY <2>1, <2>2 DEF StorageInv
  <1>8. liquidity' \in [total : Nat, whitelist : {0}]
    <2>1. liquidity.total \in Nat /\ liquidity.whitelist = 0
      BY DEF StorageInv
    <2>2. liquidity.total + (-amount) \in Nat /\ liquidity.whitelist + (-0) = 0
      BY <1>1, <1>3, <2>1
    <2> QED BY <1>4, <2>2
  <1> QED BY <1>3, <1>5, <1>6, <1>7, <1>8 DEF StorageInv, BookOK

\* So do a claim and a forced withdrawal.
LEMMA WithdrawStorage ==
    ASSUME IInv, StorageInv, NEW a \in Accounts, NEW amount \in WithdrawAmounts,
           Claim(a, amount) \/ ForceWithdraw(a, amount)
    PROVE  StorageInv'
  <1> DEFINE fee == FeeOf(amount, feeConfiguration.withdrawalFee)
  <1>1. AccountTypeOK /\ CalendarInv
    BY DEF IInv
  <1>2. amount \in Nat /\ fee \in Nat /\ -amount \in Int
    <2>1. amount \in Nat /\ feeConfiguration.withdrawalFee \in 0 .. FeeBase
      BY <1>1, AmountAssumption DEF CalendarInv
    <2>2. fee \in 0 .. amount
      BY <2>1, FeeIsPart
    <2> QED BY <2>1, <2>2
  <1>3. /\ UNCHANGED <<now, whitelist, currentProfitId, accountProfitInfo>>
        /\ holders' >= 0
        /\ holders' = holders - 1 \/ holders' = holders - 0
    BY DEF Claim, ForceWithdraw, Burn, settings, profitVars, accountVars
  <1>4. holders' \in Nat
    BY <1>3 DEF StorageInv
  <1>5. tokens["register"] \in Nat /\ tokens["vault"] \in Nat /\ tokens["core"] \in Nat
    BY HoldersAre DEF StorageInv
  <1>6. CASE Claim(a, amount)
    <2>1. /\ UNCHANGED <<investmentsOf, units, liquidity>>
          /\ amount <= tokens["register"]
          /\ tokens' = [tokens EXCEPT !["register"] = @ - amount, !["core"] = @ + fee]
      BY <1>6, Zenon DEF Claim, accountVars
    <2> HIDE DEF fee
    <2>2. tokens' \in [Holders -> Nat]
      <3>1. /\ tokens["register"] - amount = tokens["register"] + (-amount)
            /\ tokens["register"] + (-amount) >= 0 /\ tokens["core"] + fee >= 0
        BY <1>2, <1>5, <2>1
      <3>2. tokens' = [tokens EXCEPT !["register"] = @ + (-amount), !["core"] = @ + fee]
        BY <2>1, <3>1, Zenon
      <3> QED BY <1>2, <3>1, <3>2, TokensStayNat, HoldersAre DEF StorageInv
    <2> QED BY <1>3, <1>4, <2>1, <2>2 DEF StorageInv
  <1>7. CASE ForceWithdraw(a, amount)
    <2> DEFINE last == Investment(a)
               c == CycleAt(tradingCycles, last.timestamp)
               unit == amount * (c.endTime - last.timestamp)
               new == [last EXCEPT !.amount = last.amount - amount, !.unit = @ - unit]
               invs == [investmentsOf[a] EXCEPT ![Len(investmentsOf[a])] = new]
    <2>1. /\ investmentsOf[a] # <<>>
          /\ liquidity.total >= amount
          /\ tokens["vault"] >= amount
          /\ tokens' = [tokens EXCEPT !["vault"] = @ - amount, !["core"] = @ + fee]
          /\ \E x, y : units' = AddUnits(units, c.id, x, y)
      BY <1>7, Zenon DEF ForceWithdraw
    <2>2. investmentsOf' = [investmentsOf EXCEPT ![a] = invs]
      BY <1>1, <1>7 DEF ForceWithdraw, AccountTypeOK
    <2>3. last.isWhitelist = FALSE /\ new.isWhitelist = FALSE
      <3>1. \E e : e.isWhitelist = FALSE
        <4>1. [isWhitelist |-> FALSE].isWhitelist = FALSE
          OBVIOUS
        <4> QED BY <4>1
      <3>2. last.isWhitelist = FALSE
        BY <2>1, <3>1, PlainLists DEF StorageInv, Investment
      <3>3. last \in InvestmentType
        BY <1>1, <2>1, AccountTypes
      <3> HIDE DEF last, unit
      <3> QED BY <3>2, <3>3 DEF InvestmentType
    <2>4. liquidity' = [total     |-> liquidity.total + (-amount),
                        whitelist |-> liquidity.whitelist + 0]
      BY <1>7, <2>3, Zenon DEF ForceWithdraw, ChangeLiquidity
    <2> HIDE DEF fee, new, c, unit
    <2>5. UnitsOK(units')
      BY <2>1, AddUnitsKeepsOpened DEF StorageInv
    <2>6. Plain(invs)
      BY <2>1, <2>3, PlainLists DEF StorageInv
    <2>7. \A b \in Accounts : Plain(investmentsOf'[b])
      <3> HIDE DEF invs
      <3> QED BY <1>1, <2>2, <2>6 DEF StorageInv, AccountTypeOK
    <2>8. liquidity' \in [total : Nat, whitelist : {0}]
      <3>1. liquidity.total \in Nat /\ liquidity.whitelist = 0
        BY DEF StorageInv
      <3>2. liquidity.total + (-amount) \in Nat /\ liquidity.whitelist + 0 = 0
        BY <1>2, <2>1, <3>1
      <3> QED BY <2>4, <3>2
    <2>9. tokens' \in [Holders -> Nat]
      <3>1. /\ tokens["vault"] - amount = tokens["vault"] + (-amount)
            /\ tokens["vault"] + (-amount) >= 0 /\ tokens["core"] + fee >= 0
        BY <1>2, <1>5, <2>1
      <3>2. tokens' = [tokens EXCEPT !["vault"] = @ + (-amount), !["core"] = @ + fee]
        BY <2>1, <3>1, Zenon
      <3> QED BY <1>2, <3>1, <3>2, TokensStayNat, HoldersAre DEF StorageInv
    <2> QED BY <1>3, <1>4, <2>5, <2>7, <2>8, <2>9 DEF StorageInv
  <1> QED BY <1>6, <1>7

\* And so do the transfers: a tenth of the liquidity is left in the vault.
LEMMA TransferStorage ==
    ASSUME StorageInv,
           \/ TakeInvestment
           \/ \E amount \in TransferAmounts : SendRequestedWithdrawal(amount)
    PROVE  StorageInv'
  <1>1. UNCHANGED <<now, whitelist, currentProfitId, investmentsOf, units, liquidity,
                    accountProfitInfo, holders>>
    BY DEF TakeInvestment, SendRequestedWithdrawal, settings, profitVars, accountVars,
           shareVars
  <1>2. /\ tokens["vault"] \in Nat /\ tokens["middleware"] \in Nat
        /\ tokens["register"] \in Nat /\ liquidity.total \in Nat
    BY HoldersAre DEF StorageInv
  <1>3. CASE TakeInvestment
    <2> DEFINE left == liquidity.total \div 10
               taken == tokens["vault"] - left
    <2>1. left \in Nat
      BY <1>2
    <2>2. /\ tokens["middleware"] + taken >= 0
          /\ tokens' = [tokens EXCEPT !["vault"] = @ - taken, !["middleware"] = @ + taken]
      BY <1>3, Zenon DEF TakeInvestment
    <2> HIDE DEF left
    <2>3. taken \in Int /\ tokens["vault"] - taken = tokens["vault"] + (-taken)
          /\ tokens["vault"] + (-taken) >= 0
      BY <1>2, <2>1
    <2> HIDE DEF taken
    <2>4. tokens' = [tokens EXCEPT !["vault"] = @ + (-taken), !["middleware"] = @ + taken]
      BY <2>2, <2>3, Zenon
    <2>5. tokens' \in [Holders -> Nat]
      BY <2>2, <2>3, <2>4, TokensStayNat, HoldersAre DEF StorageInv
    <2> QED BY <1>1, <2>5 DEF StorageInv
  <1>4. ASSUME NEW amount \in TransferAmounts, SendRequestedWithdrawal(amount)
        PROVE  StorageInv'
    <2>1. amount \in Nat
      BY AmountAssumption
    <2>2. /\ amount <= tokens["middleware"]
          /\ tokens' = [tokens EXCEPT !["middleware"] = @ - amount, !["register"] = @ + amount]
      BY <1>4, Zenon DEF SendRequestedWithdrawal
    <2>3. /\ tokens["middleware"] - amount = tokens["middleware"] + (-amount)
          /\ tokens["middleware"] + (-amount) >= 0 /\ tokens["register"] + amount >= 0
      BY <1>2, <2>1, <2>2
    <2>4. tokens' = [tokens EXCEPT !["middleware"] = @ + (-amount), !["register"] = @ + amount]
      BY <2>2, <2>3, Zenon
    <2>5. tokens' \in [Holders -> Nat]
      BY <2>1, <2>3, <2>4, TokensStayNat, HoldersAre DEF StorageInv
    <2> QED BY <1>1, <2>5 DEF StorageInv
  <1> QED BY <1>3, <1>4

\* Every step keeps the types of the storage.
LEMMA StepKeepsStorage ==
    ASSUME Aligned, IInv, IInv', StorageInv, [Next]_vars
    PROVE  StorageInv'
  <1>1. CASE Tick
    <2>1. now' = now + 1 /\ now < MaxTime /\ now \in Nat /\ MaxTime \in Nat
      BY <1>1, AmountAssumption DEF Tick, IInv, AccountTypeOK
    <2>2. UNCHANGED <<whitelist, currentProfitId, investmentsOf, units, liquidity,
                      accountProfitInfo, holders, tokens>>
      BY <1>1 DEF Tick, settings, profitVars, accountVars, shareVars
    <2> QED BY <2>1, <2>2 DEF StorageInv
  <1>2. ASSUME NEW n \in 0 .. DueCycles, UpdateCurrentTradingCycle(n)
        PROVE  StorageInv'
    <2>1. units' = UnitsAfter(n) /\
          UNCHANGED <<now, whitelist, currentProfitId, investmentsOf, liquidity,
                      accountProfitInfo, holders, tokens>>
      BY <1>2 DEF UpdateCurrentTradingCycle, settings, profitVars, accountVars, shareVars
    <2>2. AccountTypeOK /\ CalendarInv /\ UnitsOK(units) /\ n \in Nat
      BY LastCurrentCycle DEF IInv, StorageInv
    <2>3. UnitsOK(units')
      BY <2>1, <2>2, CurrentUnits
    <2> QED BY <2>1, <2>3 DEF StorageInv
  <1>3. CASE \E a \in Accounts : UserStep(a)
    BY <1>3, DepositStorage, RequestStorage, WithdrawStorage DEF UserStep
  <1>4. CASE UNCHANGED vars
    BY <1>4 DEF StorageInv, vars, settings, profitVars, accountVars, shareVars
  <1> QED BY <1>1, <1>2, <1>3, <1>4, TransferStorage DEF Next

\* Every variable of the pool keeps its type: no handler takes the liquidity
\* or a balance of the vault, the register or the middleware below zero, and
\* no transaction is dated after the bound.
THEOREM TypeOK_Safe == ASSUME Aligned PROVE Spec => []TypeOK
  <1>1. IInv /\ StorageInv => TypeOK
    <2> SUFFICES ASSUME IInv, StorageInv PROVE TypeOK
      OBVIOUS
    <2>1. AccountTypeOK /\ CalendarInv
      BY DEF IInv
    <2>2. \A field \in DOMAIN cyclesChangedInfo : cyclesChangedInfo[field] \in Nat
      BY <2>1, CycleConstants DEF CalendarInv
    <2>3. \A a \in Accounts, field \in {"profit", "profitForWhitelist", "lastProfitId"} :
              accountProfitInfo[a][field] \in Nat
      BY DEF StorageInv, ProfitInfo
    <2> QED BY <2>1, <2>2, <2>3 DEF TypeOK, StorageInv, UnitsOK, Holders
  <1>2. IInv /\ IInv' /\ StorageInv /\ [Next]_vars => StorageInv'
    BY StepKeepsStorage
  <1> QED BY <1>1, <1>2, InitStorage, IInvIsInvariant, PTL DEF Spec

----------------------------------------------------------------------------
\* The deadline of a first request.

\* What is true of an account that never had a register.  At the very first
\* time all it has invested is still a deposit, which cannot be requested
\* back, and no deposit can meet a pending request.
FirstInv(a) ==
    /\ register[a].deadline = 0 =>
           register[a].amount = 0 /\ ~isNotFirstWithdrawal[a]
    /\ now = 0 =>
           /\ register[a].deadline = 0
           /\ InvestedAmount(a) = AvailableDepositedAmount(a)
           /\ investmentsOf[a] # <<>> => Investment(a).idChanged <= FundingId

\* A pool starts with no register.
LEMMA InitFirst == Init => \A a \in Accounts : FirstInv(a)
  BY DEF Init, PoolInit, FirstInv, InvestedAmount, AvailableDepositedAmount

\* A step that leaves the account alone, or moves the time on, keeps it.
LEMMA SameFirst ==
    ASSUME NEW b \in Accounts, FirstInv(b), now \in Nat, now' = now \/ now' = now + 1,
           investmentsOf'[b] = investmentsOf[b], register'[b] = register[b],
           accountTradingInfo'[b] = accountTradingInfo[b],
           isNotFirstWithdrawal'[b] = isNotFirstWithdrawal[b]
    PROVE  FirstInv(b)'
  <1>1. now' = 0 => now' = now
    OBVIOUS
  <1>2. now' = now =>
            /\ Investment(b)' = Investment(b) /\ InvestedAmount(b)' = InvestedAmount(b)
            /\ FundingId' = FundingId
            /\ AvailableDepositedAmount(b)' = AvailableDepositedAmount(b)
    BY DEF Investment, InvestedAmount, FundingId, AvailableDepositedAmount
  <1> QED BY <1>1, <1>2 DEF FirstInv

\* A deposit at the very first time is all new, and available until its
\* funding time.
LEMMA FirstDeposit ==
    ASSUME IInv, NEW a \in Accounts, FirstInv(a), NEW amount \in DepositAmounts,
           Deposit(a, amount), now = 0
    PROVE  /\ register'[a] = register[a]
           /\ investmentsOf'[a] # <<>>
           /\ Investment(a)'.idChanged = FundingId
           /\ Investment(a)'.amount = AvailableDepositedAmount(a)'
  <1> DEFINE x == amount - FeeOf(amount, feeConfiguration.depositFee)
             w == a \in whitelist
             old == investmentsOf[a]
             book == [investments |-> old, units |-> UnitsAfter(DueCycles)]
             fresh == IncreaseInvestment(book, x, FundingTime,
                                         CycleAt(CurrentCycles, FundingTime),
                                         liquidity, w)
             done == HandleIncrease(a, x, w)
             invs == fresh.investments
             info == accountTradingInfo[a]
             left == AvailableDepositedAmount(a)
  <1>1. AccountTypeOK /\ CalendarInv /\ now' = now
    BY DEF IInv, Deposit
  <1>2. x \in Nat
    <2>1. amount \in Nat /\ feeConfiguration.depositFee \in 0 .. FeeBase
      BY <1>1, AmountAssumption DEF CalendarInv
    <2>2. FeeOf(amount, feeConfiguration.depositFee) \in 0 .. amount
      BY <2>1, FeeIsPart
    <2> QED BY <2>1, <2>2
  <1>3. FundingTime \in Nat /\ now < FundingTime /\ FundingId \in Nat
        /\ FutureCycle = CycleAt(CurrentCycles, FundingTime)
        /\ FutureCycle.id = FundingId /\ FutureCycle \in Cycle
    BY <1>1, FundingTimeFacts DEF FutureCycle, InRow
  <1>4. /\ old \in Seq(InvestmentType) /\ info.availableAmount \in Nat
        /\ info.depositedTimestampOf \in Nat /\ left \in Nat
        /\ old # <<>> => /\ Investment(a) = GetLast(old)
                         /\ GetLast(old).idChanged \in Nat
                         /\ GetLast(old).amount \in Nat
    BY <1>1, AccountTypes DEF Investment
  <1>5. old = <<>> \/ GetLast(old).idChanged <= FundingId
    BY <1>4 DEF FirstInv
  <1>6. /\ InvestedAmount(a) = left
        /\ InvestedAmount(a) = IF old = <<>> THEN 0 ELSE GetLast(old).amount
    BY <1>4 DEF FirstInv, InvestedAmount
  <1>7. done = [book |-> fresh, register |-> register[a], deposited |-> x]
    BY <1>3, <1>4, <1>5 DEF HandleIncrease
  <1>8. /\ invs \in Seq(InvestmentType)
        /\ invs # <<>>
        /\ GetLast(invs).timestamp = FundingTime
        /\ GetLast(invs).idChanged = FundingId
        /\ GetLast(invs).amount = left + x
    <2>1. book.investments = old /\ w \in BOOLEAN
      OBVIOUS
    <2> HIDE DEF book, x, w
    <2>2. /\ invs \in Seq(InvestmentType)
          /\ invs # <<>>
          /\ GetLast(invs).timestamp = FundingTime
          /\ GetLast(invs).idChanged = FundingId
          /\ GetLast(invs).amount = IF old = <<>> THEN x ELSE GetLast(old).amount + x
      BY <1>2, <1>3, <1>4, <1>5, <2>1, IncreaseFacts
    <2> QED BY <1>2, <1>4, <1>6, <2>2
  <1>9. /\ investmentsOf' = [investmentsOf EXCEPT ![a] = done.book.investments]
        /\ register' = [register EXCEPT ![a] = done.register]
        /\ accountTradingInfo' = [accountTradingInfo EXCEPT
               ![a] = UpdatedTradingInfo(a, done.deposited,
                                         GetLast(done.book.investments).timestamp)]
    BY Zenon DEF Deposit
  <1> HIDE DEF done, fresh, x, left
  <1>10. /\ investmentsOf'[a] = invs /\ register'[a] = register[a]
         /\ accountTradingInfo'[a] = UpdatedTradingInfo(a, x, FundingTime)
    BY <1>1, <1>7, <1>8, <1>9 DEF AccountTypeOK
  <1>11. AvailableDepositedAmount(a)' = left + x
    <2>1. CASE now >= info.depositedTimestampOf
      <3>1. left = 0
        BY <1>1, <1>4, <2>1 DEF AvailableDepositedAmount, left, AccountTypeOK
      <3>2. /\ UpdatedTradingInfo(a, x, FundingTime).depositedTimestampOf = FundingTime
            /\ UpdatedTradingInfo(a, x, FundingTime).availableAmount = x
        BY <2>1 DEF UpdatedTradingInfo
      <3> QED BY <1>1, <1>2, <1>3, <1>10, <3>1, <3>2 DEF AvailableDepositedAmount
    <2>2. CASE ~(now >= info.depositedTimestampOf)
      <3>1. left = info.availableAmount /\ info.depositedTimestampOf > now
        BY <1>1, <1>4, <2>2 DEF AvailableDepositedAmount, left, AccountTypeOK
      <3>2. /\ UpdatedTradingInfo(a, x, FundingTime).depositedTimestampOf
                   = info.depositedTimestampOf
            /\ UpdatedTradingInfo(a, x, FundingTime).availableAmount
                   = info.availableAmount + x
        <4>1. info \in [depositedTimestampOf : Nat, availableAmount : Nat,
                        isNotFirstIncreaseInvestment : BOOLEAN]
          BY <1>1, AccountTypes
        <4> QED BY <2>2, <4>1 DEF UpdatedTradingInfo
      <3> QED BY <1>1, <1>2, <1>10, <3>1, <3>2 DEF AvailableDepositedAmount
    <2> QED BY <2>1, <2>2
  <1> QED BY <1>8, <1>10, <1>11 DEF Investment

\* A deposit keeps the invariant.
LEMMA DepositKeepsFirst ==
    ASSUME IInv, NEW a \in Accounts, FirstInv(a), NEW amount \in DepositAmounts,
           Deposit(a, amount)
    PROVE  FirstInv(a)' /\ now' = now
  <1>1. AccountTypeOK /\ now \in Nat /\ now' = now /\ FundingId' = FundingId
        /\ FundingId \in Nat
    BY FundingTimeFacts DEF IInv, AccountTypeOK, Deposit, FundingId
  <1>2. isNotFirstWithdrawal' = isNotFirstWithdrawal
    BY DEF Deposit
  <1>3. CASE now = 0
    <2>1. /\ register'[a] = register[a]
          /\ investmentsOf'[a] # <<>>
          /\ Investment(a)'.idChanged = FundingId
          /\ Investment(a)'.amount = AvailableDepositedAmount(a)'
      BY <1>3, FirstDeposit
    <2> QED BY <1>1, <1>2, <1>3, <2>1 DEF FirstInv, InvestedAmount
  <1>4. CASE now # 0
    <2>1. PICK back \in 0 .. amount, r \in [amount : Nat, deadline : Nat] :
              /\ back <= register[a].amount
              /\ r.amount = register[a].amount - back
              /\ \/ r.deadline = register[a].deadline
                 \/ r.amount = 0 /\ r.deadline = now
              /\ register' = [register EXCEPT ![a] = r]
      BY DepositEffect
    <2>2. register'[a] = r
      BY <1>1, <2>1 DEF AccountTypeOK
    <2>3. back \in Nat /\ r.amount \in Nat
      <3>1. amount \in Nat
        BY AmountAssumption
      <3> QED BY <3>1
    <2>4. r.deadline = 0 => register[a].deadline = 0
      BY <1>1, <1>4, <2>1
    <2>5. r.deadline = 0 => r.amount = 0
      BY <2>1, <2>3, <2>4 DEF FirstInv
    <2> QED BY <1>1, <1>2, <1>4, <2>2, <2>4, <2>5 DEF FirstInv
  <1> QED BY <1>3, <1>4

\* An account that never had a register waits the first defunding duration
\* from its first request on.
LEMMA FirstRequest ==
    ASSUME Aligned, IInv, NEW a \in Accounts, FirstInv(a),
           NEW amount \in WithdrawAmounts, amount # 0, RequestWithdrawal(a, amount)
    PROVE  /\ now' = now /\ now > 0
           /\ register'[a].deadline >= now
           /\ register[a].deadline = 0 =>
                  register'[a].deadline >= now + FirstDefundingCycle - DefundingCycle
  <1>1. AccountTypeOK /\ CalendarInv /\ now' = now /\ amount \in Nat
    BY AmountAssumption DEF IInv, RequestWithdrawal
  <1>2. now \in Nat /\ isNotFirstWithdrawal[a] \in BOOLEAN
        /\ InvestedAmount(a) \in Nat
    BY <1>1, AccountTypes DEF InvestedAmount
  <1>3. amount <= InvestedAmount(a) /\ AvailableDepositedAmount(a) = 0
    <2>1. amount <= InvestedAmount(a)
      BY RequestEffect
    <2> QED BY <2>1 DEF RequestWithdrawal
  <1>4. now > 0
    BY <1>1, <1>2, <1>3 DEF FirstInv
  <1>5. register'[a].deadline = LockTime(a)
    <2>1. register' = [register EXCEPT
              ![a] = [amount |-> register[a].amount + amount, deadline |-> LockTime(a)]]
      BY DEF RequestWithdrawal, RegisterWithdrawal
    <2> QED BY <1>1, <2>1 DEF AccountTypeOK
  <1>6. LockTime(a) >= now
    BY <1>1, RequestTimes
  <1>7. ASSUME register[a].deadline = 0
        PROVE  LockTime(a) >= now + FirstDefundingCycle - DefundingCycle
    <2>1. ~IsInDeadline(a) /\ ~isNotFirstWithdrawal[a]
      BY <1>2, <1>4, <1>7 DEF IsInDeadline, FirstInv
    <2>2. LockTime(a) = NextDefundingTime(now, 0, DefundingCycle, FirstDefundingCycle)
      BY <1>1, <2>1, ChangedInfoIsKept DEF LockTime, CalendarInv
    <2> DEFINE q == now \div DefundingCycle
               p == q * DefundingCycle
    <2>3. p \in Nat /\ now < p + DefundingCycle
      BY <1>2, Quotient, CycleConstants
    <2>4. LockTime(a) = p + FirstDefundingCycle
      <3>1. now - 0 = now /\ ~(now < 0) /\ FirstDefundingCycle # 0
        BY <1>2, CycleConstants
      <3>2. LockTime(a) = ((now - 0) \div DefundingCycle) * DefundingCycle
                              + 0 + FirstDefundingCycle
        BY <2>2, <3>1 DEF NextDefundingTime
      <3>3. LockTime(a) = p + 0 + FirstDefundingCycle
        BY <3>1, <3>2
      <3> HIDE DEF p
      <3> QED BY <2>3, <3>3, CycleConstants
    <2> HIDE DEF p
    <2> QED BY <1>2, <2>3, <2>4, CycleConstants
  <1> QED BY <1>1, <1>4, <1>5, <1>6, <1>7

\* A claim and a forced withdrawal keep the invariant: the first amount an
\* account claims is one that it had registered.
LEMMA WithdrawKeepsFirst ==
    ASSUME IInv, NEW a \in Accounts, FirstInv(a),
           NEW amount \in WithdrawAmounts, amount # 0,
           Claim(a, amount) \/ ForceWithdraw(a, amount)
    PROVE  FirstInv(a)' /\ now' = now
  <1>1. AccountTypeOK /\ amount \in Nat /\ now \in Nat
    BY AmountAssumption DEF IInv, AccountTypeOK
  <1>2. CASE Claim(a, amount)
    <2>1. /\ now' = now /\ register[a].deadline < now
          /\ amount <= register[a].amount
          /\ register' = [register EXCEPT ![a].amount = @ - amount]
      BY <1>2 DEF Claim
    <2>2. register[a].amount \in Nat /\ register[a].deadline \in Nat
      BY <1>1, AccountTypes
    <2>3. now # 0 /\ register[a].deadline # 0
      BY <1>1, <2>1, <2>2 DEF FirstInv
    <2>4. register'[a].deadline = register[a].deadline
      BY <1>1, <2>1 DEF AccountTypeOK
    <2> QED BY <2>1, <2>3, <2>4 DEF FirstInv
  <1>3. CASE ForceWithdraw(a, amount)
    <2> DEFINE left == AvailableDepositedAmount(a)
    <2>1. /\ UNCHANGED <<now, register, isNotFirstWithdrawal>>
          /\ left >= amount
          /\ investmentsOf[a] # <<>>
          /\ accountTradingInfo' = [accountTradingInfo EXCEPT
                 ![a].availableAmount = @ - amount]
      BY <1>3 DEF ForceWithdraw, registerVars
    <2>2. PICK invs \in Seq(InvestmentType) :
              /\ invs # <<>>
              /\ GetLast(invs).amount = InvestedAmount(a) - amount
              /\ investmentsOf' = [investmentsOf EXCEPT ![a] = invs]
      BY <1>3, ForceWithdrawEffect
    <2>3. Investment(a)'.idChanged = Investment(a).idChanged
      <3> DEFINE old == investmentsOf[a]
                 last == Investment(a)
                 unit == amount * (CycleAt(tradingCycles, last.timestamp).endTime
                                       - last.timestamp)
                 new == [last EXCEPT !.amount = last.amount - amount, !.unit = @ - unit]
      <3>1. investmentsOf' = [investmentsOf EXCEPT
                                  ![a] = [old EXCEPT ![Len(old)] = new]]
        BY <1>1, <1>3 DEF ForceWithdraw, AccountTypeOK
      <3>2. old \in Seq(InvestmentType) /\ last \in InvestmentType
            /\ Len(old) \in Nat \ {0}
        BY <1>1, <2>1, AccountTypes
      <3>3. new.idChanged = last.idChanged
        <4> HIDE DEF unit, last
        <4> QED BY <3>2 DEF InvestmentType
      <3> HIDE DEF new, last
      <3>4. GetLast([old EXCEPT ![Len(old)] = new]) = new
        BY <3>2 DEF GetLast
      <3>5. Investment(a)' = new
        BY <1>1, <3>1, <3>4 DEF Investment, AccountTypeOK
      <3> QED BY <3>3, <3>5 DEF last
    <2>4. now = 0 => AvailableDepositedAmount(a)' = left - amount
      <3>1. /\ accountTradingInfo'[a].availableAmount
                   = accountTradingInfo[a].availableAmount - amount
            /\ accountTradingInfo'[a].depositedTimestampOf
                   = accountTradingInfo[a].depositedTimestampOf
        BY <1>1, <2>1 DEF AccountTypeOK
      <3>2. accountTradingInfo[a].depositedTimestampOf > now
        <4>1. left # 0
          BY <1>1, <2>1, AccountTypes
        <4> QED BY <4>1 DEF AvailableDepositedAmount
      <3> QED BY <2>1, <3>1, <3>2 DEF AvailableDepositedAmount
    <2>5. investmentsOf'[a] = invs
      BY <1>1, <2>2 DEF AccountTypeOK
    <2>6. InvestedAmount(a)' = InvestedAmount(a) - amount
      BY <2>2, <2>5 DEF InvestedAmount, Investment
    <2>7. FundingId' = FundingId
      BY <2>1 DEF FundingId
    <2> HIDE DEF left
    <2> QED BY <2>1, <2>3, <2>4, <2>6, <2>7 DEF FirstInv, left
  <1> QED BY <1>2, <1>3

\* A transaction of one account does not touch what the others have.
LEMMA OthersAreAlone ==
    ASSUME IInv, NEW a \in Accounts, NEW b \in Accounts, a # b, UserStep(a)
    PROVE  /\ now' = now
           /\ investmentsOf'[b] = investmentsOf[b]
           /\ register'[b] = register[b]
           /\ accountTradingInfo'[b] = accountTradingInfo[b]
           /\ isNotFirstWithdrawal'[b] = isNotFirstWithdrawal[b]
  <1>1. AccountTypeOK /\ now \in Nat
    BY DEF IInv, AccountTypeOK
  <1> DEFINE Alone == /\ now' = now
                      /\ investmentsOf'[b] = investmentsOf[b]
                      /\ register'[b] = register[b]
                      /\ accountTradingInfo'[b] = accountTradingInfo[b]
                      /\ isNotFirstWithdrawal'[b] = isNotFirstWithdrawal[b]
  <1>2. ASSUME NEW amount \in DepositAmounts, Deposit(a, amount) PROVE Alone
    <2>1. /\ \E v : investmentsOf' = [investmentsOf EXCEPT ![a] = v]
          /\ \E v : register' = [register EXCEPT ![a] = v]
          /\ \E v : accountTradingInfo' = [accountTradingInfo EXCEPT ![a] = v]
          /\ UNCHANGED <<now, isNotFirstWithdrawal>>
      BY <1>2, Zenon DEF Deposit
    <2> QED BY <1>1, <2>1 DEF AccountTypeOK
  <1>3. ASSUME NEW amount \in WithdrawAmounts, RequestWithdrawal(a, amount) PROVE Alone
    <2>1. /\ \E v : investmentsOf' = [investmentsOf EXCEPT ![a] = v]
          /\ register' = [register EXCEPT
                 ![a] = [amount |-> @.amount + amount, deadline |-> LockTime(a)]]
          /\ UNCHANGED <<now, accountTradingInfo, isNotFirstWithdrawal>>
      BY <1>3, Zenon DEF RequestWithdrawal, RegisterWithdrawal
    <2> QED BY <1>1, <2>1 DEF AccountTypeOK
  <1>4. ASSUME NEW amount \in WithdrawAmounts, Claim(a, amount) PROVE Alone
    BY <1>1, <1>4 DEF Claim, accountVars, AccountTypeOK
  <1>5. ASSUME NEW amount \in WithdrawAmounts, ForceWithdraw(a, amount) PROVE Alone
    <2>1. /\ \E v : investmentsOf' = [investmentsOf EXCEPT ![a] = v]
          /\ accountTradingInfo' = [accountTradingInfo EXCEPT
                 ![a].availableAmount = @ - amount]
          /\ UNCHANGED <<now, register, isNotFirstWithdrawal>>
      <3>1. investmentsOf' = [investmentsOf EXCEPT ![a] = investmentsOf'[a]]
        BY <1>1, <1>5 DEF ForceWithdraw, AccountTypeOK
      <3> QED BY <1>5, <3>1 DEF ForceWithdraw, registerVars
    <2> QED BY <1>1, <2>1 DEF AccountTypeOK
  <1> QED BY <1>2, <1>3, <1>4, <1>5 DEF UserStep

\* A transaction of one account goes unnoticed by the others.
LEMMA OthersKeepFirst ==
    ASSUME IInv, NEW a \in Accounts, NEW b \in Accounts, a # b, FirstInv(b), UserStep(a)
    PROVE  FirstInv(b)'
  <1>1. now \in Nat
    BY DEF IInv, AccountTypeOK
  <1> QED BY <1>1, OthersAreAlone, SameFirst

\* Every step keeps the invariant when no withdrawal is of nothing.
LEMMA StepKeepsFirst ==
    ASSUME Aligned, 0 \notin WithdrawAmounts, IInv, \A a \in Accounts : FirstInv(a),
           [Next]_vars
    PROVE  \A a \in Accounts : FirstInv(a)'
  <1>1. AccountTypeOK /\ now \in Nat
    BY DEF IInv, AccountTypeOK
  <1>2. ASSUME now' = now \/ now' = now + 1, UNCHANGED <<accountVars, registerVars>>
        PROVE  \A a \in Accounts : FirstInv(a)'
    BY <1>1, <1>2, SameFirst DEF accountVars, registerVars
  <1>3. ASSUME NEW a \in Accounts, UserStep(a) PROVE FirstInv(a)'
    <2>1. CASE \E amount \in DepositAmounts : Deposit(a, amount)
      BY <2>1, DepositKeepsFirst
    <2>2. CASE \E amount \in WithdrawAmounts : RequestWithdrawal(a, amount)
      <3>1. PICK amount \in WithdrawAmounts : RequestWithdrawal(a, amount)
        BY <2>2
      <3>2. now' = now /\ now > 0 /\ register'[a].deadline >= now
        BY <3>1, FirstRequest
      <3>3. register'[a].deadline # 0
        <4>1. \E deadline \in Nat : register' = [register EXCEPT
                  ![a] = [amount |-> @.amount + amount, deadline |-> deadline]]
          BY <3>1, RequestEffect
        <4>2. register'[a].deadline \in Nat
          BY <1>1, <4>1 DEF AccountTypeOK
        <4> QED BY <1>1, <3>2, <4>2
      <3> QED BY <1>1, <3>2, <3>3 DEF FirstInv
    <2>3. CASE \E amount \in WithdrawAmounts : Claim(a, amount) \/ ForceWithdraw(a, amount)
      BY <2>3, WithdrawKeepsFirst
    <2> QED BY <1>3, <2>1, <2>2, <2>3 DEF UserStep
  <1>4. CASE Tick
    BY <1>2, <1>4 DEF Tick
  <1>5. CASE \E n \in 0 .. DueCycles : UpdateCurrentTradingCycle(n)
    BY <1>2, <1>5 DEF UpdateCurrentTradingCycle
  <1>6. CASE \E a \in Accounts : UserStep(a)
    BY <1>3, <1>6, OthersKeepFirst
  <1>7. CASE TakeInvestment
             \/ \E amount \in TransferAmounts : SendRequestedWithdrawal(amount)
    BY <1>2, <1>7 DEF TakeInvestment, SendRequestedWithdrawal
  <1>8. CASE UNCHANGED vars
    BY <1>2, <1>8 DEF vars
  <1> QED BY <1>4, <1>5, <1>6, <1>7, <1>8 DEF Next

\* A register is filled by a request only.
LEMMA OnlyRequestsRegister ==
    ASSUME Aligned, 0 \notin WithdrawAmounts, IInv, \A a \in Accounts : FirstInv(a), Next,
           NEW a \in Accounts, register[a].deadline = 0, register'[a].amount > 0
    PROVE  \E amount \in WithdrawAmounts : RequestWithdrawal(a, amount)
  <1>1. AccountTypeOK /\ register[a].amount = 0
    BY DEF IInv, FirstInv
  <1>2. register'[a].amount # register[a].amount
    BY <1>1
  <1>3. ASSUME NEW b \in Accounts, UserStep(b),
               ~\E amount \in WithdrawAmounts : RequestWithdrawal(a, amount)
        PROVE  FALSE
    <2>1. CASE \E amount \in DepositAmounts : Deposit(b, amount)
      <3> PICK amount \in DepositAmounts : Deposit(b, amount)
        BY <2>1
      <3>1. PICK back \in 0 .. amount, r \in [amount : Nat, deadline : Nat] :
                /\ back <= register[b].amount
                /\ r.amount = register[b].amount - back
                /\ register' = [register EXCEPT ![b] = r]
        BY DepositEffect
      <3>2. a = b
        BY <1>1, <1>2, <3>1 DEF AccountTypeOK
      <3>3. back \in Nat /\ r.amount = register'[a].amount
        <4>1. amount \in Nat
          BY AmountAssumption
        <4> QED BY <1>1, <3>1, <3>2, <4>1 DEF AccountTypeOK
      <3> QED BY <1>1, <3>1, <3>2, <3>3
    <2>2. CASE \E amount \in WithdrawAmounts : RequestWithdrawal(b, amount)
      <3>1. PICK amount \in WithdrawAmounts : RequestWithdrawal(b, amount)
        BY <2>2
      <3>2. a # b
        BY <1>3, <3>1
      <3> QED BY <1>1, <1>2, <3>1, <3>2
              DEF RequestWithdrawal, RegisterWithdrawal, AccountTypeOK
    <2>3. CASE \E amount \in WithdrawAmounts : Claim(b, amount)
      <3>1. PICK amount \in WithdrawAmounts : Claim(b, amount)
        BY <2>3
      <3>2. /\ amount \in Nat
            /\ amount <= register[b].amount
            /\ register' = [register EXCEPT ![b].amount = @ - amount]
        BY <3>1, AmountAssumption DEF Claim
      <3>3. a = b
        BY <1>1, <1>2, <3>2 DEF AccountTypeOK
      <3>4. amount = 0
        BY <1>1, <3>2, <3>3
      <3> QED BY <3>4
    <2>4. CASE \E amount \in WithdrawAmounts : ForceWithdraw(b, amount)
      BY <1>2, <2>4 DEF ForceWithdraw, registerVars
    <2> QED BY <1>3, <2>1, <2>2, <2>3, <2>4 DEF UserStep
  <1>4. (\E b \in Accounts : UserStep(b)) \/ register' = register
    BY DEF Next, Tick, UpdateCurrentTradingCycle, TakeInvestment,
           SendRequestedWithdrawal, registerVars
  <1> QED BY <1>2, <1>3, <1>4

\* The first amount an account registers stays locked for the first
\* defunding duration, counted from the defunding time before its request,
\* however it deposits, forces out and requests before.  Every withdrawal is
\* of something: one of nothing makes an account a returning one.
THEOREM FirstRequestWaits_Safe ==
    ASSUME Aligned, 0 \notin WithdrawAmounts PROVE Spec => FirstRequestWaits
  <1> DEFINE F == \A a \in Accounts : FirstInv(a)
             A == \A a \in Accounts :
                      register[a].deadline = 0 /\ register'[a].amount > 0
                          => register'[a].deadline
                                 >= now + FirstDefundingCycle - DefundingCycle
  <1>1. Init => F
    BY InitFirst
  <1>2. IInv /\ F /\ [Next]_vars => F'
    BY StepKeepsFirst
  <1>3. IInv /\ F /\ [Next]_vars => [A]_vars
    <2>1. ASSUME IInv, F, Next, NEW a \in Accounts,
                 register[a].deadline = 0, register'[a].amount > 0
          PROVE  register'[a].deadline >= now + FirstDefundingCycle - DefundingCycle
      <3>1. PICK amount \in WithdrawAmounts : RequestWithdrawal(a, amount)
        BY <2>1, OnlyRequestsRegister
      <3> QED BY <2>1, <3>1, FirstRequest
    <2> QED BY <2>1
  <1>4. Spec => [][A]_vars
    BY <1>1, <1>2, <1>3, IInvIsInvariant, PTL DEF Spec
  <1> QED BY <1>4 DEF FirstRequestWaits

----------------------------------------------------------------------------
\* The force-withdraw window.

\* A time that is not later than one of the durations after another.
Soon(t, at) ==
    \E d \in {FundingCycle, DefundingCycle, FirstDefundingCycle} : t <= at + d

\* The times a window can be copied from, and the one it was copied to.
WindowInv(a) ==
    /\ investmentsOf[a] # <<>> => Soon(Investment(a).timestamp, now)
    /\ Soon(register[a].deadline, now)
    /\ Soon(accountTradingInfo[a].depositedTimestampOf, now)

\* What is past is soon, and what is soon stays so.
LEMMA SoonFacts ==
    ASSUME NEW t \in Nat, NEW m \in Nat
    PROVE  /\ t <= m => Soon(t, m)
           /\ Soon(t, m) => Soon(t, m + 1)
  <1>1. {FundingCycle, DefundingCycle, FirstDefundingCycle} \subseteq Nat
    BY CycleConstants
  <1>2. t <= m => t <= m + FundingCycle
    BY <1>1
  <1>3. ASSUME NEW d \in {FundingCycle, DefundingCycle, FirstDefundingCycle},
               t <= m + d
        PROVE  t <= m + 1 + d
    BY <1>1, <1>3
  <1> QED BY <1>2, <1>3 DEF Soon

\* A pool starts with all of these times in the past.
LEMMA InitWindow == Init => \A a \in Accounts : WindowInv(a)
  <1>1. Soon(0, 0)
    BY SoonFacts
  <1> QED BY <1>1 DEF Init, PoolInit, WindowInv

\* A register unlocks soon when its deadline so far was soon.
LEMMA LockIsSoon ==
    ASSUME Aligned, IInv, NEW a \in Accounts, Soon(register[a].deadline, now)
    PROVE  Soon(LockTime(a), now)
  <1>1. AccountTypeOK /\ CalendarInv /\ now \in Nat /\ isNotFirstWithdrawal[a] \in BOOLEAN
    BY DEF IInv, AccountTypeOK
  <1> DEFINE next == NextDefundingTime(now, 0, DefundingCycle, 0)
             first == NextDefundingTime(now, 0, DefundingCycle, FirstDefundingCycle)
  <1>2. LockTime(a) = IF IsInDeadline(a) THEN register[a].deadline
                      ELSE IF isNotFirstWithdrawal[a] THEN next ELSE first
    BY <1>1, ChangedInfoIsKept DEF LockTime, CalendarInv
  <1>3. next <= now + DefundingCycle
    BY <1>1, FundingTimeBounds, CycleConstants DEF NextDefundingTime
  <1>4. first <= now + FirstDefundingCycle
    <2>1. /\ FirstDefundingCycle \in Nat \ {0} /\ DefundingCycle \in Nat \ {0}
          /\ FirstDefundingCycle \in Nat /\ FirstDefundingCycle <= FirstDefundingCycle
          /\ (FirstDefundingCycle \div DefundingCycle) * DefundingCycle
                 = FirstDefundingCycle
      BY CycleConstants
    <2> QED BY <1>1, <2>1, DefundingTimeBounds
  <1>5. Soon(next, now) /\ Soon(first, now)
    BY <1>3, <1>4 DEF Soon
  <1> HIDE DEF next, first
  <1> QED BY <1>2, <1>5

\* A deposit leaves the window where it was or moves it to the last
\* investment: to a funding time, or to one of the times kept so far.
LEMMA DepositKeepsWindow ==
    ASSUME IInv, NEW a \in Accounts, WindowInv(a), NEW amount \in DepositAmounts,
           Deposit(a, amount)
    PROVE  WindowInv(a)' /\ now' = now
  <1>1. AccountTypeOK /\ now \in Nat
        /\ Soon(FundingTime, now)
    <2>1. FundingTime <= now + FundingCycle
      BY FundingTimeFacts DEF IInv
    <2> QED BY <2>1 DEF IInv, AccountTypeOK, Soon
  <1>2. PICK fresh \in 0 .. amount, invs \in Seq(InvestmentType),
             r \in [amount : Nat, deadline : Nat] :
            /\ invs # <<>>
            /\ \/ GetLast(invs).timestamp = FundingTime
               \/ /\ investmentsOf[a] # <<>>
                  /\ GetLast(invs).timestamp
                         \in {register[a].deadline, Investment(a).timestamp}
            /\ \/ r.deadline = register[a].deadline
               \/ r.amount = 0 /\ r.deadline = now
            /\ now' = now
            /\ investmentsOf' = [investmentsOf EXCEPT ![a] = invs]
            /\ register' = [register EXCEPT ![a] = r]
            /\ accountTradingInfo' = [accountTradingInfo EXCEPT
                   ![a] = UpdatedTradingInfo(a, fresh, GetLast(invs).timestamp)]
    BY DepositEffect
  <1>3. Soon(GetLast(invs).timestamp, now)
    BY <1>1, <1>2 DEF WindowInv
  <1>4. Soon(r.deadline, now)
    <2>1. Soon(now, now)
      BY <1>1, SoonFacts
    <2> QED BY <1>2, <2>1 DEF WindowInv
  <1>5. UpdatedTradingInfo(a, fresh, GetLast(invs).timestamp).depositedTimestampOf
            \in {GetLast(invs).timestamp, accountTradingInfo[a].depositedTimestampOf}
    <2>1. accountTradingInfo[a] \in [depositedTimestampOf : Nat, availableAmount : Nat,
                                     isNotFirstIncreaseInvestment : BOOLEAN]
      BY <1>1, AccountTypes
    <2> DEFINE time == GetLast(invs).timestamp
    <2> HIDE DEF time
    <2>2. UpdatedTradingInfo(a, fresh, time).depositedTimestampOf
              \in {time, accountTradingInfo[a].depositedTimestampOf}
      BY <2>1 DEF UpdatedTradingInfo
    <2> QED BY <2>2 DEF time
  <1>6. /\ Investment(a)' = GetLast(invs)
        /\ register'[a] = r
        /\ accountTradingInfo'[a] = UpdatedTradingInfo(a, fresh, GetLast(invs).timestamp)
    BY <1>1, <1>2 DEF Investment, AccountTypeOK
  <1>7. Soon(accountTradingInfo'[a].depositedTimestampOf, now)
    BY <1>3, <1>5, <1>6 DEF WindowInv
  <1> QED BY <1>2, <1>3, <1>4, <1>6, <1>7 DEF WindowInv

\* A request, a claim and a forced withdrawal leave the time of the last
\* investment and the window alone.
LEMMA WithdrawKeepsWindow ==
    ASSUME Aligned, IInv, NEW a \in Accounts, WindowInv(a),
           NEW amount \in WithdrawAmounts,
           \/ RequestWithdrawal(a, amount)
           \/ Claim(a, amount)
           \/ ForceWithdraw(a, amount)
    PROVE  WindowInv(a)' /\ now' = now
  <1>1. AccountTypeOK
    BY DEF IInv
  <1>2. CASE RequestWithdrawal(a, amount)
    <2>1. PICK invs \in Seq(InvestmentType) :
              /\ investmentsOf[a] # <<>>
              /\ GetLast(invs).timestamp = Investment(a).timestamp
              /\ now' = now
              /\ investmentsOf' = [investmentsOf EXCEPT ![a] = invs]
              /\ register' = [register EXCEPT
                     ![a] = [amount |-> @.amount + amount, deadline |-> LockTime(a)]]
      BY <1>2, RequestEffect
    <2>2. Investment(a)' = GetLast(invs) /\ register'[a].deadline = LockTime(a)
      BY <1>1, <2>1 DEF Investment, AccountTypeOK
    <2>3. accountTradingInfo' = accountTradingInfo
      BY <1>2 DEF RequestWithdrawal
    <2>4. Soon(LockTime(a), now)
      BY LockIsSoon DEF WindowInv
    <2> QED BY <2>1, <2>2, <2>3, <2>4 DEF WindowInv
  <1>3. CASE Claim(a, amount)
    <2>1. UNCHANGED <<now, investmentsOf, accountTradingInfo>>
          /\ register'[a].deadline = register[a].deadline
      BY <1>1, <1>3 DEF Claim, accountVars, AccountTypeOK
    <2> QED BY <2>1 DEF WindowInv, Investment
  <1>4. CASE ForceWithdraw(a, amount)
    <2>1. PICK invs \in Seq(InvestmentType) :
              /\ investmentsOf[a] # <<>>
              /\ GetLast(invs).timestamp = Investment(a).timestamp
              /\ investmentsOf' = [investmentsOf EXCEPT ![a] = invs]
              /\ UNCHANGED <<now, register>>
      BY <1>4, ForceWithdrawEffect
    <2>2. Investment(a)' = GetLast(invs)
      BY <1>1, <2>1 DEF Investment, AccountTypeOK
    <2>3. accountTradingInfo'[a].depositedTimestampOf
              = accountTradingInfo[a].depositedTimestampOf
      <3>1. accountTradingInfo' = [accountTradingInfo EXCEPT
                ![a].availableAmount = @ - amount]
        BY <1>4 DEF ForceWithdraw
      <3> QED BY <1>1, <3>1 DEF AccountTypeOK
    <2> QED BY <2>1, <2>2, <2>3 DEF WindowInv
  <1> QED BY <1>2, <1>3, <1>4

\* A step that leaves the account alone, or moves the time on, keeps it.
LEMMA SameWindow ==
    ASSUME AccountTypeOK, NEW b \in Accounts, WindowInv(b), now' = now \/ now' = now + 1,
           investmentsOf'[b] = investmentsOf[b], register'[b] = register[b],
           accountTradingInfo'[b] = accountTradingInfo[b]
    PROVE  WindowInv(b)'
  <1>1. /\ now \in Nat
        /\ register[b].deadline \in Nat
        /\ accountTradingInfo[b].depositedTimestampOf \in Nat
        /\ investmentsOf[b] # <<>> => Investment(b).timestamp \in Nat
    <2>1. investmentsOf[b] # <<>> => Investment(b) \in InvestmentType
      BY AccountTypes
    <2>2. investmentsOf[b] # <<>> => Investment(b).timestamp \in Nat
      BY <2>1 DEF InvestmentType
    <2> QED BY <2>2 DEF AccountTypeOK
  <1>2. Investment(b)' = Investment(b)
    BY DEF Investment
  <1>3. /\ investmentsOf[b] # <<>> => Soon(Investment(b).timestamp, now')
        /\ Soon(register[b].deadline, now')
        /\ Soon(accountTradingInfo[b].depositedTimestampOf, now')
    BY <1>1, SoonFacts DEF WindowInv
  <1> QED BY <1>2, <1>3 DEF WindowInv

\* Every step keeps the times within one duration.
LEMMA StepKeepsWindow ==
    ASSUME Aligned, IInv, \A a \in Accounts : WindowInv(a), [Next]_vars
    PROVE  \A a \in Accounts : WindowInv(a)'
  <1>1. AccountTypeOK
    BY DEF IInv
  <1>2. ASSUME now' = now \/ now' = now + 1, UNCHANGED <<accountVars, registerVars>>
        PROVE  \A a \in Accounts : WindowInv(a)'
    BY <1>1, <1>2, SameWindow DEF accountVars, registerVars
  <1>3. ASSUME NEW a \in Accounts, UserStep(a) PROVE \A b \in Accounts : WindowInv(b)'
    <2>1. WindowInv(a)'
      BY <1>3, DepositKeepsWindow, WithdrawKeepsWindow DEF UserStep
    <2>2. ASSUME NEW b \in Accounts, a # b PROVE WindowInv(b)'
      BY <1>1, <1>3, <2>2, OthersAreAlone, SameWindow
    <2> QED BY <2>1, <2>2
  <1>4. CASE Tick
    BY <1>2, <1>4 DEF Tick
  <1>5. CASE \E n \in 0 .. DueCycles : UpdateCurrentTradingCycle(n)
    BY <1>2, <1>5 DEF UpdateCurrentTradingCycle
  <1>6. CASE \E a \in Accounts : UserStep(a)
    BY <1>3, <1>6
  <1>7. CASE TakeInvestment
             \/ \E amount \in TransferAmounts : SendRequestedWithdrawal(amount)
    BY <1>2, <1>7 DEF TakeInvestment, SendRequestedWithdrawal
  <1>8. CASE UNCHANGED vars
    BY <1>2, <1>8 DEF vars
  <1> QED BY <1>4, <1>5, <1>6, <1>7, <1>8 DEF Next

\* No deposit can be forced out of the pool for longer than one of the
\* durations from now on (_updateDepositInfo, getAvailableDepositedAmount),
\* first requests that deposits take back included: these hand the request's
\* deadline on to the window, and no further one adds to it.
THEOREM WindowIsBounded_Safe == ASSUME Aligned PROVE Spec => []WindowIsBounded
  <1> DEFINE W == \A a \in Accounts : WindowInv(a)
  <1>1. Init => W
    BY InitWindow
  <1>2. IInv /\ W /\ [Next]_vars => W'
    BY StepKeepsWindow
  <1>3. W => WindowIsBounded
    BY DEF WindowInv, Soon, WindowIsBounded
  <1> HIDE DEF W
  <1> QED BY <1>1, <1>2, <1>3, IInvIsInvariant, PTL DEF Spec

----------------------------------------------------------------------------
\* What investments earn in a cycle.

\* The cycle of the row with an id.
RowCycle(id) ==
    [id |-> id, startTime |-> id * TradingCycle, endTime |-> (id + 1) * TradingCycle]

\* What a list of investments earns in a cycle of the row, and what the
\* accounts do.
Earns(invs, id) == UnitInCycle(invs, RowCycle(id))

EarnedIn(id) == [a \in Accounts |-> Earns(investmentsOf[a], id)]

\* The investments of a list that have begun by a cycle.
Begun(invs, id) == {j \in 1 .. Len(invs) : invs[j].idChanged <= id}

\* A cycle of the row lasts the configured time.
LEMMA RowCycleFacts ==
    ASSUME NEW id \in Nat
    PROVE  /\ InRow(RowCycle(id), TradingCycle)
           /\ RowCycle(id).id = id
           /\ Duration(RowCycle(id)) = TradingCycle
           /\ \A c : InRow(c, TradingCycle) /\ c.id = id => c = RowCycle(id)
  <1>1. TradingCycle \in Nat \ {0}
    BY CycleConstants
  <1>2. id * TradingCycle \in Nat /\ (id + 1) * TradingCycle = id * TradingCycle + TradingCycle
    BY <1>1
  <1>3. InRow(RowCycle(id), TradingCycle) /\ RowCycle(id).id = id
    BY <1>1, <1>2 DEF InRow, RowCycle, Cycle
  <1>4. ASSUME NEW c, InRow(c, TradingCycle), c.id = id PROVE c = RowCycle(id)
    <2>1. /\ c \in [id : Nat, startTime : Nat, endTime : Nat]
          /\ c.startTime = id * TradingCycle /\ c.endTime = (id + 1) * TradingCycle
      BY <1>1, <1>2, <1>4 DEF InRow, Cycle
    <2> QED BY <1>4, <2>1 DEF RowCycle
  <1> QED BY <1>1, <1>3, <1>4, RowLengths

\* Some begun investment is the latest, when there is one.
LEMMA LatestBegun ==
    ASSUME NEW invs \in Seq(InvestmentType), NEW id, Begun(invs, id) # {}
    PROVE  Max(Begun(invs, id)) \in Begun(invs, id)
  <1> DEFINE s == Begun(invs, id)
             F == {n \in Nat : \A r \in SUBSET (1 .. n) : r # {} =>
                      \E x \in r : \A y \in r : x >= y}
  <1>1. 0 \in F
    <2>1. 1 .. 0 = {}
      OBVIOUS
    <2> QED BY <2>1
  <1>2. ASSUME NEW n \in Nat, n \in F PROVE n + 1 \in F
    <2> SUFFICES ASSUME NEW r \in SUBSET (1 .. n + 1), r # {}
                 PROVE  \E x \in r : \A y \in r : x >= y
      OBVIOUS
    <2>1. CASE n + 1 \in r
      <3>1. \A y \in r : n + 1 >= y
        OBVIOUS
      <3> QED BY <2>1, <3>1
    <2>2. CASE n + 1 \notin r
      <3>1. r \in SUBSET (1 .. n)
        BY <2>2
      <3> QED BY <1>2, <3>1
    <2> QED BY <2>1, <2>2
  <1>3. Len(invs) \in F
    <2> HIDE DEF F
    <2> QED BY <1>1, <1>2, NatSetInduction
  <1>4. s \in SUBSET (1 .. Len(invs))
    BY DEF Begun
  <1>5. \E x \in s : \A y \in s : x >= y
    BY <1>3, <1>4
  <1> QED BY <1>5 DEF Max

\* The latest of them is the one that earns.
LEMMA EarnsIs ==
    ASSUME NEW invs, NEW id \in Nat
    PROVE  Earns(invs, id) =
               IF Begun(invs, id) = {} THEN 0
               ELSE IF invs[Max(Begun(invs, id))].idChanged = id
                    THEN invs[Max(Begun(invs, id))].unit
                    ELSE invs[Max(Begun(invs, id))].amount * TradingCycle
  <1>1. RowCycle(id).id = id /\ Duration(RowCycle(id)) = TradingCycle
    BY RowCycleFacts
  <1>2. {j \in 1 .. Len(invs) : invs[j].idChanged <= RowCycle(id).id} = Begun(invs, id)
    BY <1>1 DEF Begun
  <1> QED BY <1>1, <1>2, Zenon DEF Earns, UnitInCycle

\* Units are integers.
LEMMA EarnsIsInt ==
    ASSUME NEW invs \in Seq(InvestmentType), NEW id \in Nat
    PROVE  Earns(invs, id) \in Int
  <1> DEFINE last == invs[Max(Begun(invs, id))]
  <1>1. Earns(invs, id) = IF Begun(invs, id) = {} THEN 0
                          ELSE IF last.idChanged = id THEN last.unit
                          ELSE last.amount * TradingCycle
    BY EarnsIs, Zenon
  <1>2. ASSUME Begun(invs, id) # {}
        PROVE  last.unit \in Int /\ last.amount * TradingCycle \in Int
    <2>1. Max(Begun(invs, id)) \in 1 .. Len(invs)
      BY <1>2, LatestBegun DEF Begun
    <2>2. last \in InvestmentType
      BY <2>1
    <2>3. last.unit \in Int /\ last.amount \in Int /\ TradingCycle \in Int
      BY <2>2, CycleConstants DEF InvestmentType
    <2> HIDE DEF last
    <2> QED BY <2>3
  <1> HIDE DEF last
  <1> QED BY <1>1, <1>2

\* From the cycle of its last change on, a list earns what its last
\* investment does.
LEMMA EarnsFromLast ==
    ASSUME NEW invs \in Seq(InvestmentType), invs # <<>>, NEW id \in Nat,
           GetLast(invs).idChanged <= id
    PROVE  Earns(invs, id) = IF GetLast(invs).idChanged = id THEN GetLast(invs).unit
                             ELSE GetLast(invs).amount * TradingCycle
  <1> DEFINE s == Begun(invs, id)
  <1>1. Len(invs) \in s /\ \A y \in s : y \in Nat /\ Len(invs) >= y
    BY LastOfList DEF Begun
  <1>2. Max(s) \in s /\ Len(invs) >= Max(s)
    BY <1>1, LatestBegun
  <1>3. \A y \in s : Max(s) >= y
    <2>1. \E x \in s : \A y \in s : x >= y
      BY <1>1
    <2> HIDE DEF s
    <2> QED BY <2>1 DEF Max
  <1>4. Max(s) = Len(invs)
    <2> HIDE DEF s
    <2> QED BY <1>1, <1>2, <1>3
  <1>5. s # {}
    BY <1>1
  <1> HIDE DEF s
  <1>6. Earns(invs, id) = IF s = {} THEN 0
                          ELSE IF invs[Max(s)].idChanged = id THEN invs[Max(s)].unit
                          ELSE invs[Max(s)].amount * TradingCycle
    BY EarnsIs, Zenon DEF s
  <1> QED BY <1>4, <1>5, <1>6, Zenon DEF GetLast

\* Lists of which the same investments have begun earn the same.
LEMMA EarnsTheSame ==
    ASSUME NEW p \in Seq(InvestmentType), NEW q \in Seq(InvestmentType), NEW id \in Nat,
           Begun(p, id) = Begun(q, id), \A j \in Begun(p, id) : p[j] = q[j]
    PROVE  Earns(p, id) = Earns(q, id)
  <1>1. Begun(p, id) # {} => p[Max(Begun(p, id))] = q[Max(Begun(q, id))]
    BY LatestBegun
  <1> QED BY <1>1, EarnsIs, Zenon

----------------------------------------------------------------------------
\* The units of a pool.

\* Units as they are stored.
HasUnits(u) == DOMAIN u = {"total", "whitelist", "updated"}

\* Adding to a cycle changes the units of that cycle alone.
LEMMA AddUnitsAdds ==
    ASSUME NEW u, HasUnits(u), NEW id, NEW x, NEW y,
           NEW v, v = AddUnits(u, id, x, y)
    PROVE  /\ HasUnits(v)
           /\ v.updated = u.updated
           /\ \A i : ValueAt(v.total, i) = IF i = id THEN ValueAt(u.total, i) + x
                                           ELSE ValueAt(u.total, i)
  <1> DEFINE total == WithValueAt(u.total, id, ValueAt(u.total, id) + x)
  <1>1. \E q : v = [[u EXCEPT !["total"] = total] EXCEPT !["whitelist"] = q]
    BY Zenon DEF AddUnits
  <1>2. \A i : ValueAt(total, i) = IF i = id THEN ValueAt(u.total, i) + x
                                   ELSE ValueAt(u.total, i)
    BY DEF WithValueAt, ValueAt
  <1> HIDE DEF total
  <1>3. HasUnits(v) /\ v.updated = u.updated /\ v.total = total
    BY <1>1 DEF HasUnits
  <1> QED BY <1>2, <1>3

\* The ids of some cycles.
Ids(cycles) == {c.id : c \in cycles}

\* Opening cycles of the row adds, to those not opened yet, what the
\* liquidity earns in one of them.
LEMMA OpeningAdds ==
    ASSUME NEW u, NEW cycles, \A c \in cycles : InRow(c, TradingCycle), NEW l,
           \A i \in Nat : ValueAt(u.total, i) \in Int,
           NEW v, v = UpdateTotalUnitsForFirstTime(u, cycles, l)
    PROVE  /\ HasUnits(v)
           /\ v.updated = u.updated \union Ids(cycles)
           /\ \A i \in Nat : ValueAt(v.total, i) =
                  IF i \in Ids(cycles) \ u.updated
                  THEN ValueAt(u.total, i) + l.total * TradingCycle
                  ELSE ValueAt(u.total, i)
  <1> DEFINE new == {c \in cycles : c.id \notin u.updated}
             ids == {c.id : c \in new}
             Earned(id) == Duration(CHOOSE c \in new : c.id = id)
             total == [i \in DOMAIN u.total \union ids |->
                          ValueAt(u.total, i) + IF i \in ids THEN l.total * Earned(i) ELSE 0]
  <1>1. \E q : v = [total |-> total, whitelist |-> q, updated |-> u.updated \union ids]
    BY Zenon DEF UpdateTotalUnitsForFirstTime
  <1>2. \A i \in ids : Earned(i) = TradingCycle
    <2> TAKE i \in ids
    <2>1. \E c \in new : c.id = i
      OBVIOUS
    <2> DEFINE d == CHOOSE c \in new : c.id = i
    <2>2. d \in new
      BY <2>1
    <2>3. InRow(d, TradingCycle)
      BY <2>2
    <2>4. Duration(d) = TradingCycle
      BY <2>3, RowLengths, CycleConstants
    <2> QED BY <2>4
  <1>3. ids = Ids(cycles) \ u.updated
    BY DEF Ids
  <1>4. \A i \in Nat : ValueAt(total, i) = IF i \in ids
                                           THEN ValueAt(u.total, i) + l.total * TradingCycle
                                           ELSE ValueAt(u.total, i)
    <2> TAKE i \in Nat
    <2>1. CASE i \in ids
      <3>1. total[i] = ValueAt(u.total, i) + l.total * Earned(i)
        BY <2>1
      <3> QED BY <1>2, <2>1, <3>1 DEF ValueAt
    <2>2. CASE i \notin ids /\ i \in DOMAIN u.total
      <3>1. total[i] = ValueAt(u.total, i) + 0
        BY <2>2
      <3> HIDE DEF ids
      <3> QED BY <2>2, <3>1 DEF ValueAt
    <2>3. CASE i \notin ids /\ i \notin DOMAIN u.total
      BY <2>3 DEF ValueAt
    <2> QED BY <2>1, <2>2, <2>3
  <1> HIDE DEF total, ids
  <1>5. HasUnits(v) /\ v.updated = u.updated \union ids /\ v.total = total
    BY <1>1 DEF HasUnits
  <1>6. u.updated \union ids = u.updated \union Ids(cycles)
    BY <1>3
  <1> QED BY <1>3, <1>4, <1>5, <1>6

\* Units v are units u but for what one cycle gains.
Gains(v, u, id, unit) ==
    /\ HasUnits(v)
    /\ v.updated = u.updated
    /\ \A i : ValueAt(v.total, i) = IF i = id THEN ValueAt(u.total, i) + unit
                                    ELSE ValueAt(u.total, i)

\* The units of a book with one cycle opened.
Touched(book, c, l) == UpdateTotalUnitsForFirstTime(book.units, {c}, l)

\* A change of an account's investment in a cycle adds its unit to the
\* cycle, opened first.
LEMMA ChangeAdds ==
    ASSUME NEW book, NEW c, InRow(c, TradingCycle), NEW l, NEW x, NEW t, NEW w,
           \A i \in Nat : ValueAt(book.units.total, i) \in Int, NEW unit, NEW v,
           \/ /\ v = IncreaseInvestment(book, x, t, c, l, w).units
              /\ unit = x * (c.endTime - t)
           \/ /\ v = DecreaseInvestment(book, x, t, c, l, w).units
              /\ unit = -(x * (c.endTime - t))
    PROVE  Gains(v, Touched(book, c, l), c.id, unit)
  <1> DEFINE u == Touched(book, c, l)
  <1>1. HasUnits(u)
    <2>1. \A d \in {c} : InRow(d, TradingCycle)
      OBVIOUS
    <2> QED BY <2>1, OpeningAdds, Zenon DEF Touched
  <1>2. \E y : \/ v = AddUnits(u, c.id, unit, y)
               \/ \E q : v = [AddUnits(u, c.id, unit, 0) EXCEPT !["whitelist"] = q]
    <2>1. CASE v = IncreaseInvestment(book, x, t, c, l, w).units /\ unit = x * (c.endTime - t)
      BY <2>1, Zenon DEF IncreaseInvestment, Touched
    <2>2. CASE v = DecreaseInvestment(book, x, t, c, l, w).units /\ unit = -(x * (c.endTime - t))
      BY <2>2, Zenon DEF DecreaseInvestment, Touched
    <2> QED BY <2>1, <2>2
  <1> HIDE DEF u
  <1>3. PICK y : \/ v = AddUnits(u, c.id, unit, y)
                 \/ \E q : v = [AddUnits(u, c.id, unit, 0) EXCEPT !["whitelist"] = q]
    BY <1>2
  <1>4. CASE v = AddUnits(u, c.id, unit, y)
    <2>1. /\ HasUnits(v)
          /\ v.updated = u.updated
          /\ \A i : ValueAt(v.total, i) = IF i = c.id THEN ValueAt(u.total, i) + unit
                                          ELSE ValueAt(u.total, i)
      BY <1>1, <1>4, AddUnitsAdds
    <2> QED BY <2>1 DEF u, Gains
  <1>5. ASSUME NEW q, v = [AddUnits(u, c.id, unit, 0) EXCEPT !["whitelist"] = q]
        PROVE  /\ HasUnits(v)
               /\ v.updated = u.updated
               /\ \A i : ValueAt(v.total, i) = IF i = c.id THEN ValueAt(u.total, i) + unit
                                               ELSE ValueAt(u.total, i)
    <2> DEFINE s == AddUnits(u, c.id, unit, 0)
    <2>1. /\ HasUnits(s)
          /\ s.updated = u.updated
          /\ \A i : ValueAt(s.total, i) = IF i = c.id THEN ValueAt(u.total, i) + unit
                                          ELSE ValueAt(u.total, i)
      BY <1>1, AddUnitsAdds
    <2> HIDE DEF s
    <2>2. v = [s EXCEPT !["whitelist"] = q]
      BY <1>5 DEF s
    <2>3. HasUnits(v) /\ v.updated = s.updated /\ v.total = s.total
      BY <2>1, <2>2 DEF HasUnits
    <2> QED BY <2>1, <2>3
  <1> QED BY <1>3, <1>4, <1>5 DEF u, Gains

\* The cycles up to id m are opened, with the units of the accounts; the
\* later ones have none yet.
CountedTo(u, m) ==
    /\ u.updated = 0 .. m
    /\ \A id \in Nat : ValueAt(u.total, id) = IF id <= m THEN SumFunction(EarnedIn(id)) ELSE 0

\* No account's last change is in a cycle that is not opened.
Reached(m) ==
    \A a \in Accounts : investmentsOf[a] # <<>> => Investment(a).idChanged <= m

\* What the accounts earn is a number.
LEMMA EarnedTypes ==
    ASSUME AccountTypeOK, NEW id \in Nat
    PROVE  /\ EarnedIn(id) \in [Accounts -> Int]
           /\ SumFunction(EarnedIn(id)) \in Int
  <1>1. \A a \in Accounts : Earns(investmentsOf[a], id) \in Int
    BY EarnsIsInt DEF AccountTypeOK
  <1>2. EarnedIn(id) \in [Accounts -> Int]
    BY <1>1 DEF EarnedIn
  <1> QED BY <1>2, AccountAssumption, SumIsInt

\* So is what is counted.
LEMMA CountedTypes ==
    ASSUME AccountTypeOK, NEW u, NEW m \in Nat, CountedTo(u, m)
    PROVE  \A i \in Nat : ValueAt(u.total, i) \in Int
  BY EarnedTypes DEF CountedTo

\* In a cycle after all changes the accounts earn what the liquidity does.
LEMMA EarnedAfterChanges ==
    ASSUME AccountTypeOK, LiquidityBacking, NEW m \in Nat, Reached(m),
           NEW id \in Nat, id > m
    PROVE  SumFunction(EarnedIn(id)) = liquidity.total * TradingCycle
  <1>1. Invested \in [Accounts -> Int] /\ TradingCycle \in Int
    BY InvestedTypes, CycleConstants
  <1>2. ASSUME NEW a \in Accounts
        PROVE  Earns(investmentsOf[a], id) = InvestedAmount(a) * TradingCycle
    <2>1. CASE investmentsOf[a] = <<>>
      <3>1. Begun(investmentsOf[a], id) = {}
        BY <2>1 DEF Begun
      <3>2. Earns(investmentsOf[a], id) = 0
        BY <3>1, EarnsIs, Zenon
      <3> QED BY <1>1, <2>1, <3>2 DEF InvestedAmount
    <2>2. CASE investmentsOf[a] # <<>>
      <3>1. investmentsOf[a] \in Seq(InvestmentType) /\ Investment(a).idChanged \in Nat
        BY <2>2, AccountTypes
      <3>2. GetLast(investmentsOf[a]).idChanged < id
        BY <2>2, <3>1 DEF Reached, Investment
      <3>3. GetLast(investmentsOf[a]).idChanged <= id /\ GetLast(investmentsOf[a]).idChanged # id
        BY <3>1, <3>2 DEF Investment
      <3>4. Earns(investmentsOf[a], id) = GetLast(investmentsOf[a]).amount * TradingCycle
        BY <2>2, <3>1, <3>3, EarnsFromLast
      <3> QED BY <2>2, <3>4 DEF InvestedAmount, Investment
    <2> QED BY <2>1, <2>2
  <1>3. DOMAIN EarnedIn(id) = Accounts
        /\ \A a \in Accounts : EarnedIn(id)[a] = Invested[a] * TradingCycle
    BY <1>2 DEF EarnedIn, Invested
  <1>4. SumFunction(EarnedIn(id)) = SumFunction(Invested) * TradingCycle
    BY <1>1, <1>3, AccountAssumption, SumOfMultiples
  <1> QED BY <1>4 DEF LiquidityBacking, Invested

\* The liquidity opens cycles with the units the accounts have in them.
LEMMA OpeningKeepsCount ==
    ASSUME AccountTypeOK, LiquidityBacking, NEW m \in Nat, NEW n \in Nat,
           NEW u, CountedTo(u, m), Reached(m),
           NEW cycles, \A c \in cycles : InRow(c, TradingCycle),
           0 .. m \union Ids(cycles) = 0 .. n,
           NEW v, v = UpdateTotalUnitsForFirstTime(u, cycles, liquidity)
    PROVE  HasUnits(v) /\ CountedTo(v, n) /\ m <= n
  <1>1. u.updated = 0 .. m
    BY DEF CountedTo
  <1>2. \A i \in Nat : ValueAt(u.total, i) \in Int
    BY CountedTypes
  <1>3. /\ HasUnits(v)
        /\ v.updated = u.updated \union Ids(cycles)
        /\ \A i \in Nat : ValueAt(v.total, i) =
               IF i \in Ids(cycles) \ u.updated
               THEN ValueAt(u.total, i) + liquidity.total * TradingCycle
               ELSE ValueAt(u.total, i)
    <2>1. /\ HasUnits(v)
          /\ v.updated = u.updated \union Ids(cycles)
          /\ \A i \in Nat : ValueAt(v.total, i) =
                 IF i \in Ids(cycles) \ u.updated
                 THEN ValueAt(u.total, i) + liquidity.total * TradingCycle
                 ELSE ValueAt(u.total, i)
      BY <1>2, OpeningAdds
    <2> QED BY <2>1
  <1>4. 0 .. m \union Ids(cycles) = 0 .. n
    OBVIOUS
  <1>5. m <= n
    <2>1. m \in 0 .. n
      BY <1>4
    <2> QED BY <2>1
  <1>6. ASSUME NEW i \in Nat
        PROVE  ValueAt(v.total, i) = IF i <= n THEN SumFunction(EarnedIn(i)) ELSE 0
    <2>1. i \in Ids(cycles) \ u.updated <=> m < i /\ i <= n
      <3>1. i \in 0 .. n <=> i \in 0 .. m \/ i \in Ids(cycles)
        BY <1>4
      <3> QED BY <1>1, <1>5, <3>1
    <2>2. CASE m < i /\ i <= n
      <3>1. ValueAt(u.total, i) = 0
        BY <2>2 DEF CountedTo
      <3>2. SumFunction(EarnedIn(i)) = liquidity.total * TradingCycle
        BY <2>2, EarnedAfterChanges
      <3>3. SumFunction(EarnedIn(i)) \in Int
        BY EarnedTypes
      <3>4. ValueAt(v.total, i) = 0 + SumFunction(EarnedIn(i))
        BY <1>3, <2>1, <2>2, <3>1, <3>2
      <3> QED BY <2>2, <3>3, <3>4
    <2>3. CASE ~(m < i /\ i <= n)
      <3>1. ValueAt(v.total, i) = ValueAt(u.total, i)
        BY <1>3, <2>1, <2>3
      <3> QED BY <1>5, <2>3, <3>1 DEF CountedTo
    <2> QED BY <2>2, <2>3
  <1>7. v.updated = 0 .. n
    BY <1>1, <1>3, <1>4
  <1> QED BY <1>3, <1>5, <1>6, <1>7 DEF CountedTo

\* The same of units and investments that need not be the stored ones.
CountedIn(u, invsOf, m) ==
    /\ u.updated = 0 .. m
    /\ \A id \in Nat :
           ValueAt(u.total, id) =
               IF id <= m THEN SumFunction([b \in Accounts |-> Earns(invsOf[b], id)]) ELSE 0

\* One account's list changes what it earns in cycle k, of the cycles up to
\* id m, and the units of that cycle change by as much.
CountedChange(a, invs, g, u, v, k, x, m) ==
    /\ g = [investmentsOf EXCEPT ![a] = invs]
    /\ Earns(invs, k) = Earns(investmentsOf[a], k) + x
    /\ \A id \in 0 .. m : id # k => Earns(invs, id) = Earns(investmentsOf[a], id)
    /\ v.updated = u.updated
    /\ \A i \in Nat : ValueAt(v.total, i) = IF i = k THEN ValueAt(u.total, i) + x
                                             ELSE ValueAt(u.total, i)

\* Such a change in an opened cycle keeps the count.
LEMMA ChangeKeepsCount ==
    ASSUME AccountTypeOK, NEW m \in Nat, NEW u, CountedTo(u, m), NEW a \in Accounts,
           NEW invs \in Seq(InvestmentType), NEW k \in 0 .. m, NEW x \in Int,
           NEW g, NEW v, CountedChange(a, invs, g, u, v, k, x, m)
    PROVE  CountedIn(v, g, m)
  <1> USE DEF CountedChange
  <1> DEFINE After(id) == [b \in Accounts |-> Earns(g[b], id)]
  <1>1. ASSUME NEW id \in Nat, id <= m
        PROVE  SumFunction(After(id)) = SumFunction(EarnedIn(id)) + IF id = k THEN x ELSE 0
    <2> DEFINE e == Earns(investmentsOf[a], id)
               y == e + IF id = k THEN x ELSE 0
               f == EarnedIn(id)
    <2>1. e \in Int /\ y \in Int /\ f \in [Accounts -> Int] /\ f[a] = e
          /\ SumFunction(f) \in Int
      <3>1. e \in Int /\ f \in [Accounts -> Int] /\ SumFunction(f) \in Int
        BY EarnsIsInt, EarnedTypes DEF AccountTypeOK
      <3>2. f[a] = e
        BY DEF EarnedIn
      <3> HIDE DEF e, f
      <3> QED BY <3>1, <3>2
    <2>2. Earns(invs, id) = y
      <3>1. id \in 0 .. m
        BY <1>1
      <3>2. CASE id = k
        BY <3>2
      <3>3. CASE id # k
        BY <2>1, <3>1, <3>3
      <3> QED BY <3>2, <3>3
    <2>3. After(id) = [f EXCEPT ![a] = y]
      <3>1. /\ g[a] = invs
            /\ \A b \in Accounts : b # a => g[b] = investmentsOf[b]
        BY DEF AccountTypeOK
      <3>2. f = [b \in Accounts |-> Earns(investmentsOf[b], id)]
        BY DEF EarnedIn
      <3> HIDE DEF y, f
      <3> QED BY <2>2, <3>1, <3>2
    <2> HIDE DEF f, e, After
    <2>4. SumFunction([f EXCEPT ![a] = y]) = SumFunction(f) + (y - f[a])
      <3> HIDE DEF y
      <3> QED BY <2>1, AccountAssumption, SumOfChange
    <2>5. SumFunction([f EXCEPT ![a] = y]) = SumFunction(f) + IF id = k THEN x ELSE 0
      <3>1. y - f[a] = IF id = k THEN x ELSE 0
        BY <2>1
      <3> QED BY <2>4, <3>1
    <2> QED BY <2>3, <2>5, Zenon DEF f
  <1>2. ASSUME NEW id \in Nat
        PROVE  ValueAt(v.total, id) = IF id <= m THEN SumFunction(After(id)) ELSE 0
    <2>1. SumFunction(EarnedIn(id)) \in Int
      BY EarnedTypes
    <2> HIDE DEF After
    <2>2. CASE id <= m
      <3>1. ValueAt(u.total, id) = SumFunction(EarnedIn(id))
        BY <2>2 DEF CountedTo
      <3> QED BY <1>1, <2>1, <2>2, <3>1
    <2>3. CASE ~(id <= m)
      <3>1. id # k /\ ValueAt(u.total, id) = 0
        BY <2>3 DEF CountedTo
      <3> QED BY <2>3, <3>1
    <2> QED BY <2>2, <2>3
  <1>3. v.updated = 0 .. m
    BY DEF CountedTo
  <1> QED BY <1>2, <1>3 DEF CountedIn

----------------------------------------------------------------------------
\* The lists after a change.

\* An investment is pushed when it starts a new cycle, or replaces the last
\* one of the same cycle.
Stores(old, e, new) ==
    \/ /\ old = <<>> \/ GetLast(old).idChanged < e.idChanged
       /\ new = Append(old, e)
    \/ /\ old # <<>> /\ GetLast(old).idChanged = e.idChanged
       /\ new = [old EXCEPT ![Len(old)] = e]

\* Then a list earns the unit of the new investment in its cycle, and what
\* it did in earlier ones.
LEMMA ChangedListEarns ==
    ASSUME NEW old \in Seq(InvestmentType), NEW e \in InvestmentType, NEW new,
           Stores(old, e, new)
    PROVE  /\ new \in Seq(InvestmentType) /\ new # <<>>
           /\ GetLast(new) = e
           /\ Earns(new, e.idChanged) = e.unit
           /\ \A id \in Nat : id < e.idChanged => Earns(new, id) = Earns(old, id)
  <1> USE DEF Stores
  <1>1. e.idChanged \in Nat
    BY DEF InvestmentType
  <1>2. new \in Seq(InvestmentType) /\ new # <<>> /\ GetLast(new) = e
    <2>1. CASE new = Append(old, e)
      BY <2>1, LastOfAppend
    <2>2. CASE old # <<>> /\ new = [old EXCEPT ![Len(old)] = e]
      BY <2>2 DEF GetLast
    <2> QED BY <2>1, <2>2
  <1>3. Earns(new, e.idChanged) = e.unit
    BY <1>1, <1>2, EarnsFromLast
  <1>4. ASSUME NEW id \in Nat, id < e.idChanged
        PROVE  Earns(new, id) = Earns(old, id)
    <2>1. ~(e.idChanged <= id)
      BY <1>1, <1>4
    <2>2. CASE new = Append(old, e)
      <3>1. /\ Len(old) \in Nat
            /\ Len(new) = Len(old) + 1 /\ new[Len(old) + 1] = e
            /\ \A i \in 1 .. Len(old) : new[i] = old[i]
        BY <2>2
      <3>2. Begun(new, id) = Begun(old, id)
        BY <2>1, <3>1 DEF Begun
      <3>3. \A j \in Begun(old, id) : new[j] = old[j]
        BY <3>1 DEF Begun
      <3> QED BY <1>2, <3>2, <3>3, EarnsTheSame
    <2>3. CASE /\ old # <<>> /\ GetLast(old).idChanged = e.idChanged
               /\ new = [old EXCEPT ![Len(old)] = e]
      <3>1. /\ Len(old) \in Nat \ {0}
            /\ Len(new) = Len(old) /\ new[Len(old)] = e
            /\ \A i \in 1 .. Len(old) : i # Len(old) => new[i] = old[i]
        BY <2>3
      <3>2. ~(old[Len(old)].idChanged <= id)
        BY <2>1, <2>3 DEF GetLast
      <3>3. Begun(new, id) = Begun(old, id)
        BY <2>1, <3>1, <3>2 DEF Begun
      <3>4. \A j \in Begun(old, id) : new[j] = old[j]
        BY <3>1, <3>2 DEF Begun
      <3> QED BY <1>2, <3>3, <3>4, EarnsTheSame
    <2> QED BY <2>2, <2>3
  <1> QED BY <1>2, <1>3, <1>4

\* What a list earns in a cycle that its last change is not after.
LEMMA EarnsNow ==
    ASSUME NEW old \in Seq(InvestmentType), NEW k \in Nat,
           old = <<>> \/ GetLast(old).idChanged <= k
    PROVE  /\ old = <<>> => Earns(old, k) = 0
           /\ old # <<>> /\ GetLast(old).idChanged < k =>
                  Earns(old, k) = GetLast(old).amount * TradingCycle
           /\ old # <<>> /\ GetLast(old).idChanged = k => Earns(old, k) = GetLast(old).unit
  <1>1. CASE old = <<>>
    <2>1. Begun(old, k) = {}
      BY <1>1 DEF Begun
    <2>2. Earns(old, k) = 0
      BY <2>1, EarnsIs, Zenon
    <2> QED BY <1>1, <2>2
  <1>2. CASE old # <<>>
    <2>1. GetLast(old).idChanged \in Nat
      <3>1. GetLast(old) \in InvestmentType
        BY <1>2, LastOfList
      <3> QED BY <3>1 DEF InvestmentType
    <2> QED BY <1>2, <2>1, EarnsFromLast
  <1> QED BY <1>1, <1>2

\* What an increase stores in the list of an account.
LEMMA IncreaseStores ==
    ASSUME NEW old \in Seq(InvestmentType), NEW book, book.investments = old,
           NEW x \in Nat, NEW t \in Nat, NEW c, InRow(c, TradingCycle), NEW w \in BOOLEAN, NEW l,
           old = <<>> \/ GetLast(old).idChanged <= c.id,
           NEW new, new = IncreaseInvestment(book, x, t, c, l, w).investments
    PROVE  LET e == IncreasedInvestment(old, x, t, c, w)
           IN /\ e \in InvestmentType /\ Stores(old, e, new)
              /\ e.idChanged = c.id /\ e.timestamp = t /\ e.isWhitelist = w
              /\ x * (c.endTime - t) \in Int
              /\ e.unit = IF old = <<>> THEN x * (c.endTime - t)
                          ELSE IF GetLast(old).idChanged < c.id
                          THEN GetLast(old).amount * TradingCycle + x * (c.endTime - t)
                          ELSE GetLast(old).unit + x * (c.endTime - t)
  <1> DEFINE last == GetLast(old)
             e == IncreasedInvestment(old, x, t, c, w)
             unit == x * (c.endTime - t)
  <1>1. new = StoreIncrease(old, e)
    BY DEF IncreaseInvestment
  <1>2. c \in Cycle /\ c.id \in Nat /\ c.endTime \in Nat /\ Duration(c) = TradingCycle
    <2>1. c \in Cycle /\ Duration(c) = TradingCycle
      BY RowLengths, CycleConstants DEF InRow
    <2> QED BY <2>1 DEF Cycle
  <1>3. unit \in Int
    BY <1>2
  <1>4. old # <<>> => /\ last.amount \in Nat /\ last.unit \in Int /\ last.idChanged \in Nat
                      /\ last.amount * TradingCycle \in Int
    <2>1. old # <<>> => last \in InvestmentType
      BY LastOfList
    <2> QED BY <2>1, CycleConstants DEF InvestmentType
  <1>5. e.idChanged = c.id /\ e.timestamp = t /\ e.isWhitelist = w
    BY DEF IncreasedInvestment
  <1>6. /\ old = <<>> => e.unit = unit
        /\ old # <<>> /\ last.idChanged < c.id => e.unit = last.amount * TradingCycle + unit
        /\ old # <<>> /\ last.idChanged = c.id => e.unit = last.unit + unit
    <2>1. e.unit = IF old = <<>> THEN unit
                   ELSE IF last.idChanged < c.id THEN last.amount * Duration(c) + unit
                   ELSE IF last.idChanged = c.id THEN last.unit + unit ELSE 0
      BY DEF IncreasedInvestment
    <2> HIDE DEF e, unit
    <2> QED BY <1>2, <1>4, <2>1
  <1>7. e \in InvestmentType
    <2>1. e.amount \in Nat
      BY <1>4 DEF IncreasedInvestment
    <2>2. e.unit \in Int
      <3> HIDE DEF e, unit
      <3>1. old # <<>> => last.idChanged < c.id \/ last.idChanged = c.id
        BY <1>2, <1>4
      <3> QED BY <1>3, <1>4, <1>6, <3>1
    <2>3. e = [amount |-> e.amount, unit |-> e.unit, timestamp |-> t,
               idChanged |-> c.id, isWhitelist |-> w]
      BY DEF IncreasedInvestment
    <2> HIDE DEF e
    <2> QED BY <1>2, <2>1, <2>2, <2>3 DEF InvestmentType
  <1> HIDE DEF e, unit
  <1>8. Stores(old, e, new)
    BY <1>1, <1>2, <1>4, <1>5 DEF StoreIncrease, Stores
  <1>9. e.unit = IF old = <<>> THEN unit
                 ELSE IF last.idChanged < c.id THEN last.amount * TradingCycle + unit
                 ELSE last.unit + unit
    BY <1>2, <1>4, <1>6
  <1> QED BY <1>3, <1>5, <1>7, <1>8, <1>9 DEF e, unit

\* An increase adds its unit to what the account earns in the cycle.
LEMMA IncreaseEarns ==
    ASSUME NEW old \in Seq(InvestmentType), NEW book, book.investments = old,
           NEW x \in Nat, NEW t \in Nat, NEW c, InRow(c, TradingCycle), NEW w \in BOOLEAN, NEW l,
           old = <<>> \/ GetLast(old).idChanged <= c.id,
           NEW new, new = IncreaseInvestment(book, x, t, c, l, w).investments
    PROVE  /\ new \in Seq(InvestmentType) /\ new # <<>>
           /\ GetLast(new).idChanged = c.id /\ GetLast(new).timestamp = t
           /\ x * (c.endTime - t) \in Int
           /\ Earns(new, c.id) = Earns(old, c.id) + x * (c.endTime - t)
           /\ \A id \in Nat : id < c.id => Earns(new, id) = Earns(old, id)
  <1> DEFINE last == GetLast(old)
             unit == x * (c.endTime - t)
  <1>1. /\ c.id \in Nat
        /\ old # <<>> => /\ last.idChanged \in Nat /\ last.unit \in Int
                         /\ last.amount * TradingCycle \in Int
    <2>1. old # <<>> => last \in InvestmentType
      BY LastOfList
    <2>2. c.id \in Nat
      BY DEF InRow, Cycle
    <2> HIDE DEF last
    <2> QED BY <2>1, <2>2, CycleConstants DEF InvestmentType
  <1>2. PICK e : /\ e \in InvestmentType /\ Stores(old, e, new)
                 /\ e.idChanged = c.id /\ e.timestamp = t
                 /\ unit \in Int
                 /\ e.unit = IF old = <<>> THEN unit
                             ELSE IF last.idChanged < c.id THEN last.amount * TradingCycle + unit
                             ELSE last.unit + unit
    BY IncreaseStores
  <1> HIDE DEF unit
  <1>3. /\ new \in Seq(InvestmentType) /\ new # <<>>
        /\ GetLast(new) = e
        /\ Earns(new, c.id) = e.unit
        /\ \A id \in Nat : id < c.id => Earns(new, id) = Earns(old, id)
    <2>1. /\ new \in Seq(InvestmentType) /\ new # <<>>
          /\ GetLast(new) = e
          /\ Earns(new, e.idChanged) = e.unit
          /\ \A id \in Nat : id < e.idChanged => Earns(new, id) = Earns(old, id)
      BY <1>2, ChangedListEarns
    <2> QED BY <1>2, <2>1
  <1>4. Earns(new, c.id) = Earns(old, c.id) + unit
    <2>1. /\ old = <<>> => Earns(old, c.id) = 0
          /\ old # <<>> /\ last.idChanged < c.id =>
                 Earns(old, c.id) = last.amount * TradingCycle
          /\ old # <<>> /\ last.idChanged = c.id => Earns(old, c.id) = last.unit
      BY <1>1, EarnsNow
    <2>2. old # <<>> => last.idChanged < c.id \/ last.idChanged = c.id
      BY <1>1
    <2> HIDE DEF last
    <2>3. CASE old = <<>>
      BY <1>2, <1>3, <2>1, <2>3
    <2>4. CASE old # <<>> /\ last.idChanged < c.id
      BY <1>1, <1>2, <1>3, <2>1, <2>4
    <2>5. CASE old # <<>> /\ last.idChanged = c.id
      <3>1. ~(last.idChanged < c.id)
        BY <1>1, <2>5
      <3> QED BY <1>1, <1>2, <1>3, <2>1, <2>5, <3>1
    <2> QED BY <2>2, <2>3, <2>4, <2>5
  <1> QED BY <1>2, <1>3, <1>4 DEF unit

\* What a decrease stores.
LEMMA DecreaseStores ==
    ASSUME NEW old \in Seq(InvestmentType), old # <<>>,
           NEW book, book.investments = old,
           NEW x \in Nat, x <= GetLast(old).amount, NEW t \in Nat,
           NEW c, InRow(c, TradingCycle), NEW w \in BOOLEAN, NEW l,
           GetLast(old).idChanged <= c.id,
           NEW new, new = DecreaseInvestment(book, x, t, c, l, w).investments
    PROVE  LET e == DecreasedInvestment(old, x, t, c, w)
           IN /\ e \in InvestmentType /\ Stores(old, e, new)
              /\ e.idChanged = c.id /\ e.timestamp = GetLast(old).timestamp
              /\ e.isWhitelist = w
              /\ x * (c.endTime - t) \in Int
              /\ e.unit = IF GetLast(old).idChanged < c.id
                          THEN GetLast(old).amount * TradingCycle - x * (c.endTime - t)
                          ELSE GetLast(old).unit - x * (c.endTime - t)
  <1> DEFINE last == GetLast(old)
             e == DecreasedInvestment(old, x, t, c, w)
             unit == x * (c.endTime - t)
  <1>1. new = IF last.idChanged < c.id
              THEN Append(old, e) ELSE [old EXCEPT ![Len(old)] = e]
    BY DEF DecreaseInvestment
  <1>2. c \in Cycle /\ c.id \in Nat /\ c.endTime \in Nat /\ Duration(c) = TradingCycle
    <2>1. c \in Cycle /\ Duration(c) = TradingCycle
      BY RowLengths, CycleConstants DEF InRow
    <2> QED BY <2>1 DEF Cycle
  <1>3. unit \in Int
    BY <1>2
  <1>4. /\ last.amount \in Nat /\ last.unit \in Int /\ last.idChanged \in Nat
        /\ last.timestamp \in Nat
        /\ last.amount * TradingCycle \in Int
    <2>1. last \in InvestmentType
      BY LastOfList
    <2> QED BY <2>1, CycleConstants DEF InvestmentType
  <1>5. e.idChanged = c.id /\ e.timestamp = last.timestamp /\ e.isWhitelist = w
    BY DEF DecreasedInvestment
  <1>6. e.unit = IF last.idChanged < c.id
                 THEN last.amount * TradingCycle - unit ELSE last.unit - unit
    BY <1>2 DEF DecreasedInvestment
  <1>7. e \in InvestmentType
    <2>1. e.amount \in Nat
      BY <1>4 DEF DecreasedInvestment
    <2>2. e.unit \in Int
      <3> HIDE DEF e, unit
      <3> QED BY <1>3, <1>4, <1>6
    <2>3. e = [amount |-> e.amount, unit |-> e.unit, timestamp |-> last.timestamp,
               idChanged |-> c.id, isWhitelist |-> w]
      BY DEF DecreasedInvestment
    <2> HIDE DEF e
    <2> QED BY <1>2, <1>4, <2>1, <2>2, <2>3 DEF InvestmentType
  <1> HIDE DEF e, unit
  <1>8. Stores(old, e, new)
    BY <1>1, <1>2, <1>4, <1>5 DEF Stores
  <1> QED BY <1>3, <1>5, <1>6, <1>7, <1>8 DEF e, unit

\* A decrease takes its unit away.
LEMMA DecreaseEarns ==
    ASSUME NEW old \in Seq(InvestmentType), old # <<>>,
           NEW book, book.investments = old,
           NEW x \in Nat, x <= GetLast(old).amount, NEW t \in Nat,
           NEW c, InRow(c, TradingCycle), NEW w \in BOOLEAN, NEW l,
           GetLast(old).idChanged <= c.id,
           NEW new, new = DecreaseInvestment(book, x, t, c, l, w).investments
    PROVE  /\ new \in Seq(InvestmentType) /\ new # <<>>
           /\ GetLast(new).idChanged = c.id
           /\ GetLast(new).timestamp = GetLast(old).timestamp
           /\ -(x * (c.endTime - t)) \in Int
           /\ Earns(new, c.id) = Earns(old, c.id) + -(x * (c.endTime - t))
           /\ \A id \in Nat : id < c.id => Earns(new, id) = Earns(old, id)
  <1> DEFINE last == GetLast(old)
             unit == x * (c.endTime - t)
  <1>1. /\ c.id \in Nat /\ last.idChanged \in Nat /\ last.unit \in Int
        /\ last.amount * TradingCycle \in Int
    <2>1. last \in InvestmentType
      BY LastOfList
    <2> QED BY <2>1, CycleConstants DEF InvestmentType, InRow, Cycle
  <1>2. PICK e : /\ e \in InvestmentType /\ Stores(old, e, new)
                 /\ e.idChanged = c.id /\ e.timestamp = last.timestamp
                 /\ unit \in Int
                 /\ e.unit = IF last.idChanged < c.id
                             THEN last.amount * TradingCycle - unit ELSE last.unit - unit
    BY DecreaseStores
  <1> HIDE DEF unit
  <1>3. /\ new \in Seq(InvestmentType) /\ new # <<>>
        /\ GetLast(new) = e
        /\ Earns(new, c.id) = e.unit
        /\ \A id \in Nat : id < c.id => Earns(new, id) = Earns(old, id)
    <2>1. /\ new \in Seq(InvestmentType) /\ new # <<>>
          /\ GetLast(new) = e
          /\ Earns(new, e.idChanged) = e.unit
          /\ \A id \in Nat : id < e.idChanged => Earns(new, id) = Earns(old, id)
      BY <1>2, ChangedListEarns
    <2> QED BY <1>2, <2>1
  <1>4. Earns(new, c.id) = Earns(old, c.id) + -unit
    <2>1. /\ last.idChanged < c.id => Earns(old, c.id) = last.amount * TradingCycle
          /\ last.idChanged = c.id => Earns(old, c.id) = last.unit
      BY <1>1, EarnsNow
    <2>2. last.idChanged < c.id \/ last.idChanged = c.id
      BY <1>1
    <2> HIDE DEF last
    <2>3. CASE last.idChanged < c.id
      BY <1>1, <1>2, <1>3, <2>1, <2>3
    <2>4. CASE last.idChanged = c.id
      <3>1. ~(last.idChanged < c.id)
        BY <1>1, <2>4
      <3> QED BY <1>1, <1>2, <1>3, <2>1, <2>4, <3>1
    <2> QED BY <2>2, <2>3, <2>4
  <1>5. -unit \in Int
    BY <1>2
  <1> QED BY <1>2, <1>3, <1>4, <1>5 DEF unit

----------------------------------------------------------------------------
\* The calendar and the counted cycles.

\* The stored calendar is the row of cycles from the first one on.
StoredRow == \A i \in 1 .. Len(tradingCycles) : tradingCycles[i] = RowCycle(i - 1)

\* The units are counted up to some cycle that the calendar has reached and
\* that a deposit made now can reach.
CountInv ==
    \E m \in Nat : /\ Len(tradingCycles) - 1 <= m /\ m <= FundingId
                   /\ CountedTo(units, m) /\ Reached(m)

\* Every cycle is found in the row.
LEMMA CycleInStoredRow ==
    ASSUME AccountTypeOK, CalendarInv, StoredRow
    PROVE  /\ Len(tradingCycles) \in Nat \ {0}
           /\ GetLast(tradingCycles).id = Len(tradingCycles) - 1
           /\ \A id \in Nat : CycleWithId(id) = RowCycle(id)
  <1> DEFINE n == Len(tradingCycles)
             last == GetLast(tradingCycles)
  <1>1. n \in Nat \ {0}
    BY DEF AccountTypeOK
  <1>2. last = RowCycle(n - 1) /\ last.id = n - 1
    BY <1>1 DEF StoredRow, GetLast, RowCycle
  <1>3. ASSUME NEW id \in Nat PROVE CycleWithId(id) = RowCycle(id)
    <2>1. CASE id < n
      <3>1. id + 1 \in 1 .. n /\ (id + 1) - 1 = id
        BY <1>1, <2>1
      <3>2. tradingCycles[id + 1] = RowCycle(id)
        BY <3>1 DEF StoredRow
      <3> QED BY <2>1, <3>2 DEF CycleWithId
    <2>2. CASE ~(id < n)
      <3> DEFINE k == id - (n - 1)
      <3>1. k \in Nat \ {0} /\ id # n - 1 /\ (n - 1) + k = id
        BY <1>1, <2>2
      <3>2. CycleWithId(id) = NthCycle(last, TradingCycle, TradingCycle, k)
        BY <1>2, <2>2, <3>1 DEF CycleWithId, CycleOfId, CalendarInv
      <3>3. InRow(last, TradingCycle)
        BY StoredCycle
      <3> HIDE DEF k, last
      <3>4. /\ InRow(NthCycle(last, TradingCycle, TradingCycle, k), TradingCycle)
            /\ NthCycle(last, TradingCycle, TradingCycle, k).id = last.id + k
        BY <3>1, <3>3, NthCycleInRow, CycleConstants
      <3>5. NthCycle(last, TradingCycle, TradingCycle, k).id = id
        BY <1>2, <3>1, <3>4
      <3> QED BY <3>2, <3>4, <3>5, RowCycleFacts
    <2> QED BY <2>1, <2>2
  <1> QED BY <1>1, <1>2, <1>3

\* An update continues the row, with the ids that follow.
LEMMA RowGrows ==
    ASSUME AccountTypeOK, CalendarInv, StoredRow, NEW n \in 0 .. DueCycles,
           NEW cycles, cycles = tradingCycles \o NewCycles(n)
    PROVE  /\ \A i \in 1 .. Len(cycles) : cycles[i] = RowCycle(i - 1)
           /\ Len(cycles) = Len(tradingCycles) + n
           /\ Len(cycles) - 1 <= now \div TradingCycle
           /\ \A c \in Range(NewCycles(n)) : InRow(c, TradingCycle)
           /\ Ids(Range(NewCycles(n)))
                  = Len(tradingCycles) .. (Len(tradingCycles) + n) - 1
  <1> DEFINE l == Len(tradingCycles)
  <1>1. n \in Nat
    BY LastCurrentCycle
  <1>2. l \in Nat \ {0} /\ GetLast(tradingCycles).id = l - 1
        /\ tradingCycles \in Seq(Cycle)
    BY CycleInStoredRow DEF AccountTypeOK, Cycle
  <1>3. /\ NewCycles(n) \in Seq(Cycle)
        /\ Len(NewCycles(n)) = n
        /\ \A k \in 1 .. n : /\ InRow(NewCycles(n)[k], TradingCycle)
                             /\ NewCycles(n)[k].id = (l - 1) + k
    BY <1>1, <1>2, NewCyclesInRow
  <1> DEFINE new == NewCycles(n)
  <1> HIDE DEF new
  <1>4. \A k \in 1 .. n : new[k] = RowCycle((l - 1) + k)
    <2> TAKE k \in 1 .. n
    <2>1. InRow(new[k], TradingCycle) /\ new[k].id = (l - 1) + k /\ (l - 1) + k \in Nat
      BY <1>1, <1>2, <1>3 DEF new
    <2> QED BY <2>1, RowCycleFacts
  <1>5. /\ Len(cycles) = l + n
        /\ \A i \in 1 .. l : cycles[i] = tradingCycles[i]
        /\ \A k \in 1 .. n : cycles[l + k] = new[k]
    <2>1. new \in Seq(Cycle) /\ Len(new) = n /\ cycles = tradingCycles \o new
      BY <1>3 DEF new
    <2>2. /\ Len(cycles) = l + n
          /\ \A i \in 1 .. l + n : cycles[i] = IF i <= l THEN tradingCycles[i] ELSE new[i - l]
      <3>1. /\ Len(tradingCycles \o new) = Len(tradingCycles) + Len(new)
            /\ \A i \in 1 .. Len(tradingCycles) + Len(new) :
                   (tradingCycles \o new)[i] = IF i <= Len(tradingCycles)
                                               THEN tradingCycles[i]
                                               ELSE new[i - Len(tradingCycles)]
        BY <1>2, <2>1, ConcatProperties, Zenon
      <3> QED BY <2>1, <3>1
    <2>3. \A k \in 1 .. n : l + k \in 1 .. l + n /\ ~(l + k <= l) /\ (l + k) - l = k
      BY <1>1, <1>2
    <2>4. \A i \in 1 .. l : i \in 1 .. l + n /\ i <= l
      BY <1>1, <1>2
    <2> QED BY <2>2, <2>3, <2>4
  <1>6. \A i \in 1 .. Len(cycles) : cycles[i] = RowCycle(i - 1)
    <2> SUFFICES ASSUME NEW i \in 1 .. l + n PROVE cycles[i] = RowCycle(i - 1)
      BY <1>5
    <2>1. CASE i <= l
      <3>1. i \in 1 .. l
        BY <1>1, <1>2, <2>1
      <3> QED BY <1>5, <3>1 DEF StoredRow
    <2>2. CASE ~(i <= l)
      <3> DEFINE k == i - l
      <3>1. k \in 1 .. n /\ l + k = i /\ (l - 1) + k = i - 1
        BY <1>1, <1>2, <2>2
      <3> HIDE DEF k
      <3> QED BY <1>4, <1>5, <3>1
    <2> QED BY <2>1, <2>2
  <1>7. DOMAIN new = 1 .. n
    BY <1>3 DEF new
  <1>8. \A c \in Range(new) : InRow(c, TradingCycle)
    BY <1>3, <1>7 DEF Range, new
  <1>9. Ids(Range(new)) = l .. (l + n) - 1
    <2>1. ASSUME NEW i \in Ids(Range(new)) PROVE i \in l .. (l + n) - 1
      <3>1. PICK k \in 1 .. n : i = new[k].id
        BY <1>7 DEF Ids, Range
      <3>2. i = (l - 1) + k
        BY <1>3, <3>1 DEF new
      <3> QED BY <1>1, <1>2, <3>2
    <2>2. ASSUME NEW i \in l .. (l + n) - 1 PROVE i \in Ids(Range(new))
      <3> DEFINE k == i - (l - 1)
      <3>1. k \in 1 .. n /\ (l - 1) + k = i
        BY <1>1, <1>2
      <3> HIDE DEF k
      <3>2. new[k].id = i /\ new[k] \in Range(new)
        BY <1>3, <1>7, <3>1 DEF Range, new
      <3> QED BY <3>2 DEF Ids
    <2> QED BY <2>1, <2>2
  <1>10. (l + n) - 1 <= now \div TradingCycle
    <2> DEFINE c == GetLast(cycles)
    <2>1. /\ cycles \in Seq(Cycle) /\ cycles # <<>>
          /\ InRow(c, TradingCycle) /\ c.startTime <= now
      BY PartialUpdate DEF new
    <2>2. c = RowCycle((l + n) - 1)
      <3>1. (l + n) \in 1 .. l + n
        BY <1>1, <1>2
      <3>2. cycles[l + n] = RowCycle((l + n) - 1)
        BY <1>5, <1>6, <3>1
      <3> QED BY <1>5, <3>2 DEF GetLast
    <2> HIDE DEF c
    <2>3. c.startTime = ((l + n) - 1) * TradingCycle /\ now \in Nat
          /\ (l + n) - 1 \in Nat /\ c.startTime \in Nat
      BY <1>1, <1>2, <2>1, <2>2 DEF RowCycle, AccountTypeOK, InRow, Cycle
    <2>4. c.startTime \div TradingCycle = (l + n) - 1
      <3> DEFINE q == (l + n) - 1
      <3>1. q * TradingCycle <= c.startTime /\ c.startTime < q * TradingCycle + TradingCycle
        BY <2>3, CycleConstants
      <3> HIDE DEF q
      <3> QED BY <2>3, <3>1, QuotientIsUnique, CycleConstants DEF q
    <2> QED BY <2>1, <2>3, <2>4, QuotientIsMonotone, CycleConstants
  <1> QED BY <1>5, <1>6, <1>8, <1>9, <1>10 DEF new

\* The units when a handler has updated the calendar by n cycles.
LEMMA OpenedByUpdate ==
    ASSUME AccountTypeOK, CalendarInv, LiquidityBacking, StoredRow, CountInv,
           NEW n \in 0 .. DueCycles
    PROVE  \E p \in Nat : /\ (Len(tradingCycles) + n) - 1 <= p /\ p <= FundingId
                          /\ HasUnits(UnitsAfter(n)) /\ CountedTo(UnitsAfter(n), p)
                          /\ Reached(p)
  <1> DEFINE l == Len(tradingCycles)
             new == Range(NewCycles(n))
             e == (l + n) - 1
  <1>1. PICK m \in Nat : /\ l - 1 <= m /\ m <= FundingId
                         /\ CountedTo(units, m) /\ Reached(m)
    BY DEF CountInv
  <1>2. /\ n \in Nat /\ l \in Nat \ {0}
        /\ FundingId \in Nat /\ now \div TradingCycle <= FundingId
        /\ now \div TradingCycle \in Int
    <2>1. now \div TradingCycle \in Nat
      BY Quotient, CycleConstants DEF AccountTypeOK
    <2> QED BY <2>1, LastCurrentCycle, CycleInStoredRow, FundingTimeFacts
  <1>3. /\ (l + n) - 1 <= now \div TradingCycle
        /\ \A c \in new : InRow(c, TradingCycle)
        /\ Ids(new) = l .. (l + n) - 1
    <2>1. PICK cycles : cycles = tradingCycles \o NewCycles(n)
      OBVIOUS
    <2> QED BY <2>1, RowGrows
  <1> DEFINE p == IF e <= m THEN m ELSE e
  <1>4. p \in Nat /\ e <= p /\ m <= p /\ p <= FundingId
    BY <1>1, <1>2, <1>3
  <1>5. 0 .. m \union Ids(new) = 0 .. p
    BY <1>1, <1>2, <1>3
  <1> HIDE DEF p, new, l
  <1>6. HasUnits(UnitsAfter(n)) /\ CountedTo(UnitsAfter(n), p)
    <2>1. UnitsAfter(n) = UpdateTotalUnitsForFirstTime(units, new, liquidity)
      BY DEF UnitsAfter, new
    <2> QED BY <1>1, <1>3, <1>4, <1>5, <2>1, OpeningKeepsCount
  <1>7. Reached(p)
    <2>1. \A a \in Accounts : investmentsOf[a] # <<>> => Investment(a).idChanged \in Nat
      BY AccountTypes
    <2> QED BY <1>1, <1>4, <2>1 DEF Reached
  <1> QED BY <1>4, <1>6, <1>7 DEF l

\* The units of a handler that changes an investment from the next funding
\* time on: the calendar is up to date and that cycle is opened.
OpenedUnitsNow ==
    UpdateTotalUnitsForFirstTime(UnitsAfter(DueCycles), {FutureCycle}, liquidity)

\* All cycles up to that one are opened then.
LEMMA OpenedNow ==
    ASSUME AccountTypeOK, CalendarInv, LiquidityBacking, StoredRow, CountInv
    PROVE  /\ HasUnits(OpenedUnitsNow)
           /\ CountedTo(OpenedUnitsNow, FundingId)
           /\ Reached(FundingId)
           /\ \A i \in Nat : ValueAt(UnitsAfter(DueCycles).total, i) \in Int
           /\ (Len(tradingCycles) + DueCycles) - 1 <= FundingId
  <1> DEFINE l == Len(tradingCycles)
  <1>1. DueCycles \in Nat /\ l \in Nat \ {0} /\ now \in Nat
    BY LastCurrentCycle, CycleInStoredRow DEF AccountTypeOK
  <1>2. DueCycles \in 0 .. DueCycles
    BY <1>1
  <1>3. PICK p \in Nat : /\ (l + DueCycles) - 1 <= p /\ p <= FundingId
                         /\ HasUnits(UnitsAfter(DueCycles))
                         /\ CountedTo(UnitsAfter(DueCycles), p)
                         /\ Reached(p)
    BY <1>2, OpenedByUpdate
  <1>4. /\ FundingId \in Nat /\ InRow(FutureCycle, TradingCycle)
        /\ FutureCycle.id = FundingId /\ FundingTime \in Nat
        /\ FundingTime <= now + TradingCycle
        /\ FundingTime \div TradingCycle = FundingId
    <2>1. /\ FundingTime \in Nat /\ FundingTime <= now + FundingCycle
          /\ FundingId \in Nat /\ InRow(FutureCycle, TradingCycle)
          /\ FutureCycle.id = FundingId
          /\ FundingTime \div TradingCycle = FundingId
      BY FundingTimeFacts
    <2> QED BY <1>1, <2>1, CycleConstants
  <1>5. now \div TradingCycle = (l + DueCycles) - 1
    <2>1. GetLast(CurrentCycles).id = now \div TradingCycle
      BY LastCurrentCycle
    <2>2. PICK cycles : cycles = CurrentCycles
      OBVIOUS
    <2>3. /\ \A i \in 1 .. Len(cycles) : cycles[i] = RowCycle(i - 1)
          /\ Len(cycles) = l + DueCycles
      BY <1>2, <2>2, RowGrows DEF CurrentCycles
    <2>4. l + DueCycles \in 1 .. Len(cycles)
      BY <1>1, <2>3
    <2>5. GetLast(cycles) = RowCycle((l + DueCycles) - 1)
      BY <2>3, <2>4 DEF GetLast
    <2> QED BY <2>1, <2>2, <2>5 DEF RowCycle
  <1>6. FundingId <= p + 1
    <2>1. FundingId <= now \div TradingCycle + 1
      BY <1>1, <1>4, QuotientOfNext, CycleConstants
    <2> HIDE DEF l
    <2> QED BY <1>1, <1>3, <1>4, <1>5, <2>1 DEF l
  <1>7. 0 .. p \union Ids({FutureCycle}) = 0 .. FundingId
    <2>1. Ids({FutureCycle}) = {FundingId}
      BY <1>4 DEF Ids
    <2>2. PICK k \in Nat : k = FundingId
      BY <1>4
    <2>3. p <= k /\ k <= p + 1
      BY <1>3, <1>6, <2>2
    <2>4. (0 .. p) \union {k} = 0 .. k
      BY <2>3
    <2> QED BY <2>1, <2>2, <2>4
  <1>8. \A c \in {FutureCycle} : InRow(c, TradingCycle)
    BY <1>4
  <1>9. PICK u, v, cycles : u = UnitsAfter(DueCycles) /\ v = OpenedUnitsNow
                            /\ cycles = {FutureCycle}
    OBVIOUS
  <1>10. PICK k \in Nat : k = FundingId
    BY <1>4
  <1>11. HasUnits(v) /\ CountedTo(v, k)
    <2>1. v = UpdateTotalUnitsForFirstTime(u, cycles, liquidity)
      BY <1>9 DEF OpenedUnitsNow
    <2>2. CountedTo(u, p) /\ (\A c \in cycles : InRow(c, TradingCycle))
          /\ 0 .. p \union Ids(cycles) = 0 .. k
      BY <1>3, <1>7, <1>8, <1>9, <1>10
    <2> QED BY <1>3, <2>1, <2>2, OpeningKeepsCount
  <1>12. Reached(FundingId)
    <2>1. \A a \in Accounts : investmentsOf[a] # <<>> => Investment(a).idChanged \in Nat
      BY AccountTypes
    <2> QED BY <1>3, <1>4, <2>1 DEF Reached
  <1>13. \A i \in Nat : ValueAt(UnitsAfter(DueCycles).total, i) \in Int
    BY <1>3, CountedTypes
  <1> QED BY <1>1, <1>3, <1>4, <1>9, <1>10, <1>11, <1>12, <1>13

\* A change of one account's investment in that cycle keeps the counts.
LEMMA ChangeStep ==
    ASSUME AccountTypeOK, CalendarInv, LiquidityBacking, StoredRow, CountInv,
           NEW a \in Accounts, NEW invs \in Seq(InvestmentType), invs # <<>>,
           NEW x \in Int,
           investmentsOf' = [investmentsOf EXCEPT ![a] = invs],
           GetLast(invs).idChanged = FundingId,
           Earns(invs, FundingId) = Earns(investmentsOf[a], FundingId) + x,
           \A id \in Nat : id < FundingId => Earns(invs, id) = Earns(investmentsOf[a], id),
           units'.updated = OpenedUnitsNow.updated,
           \A i \in Nat : ValueAt(units'.total, i) =
               IF i = FundingId THEN ValueAt(OpenedUnitsNow.total, i) + x
               ELSE ValueAt(OpenedUnitsNow.total, i),
           tradingCycles' = CurrentCycles, now' = now
    PROVE  StoredRow' /\ CountInv'
  <1>1. FundingId \in Nat /\ FundingId' = FundingId
    BY FundingTimeFacts DEF FundingId
  <1>2. PICK k, u : k \in Nat /\ k = FundingId /\ u = OpenedUnitsNow
    BY <1>1
  <1>3. CountedTo(u, k) /\ Reached(k) /\ (Len(tradingCycles) + DueCycles) - 1 <= k
    BY <1>2, OpenedNow
  <1>4. CountedTo(units, k)'
    <2>1. k \in 0 .. k
      BY <1>2
    <2>2. PICK g, v : g = investmentsOf' /\ v = units'
      OBVIOUS
    <2>3. /\ g = [investmentsOf EXCEPT ![a] = invs]
          /\ Earns(invs, k) = Earns(investmentsOf[a], k) + x
          /\ \A id \in 0 .. k : id # k => Earns(invs, id) = Earns(investmentsOf[a], id)
          /\ v.updated = u.updated
          /\ \A i \in Nat : ValueAt(v.total, i) = IF i = k THEN ValueAt(u.total, i) + x
                                                   ELSE ValueAt(u.total, i)
      BY <1>2, <2>2
    <2>4. CountedChange(a, invs, g, u, v, k, x, k)
      BY <2>3 DEF CountedChange
    <2>5. CountedIn(v, g, k)
      BY <1>2, <1>3, <2>1, <2>4, ChangeKeepsCount
    <2>6. /\ units'.updated = 0 .. k
          /\ \A id \in Nat :
                 ValueAt(units'.total, id) =
                     IF id <= k
                     THEN SumFunction([b \in Accounts |-> Earns(investmentsOf'[b], id)])
                     ELSE 0
      BY <2>2, <2>5 DEF CountedIn
    <2> QED BY <2>6 DEF CountedTo, EarnedIn
  <1>5. Reached(k)'
    <2> SUFFICES ASSUME NEW b \in Accounts, investmentsOf'[b] # <<>>
                 PROVE  GetLast(investmentsOf'[b]).idChanged <= k
      BY DEF Reached, Investment
    <2>1. CASE b = a
      BY <1>2, <2>1 DEF AccountTypeOK
    <2>2. CASE b # a
      BY <1>3, <2>2 DEF AccountTypeOK, Reached, Investment
    <2> QED BY <2>1, <2>2
  <1>6. StoredRow' /\ Len(tradingCycles') = Len(tradingCycles) + DueCycles
    <2>1. DueCycles \in 0 .. DueCycles
      BY LastCurrentCycle
    <2>2. PICK cycles : cycles = CurrentCycles
      OBVIOUS
    <2>3. /\ \A i \in 1 .. Len(cycles) : cycles[i] = RowCycle(i - 1)
          /\ Len(cycles) = Len(tradingCycles) + DueCycles
      BY <2>1, <2>2, RowGrows DEF CurrentCycles
    <2> QED BY <2>2, <2>3 DEF StoredRow, RowCycle
  <1>7. Len(tradingCycles') - 1 <= k /\ k <= FundingId'
    BY <1>1, <1>2, <1>3, <1>6
  <1> QED BY <1>2, <1>4, <1>5, <1>6, <1>7 DEF CountInv

----------------------------------------------------------------------------
\* Accounts that have claimed before.

\* The funding time of a calendar that never changes.
NextTime == (now \div FundingCycle + 1) * FundingCycle

\* What is true of an account that has claimed before.  A deposit of it is
\* pending only until the next funding time, and nothing has changed its
\* last investment after that.
LateInv(a) ==
    /\ isNotFirstWithdrawal[a]
    /\ accountTradingInfo[a].depositedTimestampOf <= NextTime
    /\ AvailableDepositedAmount(a) > 0 =>
           /\ investmentsOf[a] # <<>>
           /\ Investment(a).timestamp = NextTime
    /\ investmentsOf[a] # <<>> /\ Investment(a).timestamp > now =>
           /\ Investment(a).timestamp = NextTime
           /\ Investment(a).idChanged = FundingId

\* The invariant of such a pool's units.
UnitsInv ==
    /\ \A a \in Accounts : LateInv(a)
    /\ StoredRow
    /\ HasUnits(units)
    /\ CountInv

\* The next funding time in numbers.
LEMMA NextTimeFacts ==
    ASSUME AccountTypeOK, CalendarInv
    PROVE  /\ FundingTime = NextTime /\ NextTime \in Nat /\ now < NextTime /\ now \in Nat
           /\ NextTime \div TradingCycle = FundingId /\ FundingId \in Nat
           /\ InRow(FutureCycle, TradingCycle) /\ FutureCycle.id = FundingId
           /\ FutureCycle = CycleAt(CurrentCycles, FundingTime)
  <1>1. now \in Nat
    BY DEF AccountTypeOK
  <1>2. NextFundingTime(now, 0, FundingCycle) = NextTime
    BY <1>1, FundingTimeBounds, CycleConstants DEF NextTime
  <1> QED BY <1>1, <1>2, FundingTimeFacts DEF FutureCycle

\* A transaction that leaves an account alone keeps what is true of it.
LEMMA SameLate ==
    ASSUME NEW b \in Accounts, LateInv(b), now' = now,
           investmentsOf'[b] = investmentsOf[b],
           accountTradingInfo'[b] = accountTradingInfo[b],
           isNotFirstWithdrawal'[b] = isNotFirstWithdrawal[b]
    PROVE  LateInv(b)'
  BY DEF LateInv, NextTime, FundingId, AvailableDepositedAmount, Investment

\* No change of an account is after the cycle that a deposit reaches.
LEMMA ReachedNow ==
    ASSUME AccountTypeOK, CalendarInv, LiquidityBacking, UnitsInv,
           NEW a \in Accounts, investmentsOf[a] # <<>>
    PROVE  GetLast(investmentsOf[a]).idChanged <= FundingId
  <1>1. Reached(FundingId)
    BY OpenedNow DEF UnitsInv
  <1> QED BY <1>1 DEF Reached, Investment

\* An increase adds its unit to the cycle.
LEMMA IncreaseAdds ==
    ASSUME NEW book, NEW c, InRow(c, TradingCycle), NEW l, NEW x, NEW t, NEW w,
           \A i \in Nat : ValueAt(book.units.total, i) \in Int
    PROVE  Gains(IncreaseInvestment(book, x, t, c, l, w).units, Touched(book, c, l),
                 c.id, x * (c.endTime - t))
  <1>1. PICK v, unit : /\ v = IncreaseInvestment(book, x, t, c, l, w).units
                       /\ unit = x * (c.endTime - t)
    OBVIOUS
  <1>2. Gains(v, Touched(book, c, l), c.id, unit)
    BY <1>1, ChangeAdds
  <1> QED BY <1>1, <1>2

\* A decrease takes it off.
LEMMA DecreaseAdds ==
    ASSUME NEW book, NEW c, InRow(c, TradingCycle), NEW l, NEW x, NEW t, NEW w,
           \A i \in Nat : ValueAt(book.units.total, i) \in Int
    PROVE  Gains(DecreaseInvestment(book, x, t, c, l, w).units, Touched(book, c, l),
                 c.id, -(x * (c.endTime - t)))
  <1>1. PICK v, unit : /\ v = DecreaseInvestment(book, x, t, c, l, w).units
                       /\ unit = -(x * (c.endTime - t))
    OBVIOUS
  <1>2. Gains(v, Touched(book, c, l), c.id, unit)
    BY <1>1, ChangeAdds
  <1> QED BY <1>1, <1>2

\* A deposit of such an account counts from the next funding time on, and
\* adds what it earns there to the units of that cycle.
LEMMA DepositKeepsUnits ==
    ASSUME IInv, LiquidityBacking, UnitsInv, NEW a \in Accounts,
           NEW amount \in DepositAmounts, Deposit(a, amount)
    PROVE  UnitsInv'
  <1> DEFINE x == amount - FeeOf(amount, feeConfiguration.depositFee)
             w == a \in whitelist
             old == investmentsOf[a]
             book == [investments |-> old, units |-> UnitsAfter(DueCycles)]
             fresh == IncreaseInvestment(book, x, FundingTime, FutureCycle, liquidity, w)
             done == HandleIncrease(a, x, w)
             invs == fresh.investments
             info == accountTradingInfo[a]
             unit == x * (FutureCycle.endTime - FundingTime)
  <1>1. AccountTypeOK /\ CalendarInv /\ now' = now
    BY DEF IInv, Deposit
  <1>2. x \in Nat /\ w \in BOOLEAN
    <2>1. amount \in Nat /\ feeConfiguration.depositFee \in 0 .. FeeBase
      BY <1>1, AmountAssumption DEF CalendarInv
    <2>2. FeeOf(amount, feeConfiguration.depositFee) \in 0 .. amount
      BY <2>1, FeeIsPart
    <2> QED BY <2>1, <2>2
  <1>3. /\ FundingTime = NextTime /\ NextTime \in Nat /\ now < NextTime /\ now \in Nat
        /\ InRow(FutureCycle, TradingCycle) /\ FutureCycle.id = FundingId
        /\ FundingId \in Nat
        /\ FutureCycle = CycleAt(CurrentCycles, FundingTime)
    BY <1>1, NextTimeFacts
  <1>4. /\ old \in Seq(InvestmentType) /\ info.depositedTimestampOf \in Nat
        /\ old = <<>> \/ GetLast(old).idChanged <= FundingId
        /\ old # <<>> => GetLast(old).idChanged \in Nat /\ Investment(a) = GetLast(old)
    BY <1>1, AccountTypes, ReachedNow DEF Investment
  <1>5. done = [book |-> fresh, register |-> register[a], deposited |-> x]
    BY <1>3, <1>4 DEF HandleIncrease
  <1>6. /\ investmentsOf' = [investmentsOf EXCEPT ![a] = invs]
        /\ units' = fresh.units
        /\ accountTradingInfo' = [accountTradingInfo EXCEPT
               ![a] = UpdatedTradingInfo(a, x, GetLast(invs).timestamp)]
        /\ tradingCycles' = CurrentCycles
        /\ isNotFirstWithdrawal' = isNotFirstWithdrawal
    <2>1. /\ investmentsOf' = [investmentsOf EXCEPT ![a] = done.book.investments]
          /\ units' = done.book.units
          /\ accountTradingInfo' = [accountTradingInfo EXCEPT
               ![a] = UpdatedTradingInfo(a, done.deposited,
                                         GetLast(done.book.investments).timestamp)]
          /\ tradingCycles' = CurrentCycles
          /\ isNotFirstWithdrawal' = isNotFirstWithdrawal
      BY DEF Deposit, UpdateCalendar, CurrentCycles
    <2> HIDE DEF done, fresh
    <2> QED BY <1>5, <2>1
  <1>7. /\ invs \in Seq(InvestmentType) /\ invs # <<>>
        /\ GetLast(invs).idChanged = FundingId /\ GetLast(invs).timestamp = NextTime
        /\ unit \in Int
        /\ Earns(invs, FundingId) = Earns(old, FundingId) + unit
        /\ \A id \in Nat : id < FundingId => Earns(invs, id) = Earns(old, id)
    <2>1. book.investments = old
      OBVIOUS
    <2> PICK new : new = invs
      OBVIOUS
    <2>2. PICK t \in Nat : t = FundingTime
      BY <1>3
    <2>3. PICK c : c = FutureCycle
      OBVIOUS
    <2>4. new = IncreaseInvestment(book, x, t, c, liquidity, w).investments
      BY <2>2, <2>3
    <2>5. InRow(c, TradingCycle) /\ c.id = FundingId
          /\ (old = <<>> \/ GetLast(old).idChanged <= c.id)
      BY <1>3, <1>4, <2>3
    <2> HIDE DEF x, w, old, book, invs
    <2>6. /\ new \in Seq(InvestmentType) /\ new # <<>>
          /\ GetLast(new).idChanged = c.id /\ GetLast(new).timestamp = t
          /\ x * (c.endTime - t) \in Int
          /\ Earns(new, c.id) = Earns(old, c.id) + x * (c.endTime - t)
          /\ \A id \in Nat : id < c.id => Earns(new, id) = Earns(old, id)
      BY <1>2, <1>4, <2>1, <2>4, <2>5, IncreaseEarns
    <2> QED BY <1>3, <2>2, <2>3, <2>5, <2>6 DEF invs
  <1>8. \A i \in Nat : ValueAt(UnitsAfter(DueCycles).total, i) \in Int
    BY <1>1, OpenedNow DEF UnitsInv
  <1>9. /\ HasUnits(units')
        /\ units'.updated = OpenedUnitsNow.updated
        /\ \A i : ValueAt(units'.total, i) =
               IF i = FundingId THEN ValueAt(OpenedUnitsNow.total, i) + unit
               ELSE ValueAt(OpenedUnitsNow.total, i)
    <2>1. PICK v : v = units'
      OBVIOUS
    <2>2. book.units = UnitsAfter(DueCycles)
      OBVIOUS
    <2>3. v = IncreaseInvestment(book, x, FundingTime, FutureCycle, liquidity, w).units
      BY <1>6, <2>1
    <2>4. Touched(book, FutureCycle, liquidity) = OpenedUnitsNow
      BY <2>2 DEF Touched, OpenedUnitsNow
    <2>5. PICK y : y = unit
      OBVIOUS
    <2>6. PICK c, t : c = FutureCycle /\ t = FundingTime
      OBVIOUS
    <2>7. y = x * (c.endTime - t)
          /\ v = IncreaseInvestment(book, x, t, c, liquidity, w).units
      BY <2>3, <2>5, <2>6
    <2> HIDE DEF book, x, w, fresh, unit
    <2>8. PICK b : b = book
      OBVIOUS
    <2>9. InRow(c, TradingCycle) /\ \A i \in Nat : ValueAt(b.units.total, i) \in Int
      BY <1>3, <1>8, <2>2, <2>6, <2>8
    <2>10. v = IncreaseInvestment(b, x, t, c, liquidity, w).units
      BY <2>7, <2>8
    <2>11. Gains(v, Touched(b, c, liquidity), c.id, y)
      BY <2>7, <2>9, <2>10, IncreaseAdds
    <2> QED BY <1>3, <2>1, <2>4, <2>5, <2>6, <2>8, <2>11 DEF Gains
  <1>10. StoredRow' /\ CountInv'
    <2>1. \A i \in Nat : ValueAt(units'.total, i) =
              IF i = FundingId THEN ValueAt(OpenedUnitsNow.total, i) + unit
              ELSE ValueAt(OpenedUnitsNow.total, i)
      BY <1>9
    <2> HIDE DEF invs, unit
    <2> QED BY <1>1, <1>6, <1>7, <1>9, <2>1, ChangeStep DEF UnitsInv
  <1>11. LateInv(a)'
    <2>1. investmentsOf'[a] = invs /\ Investment(a)' = GetLast(invs)
      BY <1>1, <1>6 DEF AccountTypeOK, Investment
    <2>2. accountTradingInfo'[a] = UpdatedTradingInfo(a, x, NextTime)
      BY <1>1, <1>6, <1>7 DEF AccountTypeOK
    <2>3. accountTradingInfo'[a].depositedTimestampOf <= NextTime
      <3>1. CASE now >= info.depositedTimestampOf
        BY <1>3, <2>2, <3>1 DEF UpdatedTradingInfo
      <3>2. CASE ~(now >= info.depositedTimestampOf)
        <4>1. accountTradingInfo'[a].depositedTimestampOf = info.depositedTimestampOf
          BY <1>1, <2>2, <3>2 DEF UpdatedTradingInfo, AccountTypeOK
        <4> QED BY <4>1 DEF UnitsInv, LateInv
      <3> QED BY <3>1, <3>2
    <2>4. NextTime' = NextTime /\ FundingId' = FundingId
      BY <1>1 DEF NextTime, FundingId
    <2> HIDE DEF invs, info
    <2> QED BY <1>6, <1>7, <2>1, <2>3, <2>4 DEF UnitsInv, LateInv
  <1>12. ASSUME NEW b \in Accounts, b # a PROVE LateInv(b)'
    <2>1. LateInv(b)
      BY DEF UnitsInv
    <2>2. /\ investmentsOf'[b] = investmentsOf[b]
          /\ accountTradingInfo'[b] = accountTradingInfo[b]
          /\ isNotFirstWithdrawal'[b] = isNotFirstWithdrawal[b]
      BY <1>1, <1>6, <1>12 DEF AccountTypeOK
    <2> QED BY <1>1, <2>1, <2>2, SameLate
  <1> QED BY <1>9, <1>10, <1>11, <1>12 DEF UnitsInv

\* A request of such an account takes effect when a deposit would.
LEMMA RequestKeepsUnits ==
    ASSUME Aligned, IInv, LiquidityBacking, UnitsInv, NEW a \in Accounts,
           NEW amount \in WithdrawAmounts, RequestWithdrawal(a, amount)
    PROVE  UnitsInv'
  <1> DEFINE w == a \in whitelist
             old == investmentsOf[a]
             book == [investments |-> old, units |-> UnitsAfter(DueCycles)]
             done == DecreaseInvestment(book, amount, FundingTime, FutureCycle, liquidity, w)
             invs == done.investments
             unit == -(amount * (FutureCycle.endTime - FundingTime))
  <1>1. AccountTypeOK /\ CalendarInv /\ now' = now /\ amount \in Nat /\ w \in BOOLEAN
    BY AmountAssumption DEF IInv, RequestWithdrawal
  <1>2. /\ FundingTime = NextTime /\ NextTime \in Nat /\ now < NextTime /\ now \in Nat
        /\ InRow(FutureCycle, TradingCycle) /\ FutureCycle.id = FundingId
        /\ FundingId \in Nat
        /\ FutureCycle = CycleAt(CurrentCycles, FundingTime)
    BY <1>1, NextTimeFacts
  <1>3. DefundingTime(a) = FundingTime
    <2>1. isNotFirstWithdrawal[a]
      BY DEF UnitsInv, LateInv
    <2> QED BY <1>1, <2>1, RequestTimes
  <1>4. /\ old # <<>> /\ amount <= GetLast(old).amount
        /\ AvailableDepositedAmount(a) = 0
        /\ investmentsOf' = [investmentsOf EXCEPT ![a] = invs]
        /\ units' = done.units
        /\ tradingCycles' = CurrentCycles
        /\ accountTradingInfo' = accountTradingInfo
        /\ isNotFirstWithdrawal' = isNotFirstWithdrawal
    BY <1>2, <1>3 DEF RequestWithdrawal, CanDecreaseInvestment, UpdateCalendar, CurrentCycles
  <1>5. /\ old \in Seq(InvestmentType) /\ Investment(a) = GetLast(old)
        /\ GetLast(old).idChanged <= FundingId /\ GetLast(old).idChanged \in Nat
    BY <1>1, <1>4, AccountTypes, ReachedNow DEF Investment
  <1>6. /\ invs \in Seq(InvestmentType) /\ invs # <<>>
        /\ GetLast(invs).idChanged = FundingId
        /\ GetLast(invs).timestamp = Investment(a).timestamp
        /\ unit \in Int
        /\ Earns(invs, FundingId) = Earns(old, FundingId) + unit
        /\ \A id \in Nat : id < FundingId => Earns(invs, id) = Earns(old, id)
    <2> PICK new : new = invs
      OBVIOUS
    <2>1. PICK t \in Nat : t = FundingTime
      BY <1>2
    <2>2. PICK c : c = FutureCycle
      OBVIOUS
    <2>3. PICK b : b = book
      OBVIOUS
    <2>4. /\ new = DecreaseInvestment(b, amount, t, c, liquidity, w).investments
          /\ b.investments = old
      BY <2>1, <2>2, <2>3
    <2>5. InRow(c, TradingCycle) /\ c.id = FundingId /\ GetLast(old).idChanged <= c.id
      BY <1>2, <1>5, <2>2
    <2> HIDE DEF w, old, book, invs
    <2>6. /\ new \in Seq(InvestmentType) /\ new # <<>>
          /\ GetLast(new).idChanged = c.id
          /\ GetLast(new).timestamp = GetLast(old).timestamp
          /\ -(amount * (c.endTime - t)) \in Int
          /\ Earns(new, c.id) = Earns(old, c.id) + -(amount * (c.endTime - t))
          /\ \A id \in Nat : id < c.id => Earns(new, id) = Earns(old, id)
      BY <1>1, <1>4, <1>5, <2>4, <2>5, DecreaseEarns
    <2> QED BY <1>5, <2>1, <2>2, <2>5, <2>6 DEF invs
  <1>7. Gains(units', OpenedUnitsNow, FundingId, unit)
    <2>1. PICK c, t, b, v : c = FutureCycle /\ t = FundingTime /\ b = book /\ v = units'
      OBVIOUS
    <2>2. \A i \in Nat : ValueAt(b.units.total, i) \in Int
      BY <1>1, <2>1, OpenedNow DEF UnitsInv
    <2>3. /\ v = DecreaseInvestment(b, amount, t, c, liquidity, w).units
          /\ Touched(b, c, liquidity) = OpenedUnitsNow
      BY <1>4, <2>1 DEF Touched, OpenedUnitsNow
    <2>4. InRow(c, TradingCycle) /\ c.id = FundingId
      BY <1>2, <2>1
    <2> HIDE DEF book, w, done
    <2>5. Gains(v, Touched(b, c, liquidity), c.id, -(amount * (c.endTime - t)))
      BY <2>2, <2>3, <2>4, DecreaseAdds
    <2> QED BY <2>1, <2>3, <2>4, <2>5
  <1>8. StoredRow' /\ CountInv'
    <2>1. /\ units'.updated = OpenedUnitsNow.updated
          /\ \A i \in Nat : ValueAt(units'.total, i) =
              IF i = FundingId THEN ValueAt(OpenedUnitsNow.total, i) + unit
              ELSE ValueAt(OpenedUnitsNow.total, i)
      BY <1>7 DEF Gains
    <2> HIDE DEF invs, unit
    <2> QED BY <1>1, <1>4, <1>6, <2>1, ChangeStep DEF UnitsInv
  <1>9. LateInv(a)'
    <2>1. investmentsOf'[a] = invs /\ Investment(a)' = GetLast(invs)
      BY <1>1, <1>4 DEF AccountTypeOK, Investment
    <2>2. NextTime' = NextTime /\ FundingId' = FundingId
      BY <1>1 DEF NextTime, FundingId
    <2>3. ~(AvailableDepositedAmount(a)' > 0)
      BY <1>1, <1>4 DEF AvailableDepositedAmount
    <2>4. LateInv(a)
      BY DEF UnitsInv
    <2> HIDE DEF invs
    <2> QED BY <1>1, <1>4, <1>6, <2>1, <2>2, <2>3, <2>4 DEF LateInv
  <1>10. ASSUME NEW b \in Accounts, b # a PROVE LateInv(b)'
    <2>1. LateInv(b)
      BY DEF UnitsInv
    <2>2. /\ investmentsOf'[b] = investmentsOf[b]
          /\ accountTradingInfo'[b] = accountTradingInfo[b]
          /\ isNotFirstWithdrawal'[b] = isNotFirstWithdrawal[b]
      BY <1>1, <1>4, <1>10 DEF AccountTypeOK
    <2> QED BY <1>1, <2>1, <2>2, SameLate
  <1>11. HasUnits(units')
    BY <1>7 DEF Gains
  <1> QED BY <1>8, <1>9, <1>10, <1>11 DEF UnitsInv

\* A forced withdrawal takes back a deposit of the cycle that a deposit made
\* now reaches, and its units with it.
LEMMA ForceWithdrawKeepsUnits ==
    ASSUME IInv, LiquidityBacking, UnitsInv, NEW a \in Accounts,
           NEW amount \in WithdrawAmounts, ForceWithdraw(a, amount)
    PROVE  UnitsInv'
  <1> DEFINE old == investmentsOf[a]
             last == Investment(a)
             c == CycleAt(tradingCycles, last.timestamp)
             unit == amount * (c.endTime - last.timestamp)
             left == last.amount - amount
             new == [last EXCEPT !.amount = left, !.unit = @ - unit]
             invs == [old EXCEPT ![Len(old)] = new]
             k == last.idChanged
  <1>1. AccountTypeOK /\ CalendarInv /\ amount \in Nat /\ AccountTypeOK'
    BY AmountAssumption, ForceWithdrawStep DEF IInv
  <1>2. /\ old # <<>> /\ amount <= AvailableDepositedAmount(a)
        /\ UNCHANGED <<now, tradingCycles, isNotFirstWithdrawal>>
        /\ accountTradingInfo' = [accountTradingInfo EXCEPT ![a].availableAmount = @ - amount]
        /\ \E y : units' = AddUnits(units, c.id, -unit, y)
        /\ investmentsOf' = [investmentsOf EXCEPT ![a] = invs]
    <2>1. /\ old # <<>> /\ AvailableDepositedAmount(a) >= amount
          /\ UNCHANGED <<now, tradingCycles, isNotFirstWithdrawal>>
          /\ accountTradingInfo' = [accountTradingInfo EXCEPT ![a].availableAmount = @ - amount]
          /\ \E y : units' = AddUnits(units, c.id, -unit, y)
      BY DEF ForceWithdraw, calendar, registerVars
    <2>2. investmentsOf' = [investmentsOf EXCEPT ![a] = invs]
      BY <1>1 DEF ForceWithdraw, AccountTypeOK
    <2>3. AvailableDepositedAmount(a) \in Nat
      BY <1>1, AccountTypes
    <2> HIDE DEF c, unit, invs
    <2> QED BY <1>1, <2>1, <2>2, <2>3
  <1>3. /\ old \in Seq(InvestmentType) /\ last = old[Len(old)] /\ last = GetLast(old)
        /\ last \in InvestmentType /\ Len(old) \in Nat \ {0}
        /\ last.amount \in Nat /\ last.unit \in Int
        /\ last.timestamp \in Nat /\ k \in Nat
        /\ AvailableDepositedAmount(a) \in Nat /\ now \in Nat
    BY <1>1, <1>2, AccountTypes DEF Investment
  <1>4. LateInv(a) /\ StoredRow /\ HasUnits(units) /\ CountInv
    BY DEF UnitsInv
  <1>5. NextTime \in Nat /\ now < NextTime /\ NextTime \div TradingCycle = FundingId
    BY <1>1, NextTimeFacts
  <1>6. amount # 0 => last.timestamp = NextTime /\ k = FundingId
    BY <1>1, <1>2, <1>3, <1>4, <1>5 DEF LateInv
  <1>7. InRow(c, TradingCycle) /\ c.endTime \in Nat /\ (amount # 0 => c.id = k)
    <2> DEFINE stored == GetLast(tradingCycles)
    <2>1. c = CalculateTradingCycleByTimestamp(stored, TradingCycle, TradingCycle, last.timestamp)
      BY <1>1 DEF CycleAt, CalendarInv
    <2>2. InRow(stored, TradingCycle) /\ stored.startTime <= now /\ stored.startTime \in Nat
      BY <1>1, StoredCycle DEF CalendarInv, InRow, Cycle
    <2> HIDE DEF c, last, stored, k
    <2>3. /\ InRow(c, TradingCycle)
          /\ stored.startTime <= last.timestamp => c.id = last.timestamp \div TradingCycle
      BY <1>3, <2>1, <2>2, CycleOfTime, CycleConstants
    <2>4. amount # 0 => stored.startTime <= last.timestamp
      BY <1>3, <1>5, <1>6, <2>2
    <2> QED BY <1>5, <1>6, <2>3, <2>4 DEF InRow, Cycle
  <1>8. unit \in Int /\ -unit \in Int /\ (amount = 0 => unit = 0)
    <2>1. c.endTime - last.timestamp \in Int
      BY <1>3, <1>7
    <2> HIDE DEF c, last
    <2> QED BY <1>1, <2>1
  <1>9. /\ new.amount = left /\ new.unit = last.unit - unit
        /\ new.timestamp = last.timestamp /\ new.idChanged = k
    <2> HIDE DEF last, left, unit
    <2> QED BY <1>3 DEF InvestmentType, k
  <1>10. /\ investmentsOf'[a] = invs /\ invs \in Seq(InvestmentType)
         /\ new \in InvestmentType
    <2>1. investmentsOf'[a] = invs /\ investmentsOf'[a] \in Seq(InvestmentType)
      BY <1>1, <1>2 DEF AccountTypeOK
    <2> HIDE DEF new
    <2>2. Len(old) \in 1 .. Len(old)
      BY <1>3
    <2>3. Len(invs) = Len(old) /\ invs[Len(old)] = new
      BY <1>3, <2>2
    <2> HIDE DEF invs
    <2>4. invs[Len(old)] \in InvestmentType
      BY <2>1, <2>2, <2>3
    <2> QED BY <2>1, <2>3, <2>4
  <1>11. /\ invs # <<>> /\ GetLast(invs) = new
         /\ Earns(invs, k) = new.unit
         /\ \A id \in Nat : id < k => Earns(invs, id) = Earns(old, id)
    <2> HIDE DEF new, last, k
    <2>1. GetLast(old).idChanged = new.idChanged
      BY <1>3, <1>9 DEF k
    <2>2. /\ invs # <<>> /\ GetLast(invs) = new
          /\ Earns(invs, new.idChanged) = new.unit
          /\ \A id \in Nat : id < new.idChanged => Earns(invs, id) = Earns(old, id)
      <3>1. Stores(old, new, invs)
        BY <1>2, <1>3, <2>1 DEF Stores
      <3> HIDE DEF invs
      <3> QED BY <1>2, <1>3, <1>9, <1>10, <3>1, ChangedListEarns
    <2> QED BY <1>9, <2>2
  <1>12. Earns(old, k) = last.unit
    <2> HIDE DEF k
    <2>1. GetLast(old).idChanged <= k /\ GetLast(old).idChanged = k
      BY <1>3 DEF k
    <2> QED BY <1>2, <1>3, <2>1, EarnsNow
  <1>13. PICK m \in Nat : /\ Len(tradingCycles) - 1 <= m /\ m <= FundingId
                          /\ CountedTo(units, m) /\ Reached(m)
    BY <1>4 DEF CountInv
  <1>14. k <= m
    BY <1>2, <1>13 DEF Reached
  <1>15. \A id \in 0 .. m : id # k => Earns(invs, id) = Earns(old, id)
    <2> SUFFICES ASSUME NEW id \in 0 .. m, id # k PROVE Earns(invs, id) = Earns(old, id)
      OBVIOUS
    <2>1. CASE id < k
      BY <1>11, <2>1
    <2>2. CASE ~(id < k)
      <3> HIDE DEF k, last, invs, old
      <3>1. amount = 0
        <4> SUFFICES ASSUME amount # 0 PROVE FALSE
          OBVIOUS
        <4>1. k = FundingId
          BY <1>6
        <4> QED BY <1>3, <1>13, <2>2, <4>1
      <3>2. new = last
        <4>1. left = last.amount /\ last.unit - unit = last.unit
          BY <1>3, <1>8, <3>1
        <4> HIDE DEF left, unit
        <4> QED BY <1>3, <4>1 DEF InvestmentType
      <3>3. invs = old
        <4>1. last = old[Len(old)]
          BY <1>3
        <4> HIDE DEF new
        <4> QED BY <1>3, <3>2, <4>1 DEF invs
      <3> QED BY <3>3
    <2> QED BY <2>1, <2>2
  <1>16. /\ HasUnits(units') /\ units'.updated = units.updated
         /\ \A i \in Nat : ValueAt(units'.total, i) =
                IF i = k THEN ValueAt(units.total, i) + (-unit) ELSE ValueAt(units.total, i)
    <2> HIDE DEF c, unit, k
    <2>1. PICK y, v, u : v = AddUnits(u, c.id, -unit, y) /\ v = units' /\ u = units
      BY <1>2
    <2>2. HasUnits(u)
      BY <1>4, <2>1
    <2>3. /\ HasUnits(v) /\ v.updated = u.updated
          /\ \A i : ValueAt(v.total, i) = IF i = c.id THEN ValueAt(u.total, i) + (-unit)
                                          ELSE ValueAt(u.total, i)
      BY <2>1, <2>2, AddUnitsAdds
    <2>4. \A i \in Nat : ValueAt(u.total, i) \in Int
      BY <1>1, <1>13, <2>1, CountedTypes
    <2>5. ASSUME NEW i \in Nat
          PROVE  ValueAt(v.total, i) = IF i = k THEN ValueAt(u.total, i) + (-unit)
                                       ELSE ValueAt(u.total, i)
      <3>1. CASE amount = 0
        <4>1. ValueAt(u.total, i) + (-unit) = ValueAt(u.total, i)
          BY <1>8, <2>4, <3>1
        <4> QED BY <2>3, <4>1
      <3>2. CASE amount # 0
        BY <1>7, <2>3, <3>2
      <3> QED BY <3>1, <3>2
    <2> QED BY <2>1, <2>3, <2>5
  <1>17. CountedTo(units, m)'
    <2>1. PICK g, v, u : g = investmentsOf' /\ v = units' /\ u = units
      OBVIOUS
    <2>2. Earns(invs, k) = Earns(old, k) + (-unit)
      <3> HIDE DEF unit, invs, old, k, last
      <3> QED BY <1>3, <1>8, <1>9, <1>11, <1>12
    <2>3. PICK j \in 0 .. m : j = k
      BY <1>3, <1>14
    <2>4. PICK x \in Int : x = -unit
      BY <1>8
    <2>5. PICK list \in Seq(InvestmentType) : list = invs
      BY <1>10
    <2>6. /\ Earns(list, j) = Earns(investmentsOf[a], j) + x
          /\ \A id \in 0 .. m : id # j => Earns(list, id) = Earns(investmentsOf[a], id)
          /\ g = [investmentsOf EXCEPT ![a] = list]
          /\ v.updated = u.updated
          /\ \A i \in Nat : ValueAt(v.total, i) = IF i = j THEN ValueAt(u.total, i) + x
                                                   ELSE ValueAt(u.total, i)
      <3> HIDE DEF invs, k, unit
      <3> QED BY <1>2, <1>15, <1>16, <2>1, <2>2, <2>3, <2>4, <2>5
    <2>7. /\ AccountTypeOK /\ CountedTo(u, m)
          /\ j \in 0 .. m /\ x \in Int /\ list \in Seq(InvestmentType) /\ m \in Nat
      BY <1>1, <1>13, <2>1, <2>3, <2>4, <2>5
    <2>8. CountedChange(a, list, g, u, v, j, x, m)
      BY <2>6 DEF CountedChange
    <2>9. CountedIn(v, g, m)
      BY <2>7, <2>8, ChangeKeepsCount
    <2> QED BY <2>1, <2>9 DEF CountedIn, CountedTo, EarnedIn
  <1>18. StoredRow' /\ CountInv'
    <2>1. FundingId' = FundingId /\ tradingCycles' = tradingCycles
      BY <1>2 DEF FundingId
    <2>2. Reached(m)'
      <3> SUFFICES ASSUME NEW b \in Accounts, investmentsOf'[b] # <<>>
                   PROVE  GetLast(investmentsOf'[b]).idChanged <= m
        BY DEF Reached, Investment
      <3>1. CASE b = a
        <4> HIDE DEF invs, new, k
        <4> QED BY <1>9, <1>10, <1>11, <1>14, <3>1
      <3>2. CASE b # a
        <4> HIDE DEF invs
        <4> QED BY <1>1, <1>2, <1>13, <3>2 DEF AccountTypeOK, Reached, Investment
      <3> QED BY <3>1, <3>2
    <2> QED BY <1>4, <1>13, <1>17, <2>1, <2>2 DEF CountInv, StoredRow, RowCycle
  <1>19. LateInv(a)'
    <2>1. investmentsOf'[a] # <<>> /\ Investment(a)' = new
      BY <1>10, <1>11 DEF Investment
    <2>2. NextTime' = NextTime /\ FundingId' = FundingId
      BY <1>2 DEF NextTime, FundingId
    <2>3. accountTradingInfo'[a].depositedTimestampOf
              = accountTradingInfo[a].depositedTimestampOf
      BY <1>1, <1>2 DEF AccountTypeOK
    <2>4. AvailableDepositedAmount(a)' > 0 => AvailableDepositedAmount(a) > 0
      <3>1. accountTradingInfo'[a].availableAmount
                = accountTradingInfo[a].availableAmount - amount
        BY <1>1, <1>2 DEF AccountTypeOK
      <3>2. accountTradingInfo[a].availableAmount \in Nat
        BY <1>1, AccountTypes
      <3> QED BY <1>1, <1>2, <2>3, <3>1, <3>2 DEF AvailableDepositedAmount
    <2> HIDE DEF new, k
    <2>5. new.timestamp = last.timestamp /\ new.idChanged = last.idChanged
      BY <1>9 DEF k
    <2> QED BY <1>2, <1>4, <2>1, <2>2, <2>3, <2>4, <2>5 DEF LateInv
  <1>20. ASSUME NEW b \in Accounts, b # a PROVE LateInv(b)'
    <2>1. LateInv(b)
      BY DEF UnitsInv
    <2>2. /\ investmentsOf'[b] = investmentsOf[b]
          /\ accountTradingInfo'[b] = accountTradingInfo[b]
          /\ isNotFirstWithdrawal'[b] = isNotFirstWithdrawal[b]
      <3> HIDE DEF invs
      <3> QED BY <1>1, <1>2, <1>20 DEF AccountTypeOK
    <2> QED BY <1>2, <2>1, <2>2, SameLate
  <1> QED BY <1>16, <1>18, <1>19, <1>20 DEF UnitsInv

\* A step at the same time that touches neither investments, units nor
\* calendar keeps it.
LEMMA OtherKeepsUnits ==
    ASSUME UnitsInv, \A a \in Accounts : isNotFirstWithdrawal'[a] = isNotFirstWithdrawal[a],
           UNCHANGED <<now, investmentsOf, accountTradingInfo, units, tradingCycles>>
    PROVE  UnitsInv'
  <1>1. \A a \in Accounts : LateInv(a)'
    BY SameLate DEF UnitsInv
  <1>2. StoredRow' /\ HasUnits(units')
    BY DEF UnitsInv, StoredRow
  <1>3. FundingId' = FundingId
    BY DEF FundingId
  <1>4. PICK m \in Nat : /\ Len(tradingCycles) - 1 <= m /\ m <= FundingId
                         /\ CountedTo(units, m) /\ Reached(m)
    BY DEF UnitsInv, CountInv
  <1>5. CountedTo(units, m)' /\ Reached(m)'
    <2>1. PICK g, v : g = investmentsOf' /\ v = units' /\ g = investmentsOf /\ v = units
      OBVIOUS
    <2>2. CountedIn(v, g, m)
      BY <1>4, <2>1 DEF CountedIn, CountedTo, EarnedIn
    <2> QED BY <1>4, <2>1, <2>2 DEF CountedIn, CountedTo, EarnedIn, Reached, Investment
  <1> QED BY <1>1, <1>2, <1>3, <1>4, <1>5 DEF UnitsInv, CountInv

\* An update of the calendar opens the cycles it appends.
LEMMA UpdateKeepsUnits ==
    ASSUME IInv, LiquidityBacking, UnitsInv, NEW n \in 0 .. DueCycles,
           UpdateCalendar(n), units' = UnitsAfter(n),
           UNCHANGED <<now, investmentsOf, accountTradingInfo, isNotFirstWithdrawal>>
    PROVE  UnitsInv'
  <1>1. AccountTypeOK /\ CalendarInv /\ StoredRow /\ CountInv
    BY DEF IInv, UnitsInv
  <1>2. /\ UNCHANGED <<now, investmentsOf, accountTradingInfo, isNotFirstWithdrawal>>
        /\ units' = UnitsAfter(n)
        /\ tradingCycles' = tradingCycles \o NewCycles(n)
    BY DEF UpdateCalendar
  <1>3. \A a \in Accounts : LateInv(a)'
    BY <1>2, SameLate DEF UnitsInv
  <1>4. PICK cycles : cycles = tradingCycles \o NewCycles(n)
    OBVIOUS
  <1>5. /\ \A i \in 1 .. Len(cycles) : cycles[i] = RowCycle(i - 1)
        /\ Len(cycles) = Len(tradingCycles) + n
    BY <1>1, <1>4, RowGrows
  <1>6. StoredRow'
    BY <1>2, <1>4, <1>5 DEF StoredRow, RowCycle
  <1>7. PICK p \in Nat : /\ (Len(tradingCycles) + n) - 1 <= p /\ p <= FundingId
                         /\ HasUnits(UnitsAfter(n)) /\ CountedTo(UnitsAfter(n), p)
                         /\ Reached(p)
    BY <1>1, OpenedByUpdate
  <1>8. CountedTo(units, p)' /\ Reached(p)'
    <2>1. PICK g, v : g = investmentsOf' /\ v = units' /\ g = investmentsOf /\ v = UnitsAfter(n)
      BY <1>2
    <2>2. CountedIn(v, g, p)
      BY <1>7, <2>1 DEF CountedIn, CountedTo, EarnedIn
    <2> QED BY <1>7, <2>1, <2>2 DEF CountedIn, CountedTo, EarnedIn, Reached, Investment
  <1>9. FundingId' = FundingId /\ Len(tradingCycles') = Len(tradingCycles) + n
    BY <1>2, <1>4, <1>5 DEF FundingId
  <1>10. CountInv'
    BY <1>7, <1>8, <1>9 DEF CountInv
  <1> QED BY <1>2, <1>3, <1>6, <1>7, <1>10 DEF UnitsInv

\* The passing of time: the next funding time is the same until it is
\* reached, and then no deposit is pending.
LEMMA TickKeepsUnits ==
    ASSUME IInv, UnitsInv, Tick
    PROVE  UnitsInv'
  <1>1. /\ AccountTypeOK /\ CalendarInv /\ now \in Nat /\ now' = now + 1
        /\ UNCHANGED <<tradingCycles, investmentsOf, accountTradingInfo, units,
                       isNotFirstWithdrawal>>
    BY DEF IInv, Tick, AccountTypeOK, calendar, accountVars, registerVars
  <1> DEFINE p == now \div FundingCycle
             q == (now + 1) \div FundingCycle
  <1>2. /\ p \in Nat /\ q \in Nat /\ p <= q
        /\ p * FundingCycle <= now /\ now + 1 < q * FundingCycle + FundingCycle
        /\ FundingCycle \in Nat \ {0} /\ TradingCycle \in Nat \ {0}
    <2>1. now \in Nat /\ now + 1 \in Nat /\ now <= now + 1
      BY <1>1
    <2> QED BY <2>1, Quotient, QuotientIsMonotone, CycleConstants
  <1>3. NextTime = (p + 1) * FundingCycle /\ NextTime' = (q + 1) * FundingCycle
        /\ NextTime \in Nat /\ NextTime' \in Nat
    <2>1. NextTime = (p + 1) * FundingCycle /\ NextTime' = (q + 1) * FundingCycle
      BY <1>1 DEF NextTime
    <2> HIDE DEF p, q
    <2> QED BY <1>2, <2>1
  <1>4. FundingId = NextTime \div TradingCycle /\ FundingId' = NextTime' \div TradingCycle
    BY DEF FundingId, NextTime
  <1> HIDE DEF p, q
  <1>5. NextTime <= NextTime'
    <2>1. p + 1 <= q + 1 /\ p + 1 \in Nat /\ q + 1 \in Nat /\ FundingCycle \in Nat
      BY <1>2
    <2> QED BY <1>3, <2>1, ProductIsMonotone
  <1>6. FundingId <= FundingId' /\ FundingId \in Nat /\ FundingId' \in Nat
    BY <1>2, <1>3, <1>4, <1>5, Quotient, QuotientIsMonotone
  <1>7. NextTime > now + 1 => NextTime' = NextTime /\ FundingId' = FundingId
    <2> SUFFICES ASSUME NextTime > now + 1 PROVE NextTime' = NextTime
      BY <1>4
    <2>1. p * FundingCycle <= now + 1 /\ now + 1 < p * FundingCycle + FundingCycle
      <3>1. (p + 1) * FundingCycle = p * FundingCycle + FundingCycle /\ p * FundingCycle \in Nat
        BY <1>2
      <3> QED BY <1>1, <1>2, <1>3, <3>1
    <2>2. (now + 1) \div FundingCycle = p
      BY <1>1, <1>2, <2>1, now + 1 \in Nat, QuotientIsUnique
    <2> QED BY <1>3, <2>2 DEF q
  <1>8. ASSUME NEW a \in Accounts PROVE LateInv(a)'
    <2>1. LateInv(a)
      BY DEF UnitsInv
    <2>2. /\ accountTradingInfo[a].depositedTimestampOf \in Nat
          /\ accountTradingInfo[a].availableAmount \in Nat
          /\ investmentsOf[a] # <<>> => Investment(a).timestamp \in Nat
      BY <1>1, AccountTypes
    <2>3. Investment(a)' = Investment(a)
      BY <1>1 DEF Investment
    <2>4. accountTradingInfo'[a].depositedTimestampOf <= NextTime'
      BY <1>1, <1>3, <1>5, <2>1, <2>2 DEF LateInv
    <2>5. AvailableDepositedAmount(a)' > 0 =>
              investmentsOf'[a] # <<>> /\ Investment(a)'.timestamp = NextTime'
      <3> SUFFICES ASSUME AvailableDepositedAmount(a)' > 0
                   PROVE  investmentsOf'[a] # <<>> /\ Investment(a)'.timestamp = NextTime'
        OBVIOUS
      <3>1. /\ accountTradingInfo[a].depositedTimestampOf > now + 1
            /\ accountTradingInfo[a].availableAmount > 0
        BY <1>1, <2>2 DEF AvailableDepositedAmount
      <3>2. AvailableDepositedAmount(a) > 0
        BY <1>1, <2>2, <3>1 DEF AvailableDepositedAmount
      <3>3. NextTime > now + 1
        BY <1>1, <1>3, <2>1, <2>2, <3>1 DEF LateInv
      <3> QED BY <1>1, <1>7, <2>1, <2>3, <3>2, <3>3 DEF LateInv
    <2>6. investmentsOf'[a] # <<>> /\ Investment(a)'.timestamp > now' =>
              /\ Investment(a)'.timestamp = NextTime'
              /\ Investment(a)'.idChanged = FundingId'
      <3> SUFFICES ASSUME investmentsOf'[a] # <<>>, Investment(a)'.timestamp > now'
                   PROVE  /\ Investment(a)'.timestamp = NextTime'
                          /\ Investment(a)'.idChanged = FundingId'
        OBVIOUS
      <3>1. Investment(a).timestamp > now + 1 /\ Investment(a).timestamp > now
        BY <1>1, <2>2, <2>3
      <3>2. Investment(a).timestamp = NextTime /\ Investment(a).idChanged = FundingId
        BY <1>1, <2>1, <3>1 DEF LateInv
      <3> QED BY <1>7, <2>3, <3>1, <3>2
    <2> QED BY <1>1, <2>1, <2>4, <2>5, <2>6 DEF LateInv
  <1>9. StoredRow' /\ HasUnits(units')
    BY <1>1 DEF UnitsInv, StoredRow
  <1>10. CountInv'
    <2>1. PICK m \in Nat : /\ Len(tradingCycles) - 1 <= m /\ m <= FundingId
                           /\ CountedTo(units, m) /\ Reached(m)
      BY DEF UnitsInv, CountInv
    <2>2. CountedTo(units, m)' /\ Reached(m)'
      <3>1. PICK g, v : g = investmentsOf' /\ v = units' /\ g = investmentsOf /\ v = units
        BY <1>1
      <3>2. CountedIn(v, g, m)
        BY <2>1, <3>1 DEF CountedIn, CountedTo, EarnedIn
      <3> QED BY <2>1, <3>1, <3>2 DEF CountedIn, CountedTo, EarnedIn, Reached, Investment
    <2>3. Len(tradingCycles') - 1 <= m /\ m <= FundingId'
      BY <1>1, <1>6, <2>1
    <2> QED BY <2>2, <2>3 DEF CountInv
  <1> QED BY <1>8, <1>9, <1>10 DEF UnitsInv

\* Every step keeps it.
LEMMA StepKeepsUnits ==
    ASSUME Aligned, IInv, LiquidityBacking, UnitsInv, [Next]_vars
    PROVE  UnitsInv'
  <1>1. ASSUME NEW a \in Accounts, UserStep(a) PROVE UnitsInv'
    <2>1. ASSUME NEW amount \in WithdrawAmounts, Claim(a, amount) PROVE UnitsInv'
      <3>1. /\ UNCHANGED <<now, investmentsOf, accountTradingInfo, units, tradingCycles>>
            /\ isNotFirstWithdrawal' = [isNotFirstWithdrawal EXCEPT ![a] = TRUE]
        BY <2>1 DEF Claim, accountVars, calendar
      <3>2. \A b \in Accounts : isNotFirstWithdrawal'[b] = isNotFirstWithdrawal[b]
        <4>1. isNotFirstWithdrawal[a]
          BY DEF UnitsInv, LateInv
        <4>2. isNotFirstWithdrawal \in [Accounts -> BOOLEAN]
          BY DEF IInv, AccountTypeOK
        <4> QED BY <3>1, <4>1, <4>2
      <3> QED BY <3>1, <3>2, OtherKeepsUnits
    <2> QED BY <1>1, <2>1, DepositKeepsUnits, RequestKeepsUnits, ForceWithdrawKeepsUnits
            DEF UserStep
  <1>2. CASE Tick
    BY <1>2, TickKeepsUnits
  <1>3. CASE \E n \in 0 .. DueCycles : UpdateCurrentTradingCycle(n)
    BY <1>3, UpdateKeepsUnits DEF UpdateCurrentTradingCycle, accountVars, registerVars
  <1>4. CASE TakeInvestment \/ \E amount \in TransferAmounts : SendRequestedWithdrawal(amount)
    <2>1. UNCHANGED <<now, investmentsOf, accountTradingInfo, units, tradingCycles,
                      isNotFirstWithdrawal>>
      BY <1>4 DEF TakeInvestment, SendRequestedWithdrawal, accountVars, calendar, registerVars
    <2> QED BY <2>1, OtherKeepsUnits
  <1>5. CASE UNCHANGED vars
    <2>1. UNCHANGED <<now, investmentsOf, accountTradingInfo, units, tradingCycles,
                      isNotFirstWithdrawal>>
      BY <1>5 DEF vars, accountVars, calendar, registerVars
    <2> QED BY <2>1, OtherKeepsUnits
  <1> QED BY <1>1, <1>2, <1>3, <1>4, <1>5 DEF Next

\* A pool whose accounts have all been in it before.
LEMMA InitReturning == ReturningInit => IInv /\ LiquidityBacking /\ UnitsInv
  <1> SUFFICES ASSUME ReturningInit PROVE IInv /\ LiquidityBacking /\ UnitsInv
    OBVIOUS
  <1> DEFINE none == [amount |-> 0, unit |-> 0, timestamp |-> 0,
                      idChanged |-> 0, isWhitelist |-> FALSE]
  <1>1. /\ none \in InvestmentType /\ <<none>> \in Seq(InvestmentType)
        /\ <<none>> # <<>> /\ GetLast(<<none>>) = none
    BY DEF InvestmentType, GetLast
  <1>2. PoolInit(TRUE, <<none>>)
    BY DEF ReturningInit
  <1>3. \A a \in Accounts : investmentsOf[a] = <<none>> /\ Investment(a) = none
    BY <1>1, <1>2 DEF PoolInit, Investment
  <1> HIDE DEF none
  <1>4. AccountTypeOK
    <2>1. <<[id |-> 0, startTime |-> 0, endTime |-> TradingCycle]>>
              \in Seq([id : Nat, startTime : Nat, endTime : Nat])
      BY CycleConstants
    <2>2. <<[id |-> 0, startTime |-> 0, endTime |-> TradingCycle]>> # <<>>
      OBVIOUS
    <2> QED BY <1>1, <1>2, <2>1, <2>2 DEF PoolInit, AccountTypeOK
  <1>5. CalendarInv
    <2>1. GetLast(tradingCycles) = [id |-> 0, startTime |-> 0, endTime |-> TradingCycle]
      BY <1>2 DEF PoolInit, GetLast
    <2> QED BY <1>2, <2>1, CycleConstants DEF PoolInit, CalendarInv
  <1>6. FundingId \in Nat /\ now < NextTime /\ NextTime \in Nat
    BY <1>4, <1>5, NextTimeFacts
  <1>7. none.amount = 0 /\ none.unit = 0 /\ none.timestamp = 0 /\ none.idChanged = 0
    BY DEF none
  <1>8. /\ now = 0 /\ units = [total |-> <<>>, whitelist |-> <<>>, updated |-> {0}]
        /\ tradingCycles = <<[id |-> 0, startTime |-> 0, endTime |-> TradingCycle]>>
        /\ liquidity.total = 0
    BY <1>2 DEF PoolInit
  <1>9. ASSUME NEW a \in Accounts
        PROVE  /\ ipcog[a] = 0 /\ register[a].amount = 0 /\ register[a].deadline = 0
               /\ accountTradingInfo[a].depositedTimestampOf = 0
               /\ AvailableDepositedAmount(a) = 0 /\ isNotFirstWithdrawal[a]
    BY <1>2 DEF PoolInit, AvailableDepositedAmount
  <1>10. IInv
    <2>1. ASSUME NEW a \in Accounts PROVE AccountInv(a)
      <3>1. Investment(a).idChanged <= FundingId + 1 /\ ~(Investment(a).idChanged > FundingId)
        BY <1>3, <1>6, <1>7
      <3>2. InvestorInv(a)
        <4>1. AvailableDepositedAmount(a) <= Investment(a).amount
          BY <1>3, <1>7, <1>9
        <4>2. Investment(a).idChanged <= FundingId + 1
          BY <3>1
        <4>3. Investment(a).idChanged > FundingId => PendingRequest(a)
          BY <3>1
        <4>4. UnlockId(a) = 0
          <5>1. 0 \div TradingCycle = 0
            <6>1. 0 * TradingCycle <= 0 /\ 0 < 0 * TradingCycle + TradingCycle
              BY CycleConstants
            <6> QED BY <6>1, QuotientIsUnique, CycleConstants
          <5> QED BY <1>8, <1>9, <5>1 DEF UnlockId
        <4>5. UnlockId(a) <= Investment(a).idChanged /\ UnlockId(a) <= FundingId
          BY <1>3, <1>6, <1>7, <4>4
        <4> QED BY <4>1, <4>2, <4>3, <4>5 DEF InvestorInv
      <3>3. InvestedAmount(a) = 0 /\ investmentsOf[a] # <<>>
        BY <1>1, <1>3, <1>7 DEF InvestedAmount
      <3>4. ipcog[a] = InvestedAmount(a) + register[a].amount
        BY <1>9, <3>3
      <3> QED BY <3>2, <3>3, <3>4 DEF AccountInv
    <2> QED BY <1>4, <1>5, <2>1 DEF IInv
  <1>11. LiquidityBacking
    <2> DEFINE f == [a \in Accounts |-> InvestedAmount(a)]
    <2>1. DOMAIN f = Accounts /\ \A a \in Accounts : f[a] = 0
      BY <1>1, <1>3, <1>7 DEF InvestedAmount
    <2> HIDE DEF f
    <2>2. SumFunction(f) = 0
      BY <2>1, AccountAssumption, SumOfZeros
    <2> QED BY <1>8, <2>2 DEF LiquidityBacking, f
  <1>12. StoredRow /\ HasUnits(units)
    <2>1. Len(tradingCycles) = 1 /\ tradingCycles[1] = RowCycle(0)
      BY <1>8, CycleConstants DEF RowCycle
    <2>2. \A i \in 1 .. 1 : i = 1 /\ i - 1 = 0
      OBVIOUS
    <2> QED BY <1>8, <2>1, <2>2 DEF StoredRow, HasUnits
  <1>13. CountInv
    <2>1. SumFunction(EarnedIn(0)) = 0
      <3>1. Earns(<<none>>, 0) = 0
        <4>1. PICK list \in Seq(InvestmentType) : list = <<none>>
          BY <1>1
        <4>2. list # <<>> /\ GetLast(list).idChanged <= 0 /\ GetLast(list).idChanged = 0
              /\ GetLast(list).unit = 0 /\ 0 \in Nat
          BY <1>1, <1>7, <4>1
        <4>3. Earns(list, 0) = 0
          BY <4>2, EarnsFromLast
        <4> QED BY <4>1, <4>3
      <3>2. DOMAIN EarnedIn(0) = Accounts /\ \A a \in Accounts : EarnedIn(0)[a] = 0
        BY <1>3, <3>1 DEF EarnedIn
      <3> QED BY <3>2, AccountAssumption, SumOfZeros
    <2>2. CountedTo(units, 0)
      <3>1. units.updated = {0} /\ \A i \in Nat : ValueAt(units.total, i) = 0
        BY <1>8 DEF ValueAt
      <3> QED BY <2>1, <3>1 DEF CountedTo
    <2>3. Reached(0)
      BY <1>3, <1>7 DEF Reached
    <2>4. Len(tradingCycles) - 1 = 0
      BY <1>8
    <2>5. PICK k \in Nat : k = FundingId
      BY <1>6
    <2>6. 0 <= FundingId
      BY <2>5
    <2>7. PICK l \in {0} : l = Len(tradingCycles) - 1
      BY <2>4
    <2>8. 0 \in Nat /\ Len(tradingCycles) - 1 <= 0
      BY <2>7
    <2> QED BY <2>2, <2>3, <2>6, <2>8 DEF CountInv
  <1>14. \A a \in Accounts : LateInv(a)
    BY <1>1, <1>3, <1>6, <1>7, <1>8, <1>9 DEF LateInv
  <1> QED BY <1>10, <1>11, <1>12, <1>13, <1>14 DEF UnitsInv

\* The invariants hold in every state of such a pool.
LEMMA ReturningIsInvariant ==
    ASSUME Aligned PROVE ReturningSpec => [](IInv /\ LiquidityBacking /\ UnitsInv)
  <1>1. IInv /\ LiquidityBacking /\ UnitsInv /\ [Next]_vars
            => (IInv /\ LiquidityBacking /\ UnitsInv)'
    BY StepKeepsIInv, StepKeepsLiquidity, StepKeepsUnits
  <1> QED BY <1>1, InitReturning, PTL DEF ReturningSpec

\* The total units of every opened cycle are what the accounts earn in it,
\* however deposits, requests and forced withdrawals interleave with the
\* updates of the calendar, when every account has claimed before
\* (_increaseInvestment, _decreaseInvestment, _updateTotalUnitsForFirstTime
\* and PrecogVault.forceWithdraw).
THEOREM UnitConservation_Safe ==
    ASSUME Aligned PROVE ReturningSpec => []UnitConservation
  <1>1. IInv /\ LiquidityBacking /\ UnitsInv => UnitConservation
    <2> SUFFICES ASSUME IInv, UnitsInv, NEW id \in units.updated
                 PROVE  ValueAt(units.total, id)
                            = SumFunction([a \in Accounts |->
                                  UnitInCycle(investmentsOf[a], CycleWithId(id))])
      BY DEF UnitConservation
    <2>1. PICK m \in Nat : CountedTo(units, m)
      BY DEF UnitsInv, CountInv
    <2>2. id \in Nat /\ id <= m
      BY <2>1 DEF CountedTo
    <2>3. ValueAt(units.total, id) = SumFunction(EarnedIn(id))
      BY <2>1, <2>2 DEF CountedTo
    <2>4. CycleWithId(id) = RowCycle(id)
      BY <2>2, CycleInStoredRow DEF IInv, UnitsInv
    <2> QED BY <2>3, <2>4 DEF EarnedIn, Earns
  <1> QED BY <1>1, ReturningIsInvariant, PTL

----------------------------------------------------------------------------
\* The pool implements the ledger of PrecogLedger: its first state is one of
\* the ledger, and every step is a step of the ledger or invisible in it.

\* The amounts of the ledger as the functions of the refinement mapping.
Owed == [a \in Accounts |-> register[a].amount]
Due == [a \in Accounts |-> register[a].deadline]

\* What a call moves is an amount of the ledger.
LEMMA MovedIsAmount ==
    ASSUME NEW amount \in DepositAmounts \union WithdrawAmounts
    PROVE  0 .. amount \subseteq MovedAmounts
  BY DEF MovedAmounts

\* The register of one account changes, and so do its owed amount and its
\* due time.
LEMMA OwedAfter ==
    ASSUME AccountTypeOK, NEW a \in Accounts, NEW r,
           register' = [register EXCEPT ![a] = r]
    PROVE  /\ Owed' = [Owed EXCEPT ![a] = r.amount]
           /\ Due' = [Due EXCEPT ![a] = r.deadline]
           /\ Owed[a] = register[a].amount
  BY DEF AccountTypeOK, Owed, Due

\* A deposit adds new money and takes back part of what is owed.
LEMMA DepositInvests ==
    ASSUME IInv, NEW a \in Accounts, NEW amount \in DepositAmounts,
           Deposit(a, amount)
    PROVE  Ledger!Next
  <1>1. PICK invs \in Seq(InvestmentType), fresh \in 0 .. amount, back \in 0 .. amount,
             r \in [amount : Nat, deadline : Nat] :
              /\ invs # <<>>
              /\ GetLast(invs).amount = InvestedAmount(a) + fresh + back
              /\ back <= register[a].amount
              /\ r.amount = register[a].amount - back
              /\ \/ r.deadline = register[a].deadline
                 \/ r.amount = 0 /\ r.deadline = now
              /\ now' = now
              /\ investmentsOf' = [investmentsOf EXCEPT ![a] = invs]
              /\ register' = [register EXCEPT ![a] = r]
              /\ ipcog' = [ipcog EXCEPT ![a] = @ + fresh]
    BY DepositEffect
  <1>2. AccountTypeOK /\ register[a].amount \in Nat
    BY AccountTypes DEF IInv
  <1>3. fresh \in MovedAmounts /\ back \in MovedAmounts
    BY MovedIsAmount
  <1>4. Invested' = [Invested EXCEPT ![a] = @ + fresh + back]
    BY <1>1, <1>2, InvestedAfter DEF Invested
  <1>5. Owed' = [Owed EXCEPT ![a] = @ - back] /\ Due' = [Due EXCEPT ![a] = r.deadline]
    <2>1. /\ Owed' = [Owed EXCEPT ![a] = r.amount]
          /\ Due' = [Due EXCEPT ![a] = r.deadline]
          /\ Owed[a] = register[a].amount
      BY <1>1, <1>2, OwedAfter
    <2> QED BY <1>1, <2>1, Zenon
  <1>6. back <= Owed[a]
    BY <1>1 DEF Owed
  <1>7. \/ Due' = Due
        \/ back = Owed[a] /\ Due' = [Due EXCEPT ![a] = now]
    <2>1. r.deadline = register[a].deadline => Due' = Due
      BY <1>5 DEF Due
    <2>2. r.amount = 0 /\ r.deadline = now
              => back = Owed[a] /\ Due' = [Due EXCEPT ![a] = now]
      <3>1. r.amount = 0 => back = Owed[a]
        BY <1>1, <1>2 DEF Owed
      <3> QED BY <1>5, <3>1
    <2> QED BY <1>1, <2>1, <2>2
  <1>8. Ledger!Invest(a, fresh, back)
    BY <1>1, <1>4, <1>5, <1>6, <1>7, Zenon DEF Ledger!Invest, Invested, Owed, Due
  <1> QED BY <1>3, <1>8 DEF Ledger!Next

\* A request turns an investment into something owed.
LEMMA RequestRequests ==
    ASSUME Aligned, IInv, NEW a \in Accounts, NEW amount \in WithdrawAmounts,
           RequestWithdrawal(a, amount)
    PROVE  Ledger!Next
  <1>1. PICK invs \in Seq(InvestmentType), deadline \in Nat :
              /\ invs # <<>>
              /\ amount \in Nat /\ amount <= InvestedAmount(a)
              /\ GetLast(invs).amount = InvestedAmount(a) - amount
              /\ deadline >= now
              /\ register[a].amount > 0 =>
                     /\ IsInDeadline(a)
                     /\ deadline = register[a].deadline
              /\ now' = now
              /\ investmentsOf' = [investmentsOf EXCEPT ![a] = invs]
              /\ register' = [register EXCEPT
                     ![a] = [amount |-> @.amount + amount, deadline |-> deadline]]
              /\ ipcog' = ipcog
    BY RequestEffect
  <1>2. AccountTypeOK /\ now \in Nat /\ register[a].deadline \in Nat
    BY AccountTypes DEF IInv
  <1>3. amount \in MovedAmounts
    BY <1>1, MovedIsAmount
  <1>4. Invested' = [Invested EXCEPT ![a] = @ - amount]
    BY <1>1, <1>2, InvestedAfter DEF Invested
  <1>5. Owed' = [Owed EXCEPT ![a] = @ + amount] /\ Due' = [Due EXCEPT ![a] = deadline]
    <2> DEFINE r == [amount |-> register[a].amount + amount, deadline |-> deadline]
    <2>1. register' = [register EXCEPT ![a] = r]
      BY <1>1
    <2>2. r.amount = register[a].amount + amount /\ r.deadline = deadline
      OBVIOUS
    <2> HIDE DEF r
    <2>3. /\ Owed' = [Owed EXCEPT ![a] = r.amount]
          /\ Due' = [Due EXCEPT ![a] = r.deadline]
          /\ Owed[a] = register[a].amount
      BY <1>2, <2>1, OwedAfter
    <2> QED BY <2>2, <2>3, Zenon
  <1>6. Due'[a] = deadline /\ amount <= Invested[a]
    BY <1>1, <1>5 DEF Due, Invested
  <1>7. Owed[a] > 0 => now <= Due[a] /\ Due' = Due
    BY <1>1, <1>2, <1>5 DEF Owed, Due, IsInDeadline
  <1>8. Ledger!Request(a, amount)
    BY <1>1, <1>4, <1>5, <1>6, <1>7, Zenon DEF Ledger!Request, Invested, Owed, Due
  <1> QED BY <1>3, <1>8 DEF Ledger!Next

\* A claim pays what is owed, after its due time.
LEMMA ClaimPays ==
    ASSUME IInv, NEW a \in Accounts, NEW amount \in WithdrawAmounts, Claim(a, amount)
    PROVE  Ledger!Next
  <1>1. AccountTypeOK /\ amount \in MovedAmounts
    BY AmountAssumption, MovedIsAmount DEF IInv
  <1>2. /\ UNCHANGED <<now, investmentsOf>>
        /\ register[a].deadline < now /\ amount <= register[a].amount
        /\ register' = [register EXCEPT ![a].amount = @ - amount]
        /\ ipcog' = [ipcog EXCEPT ![a] = @ - amount]
    BY DEF Claim, Burn, accountVars
  <1>3. Owed' = [Owed EXCEPT ![a] = @ - amount] /\ Due' = Due
    BY <1>1, <1>2 DEF AccountTypeOK, Owed, Due
  <1>4. Invested' = Invested
    BY <1>2 DEF Invested, InvestedAmount, Investment
  <1>5. Due[a] < now /\ amount <= Owed[a]
    BY <1>2 DEF Owed, Due
  <1>6. Ledger!Pay(a, amount)
    BY <1>2, <1>3, <1>4, <1>5, Zenon DEF Ledger!Pay, Invested, Owed, Due
  <1> QED BY <1>1, <1>6 DEF Ledger!Next

\* A forced withdrawal gives a deposit back and leaves what is owed alone.
LEMMA ForceWithdrawGivesBack ==
    ASSUME IInv, NEW a \in Accounts, NEW amount \in WithdrawAmounts,
           ForceWithdraw(a, amount)
    PROVE  Ledger!Next
  <1>1. AccountTypeOK /\ amount \in MovedAmounts
    BY AmountAssumption, MovedIsAmount DEF IInv
  <1>2. PICK invs \in Seq(InvestmentType) :
              /\ invs # <<>>
              /\ amount \in Nat /\ amount <= InvestedAmount(a)
              /\ GetLast(invs).amount = InvestedAmount(a) - amount
              /\ investmentsOf' = [investmentsOf EXCEPT ![a] = invs]
              /\ UNCHANGED <<now, register>>
              /\ ipcog' = [ipcog EXCEPT ![a] = @ - amount]
    BY ForceWithdrawEffect
  <1>3. Invested' = [Invested EXCEPT ![a] = @ - amount] /\ amount <= Invested[a]
    BY <1>1, <1>2, InvestedAfter DEF Invested
  <1>4. Owed' = Owed /\ Due' = Due
    BY <1>2 DEF Owed, Due
  <1>5. Ledger!GiveBack(a, amount)
    BY <1>2, <1>3, <1>4, Zenon DEF Ledger!GiveBack, Invested, Owed, Due
  <1> QED BY <1>1, <1>5 DEF Ledger!Next

\* Every step of the pool is a step of the ledger or invisible in it.
LEMMA StepImplementsLedger ==
    ASSUME Aligned, IInv, [Next]_vars
    PROVE  [Ledger!Next]_(Ledger!ledgerVars)
  <1>1. ASSUME UNCHANGED <<now, investmentsOf, register, ipcog>>
        PROVE  UNCHANGED Ledger!ledgerVars
    BY <1>1 DEF Ledger!ledgerVars, InvestedAmount, Investment
  <1>2. CASE Tick
    <2>1. now' > now /\ UNCHANGED <<investmentsOf, register, ipcog>>
      BY <1>2 DEF Tick, accountVars, registerVars, shareVars, IInv, AccountTypeOK
    <2>2. Ledger!TimePasses
      BY <2>1 DEF Ledger!TimePasses, InvestedAmount, Investment
    <2> QED BY <2>2 DEF Ledger!Next
  <1>3. CASE \E a \in Accounts : UserStep(a)
    BY <1>3, DepositInvests, RequestRequests, ClaimPays, ForceWithdrawGivesBack
       DEF UserStep
  <1>4. CASE \E n \in 0 .. DueCycles : UpdateCurrentTradingCycle(n)
    BY <1>1, <1>4 DEF UpdateCurrentTradingCycle, accountVars, registerVars, shareVars
  <1>5. CASE TakeInvestment \/ \E amount \in TransferAmounts :
                                  SendRequestedWithdrawal(amount)
    BY <1>1, <1>5 DEF TakeInvestment, SendRequestedWithdrawal, accountVars,
                      registerVars, shareVars
  <1>6. CASE UNCHANGED vars
    BY <1>1, <1>6 DEF vars, accountVars, registerVars, shareVars
  <1> QED BY <1>2, <1>3, <1>4, <1>5, <1>6 DEF Next

\* Whatever its users do and whatever becomes of cycles, units and token
\* balances, the pool keeps the promise of the ledger: shares are what is
\* invested and owed, what is owed keeps its due time and is paid after it.
THEOREM ImplementsLedger_Correct == ASSUME Aligned PROVE Spec => ImplementsLedger
  <1>1. Init => Ledger!Init
    BY DEF Init, PoolInit, Ledger!Init, InvestedAmount
  <1>2. IInv /\ [Next]_vars => [Ledger!Next]_(Ledger!ledgerVars)
    BY StepImplementsLedger
  <1> QED BY <1>1, <1>2, IInvIsInvariant, PTL DEF Spec, ImplementsLedger, Ledger!Spec
=============================================================================
