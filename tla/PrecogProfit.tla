---------------------------- MODULE PrecogProfit ----------------------------
(***************************************************************************)
(* The pool of PrecogV5 with its profits: PrecogProfit.sol shares what the *)
(* middleware sends for a finished trading cycle, buys PCOG for it and     *)
(* pays the accounts; updateProfit of PrecogInternal is open to anybody.   *)
(* The profit comes from outside the pool with the call that sends it, and *)
(* how much PCOG the exchange gives for it is a free choice.               *)
(***************************************************************************)
EXTENDS PrecogV5

CONSTANTS
    ProfitAmounts,          \* what the middleware sends for a cycle
    PcogAmounts,            \* what the exchange gives for it
    ProfitCutRate           \* the part of a profit that buys GMT

ASSUME ProfitAssumption ==
    /\ ProfitAmounts \subseteq Nat /\ PcogAmounts \subseteq Nat
    /\ ProfitCutRate \in Nat
    /\ TradingFee + ProfitCutRate <= FeeBase

VARIABLE pcog               \* PCOG that PrecogProfit holds

profitVarsAll == <<vars, pcog>>

ProfitInit == Init /\ pcog = 0

\* The same of a pool whose accounts have all been in it before.
ReturningProfitInit == ReturningInit /\ pcog = 0

----------------------------------------------------------------------------
\* A cycle without units gets no profit.
AcceptedProfit(amount) ==
    IF ValueAt(units.total, currentProfitId) = 0 THEN 0 ELSE amount

\* What is left of it after the trading fee and the cut for GMT.
SharedProfit(amount) ==
    AcceptedProfit(amount) - FeeOf(AcceptedProfit(amount), feeConfiguration.tradingFee)
        - FeeOf(AcceptedProfit(amount), ProfitCutRate)

\* The part of the whitelisted accounts, which stays in the pool's token:
\* first the rate is rounded down, then the amount.  The total is read
\* before the calendar is updated, the whitelist's units after.
WhitelistProfit(amount) ==
    LET total == ValueAt(units.total, currentProfitId)
    IN IF total = 0 THEN 0
       ELSE FeeOf(SharedProfit(amount),
                  (FeeBase * ValueAt(UnitsAfter(DueCycles).whitelist, currentProfitId))
                      \div total)

\* Mutant: the profit of the running cycle can be sent.
MutantHasEnded(id) == id <= GetLast(CurrentCycles).id

HasEnded(id) == id < GetLast(CurrentCycles).id

SendProfit(amount, bought) ==
    LET id == currentProfitId
        forWhitelist == WhitelistProfit(amount)
        forPcog == SharedProfit(amount) - forWhitelist
    IN /\ HasEnded(id)
       /\ forPcog = 0 => bought = 0
       /\ UpdateCalendar(DueCycles)
       /\ units' = UnitsAfter(DueCycles)
       /\ profits' = Append([profits EXCEPT
              ![id + 1] = IF forPcog > 0 THEN bought ELSE @], 0)
       /\ profitsForWhitelist' = Append([profitsForWhitelist EXCEPT
              ![id + 1] = forWhitelist], 0)
       /\ currentProfitId' = id + 1
       /\ tokens' = [tokens EXCEPT
              !.core   = @ + FeeOf(AcceptedProfit(amount), feeConfiguration.tradingFee),
              !.profit = @ + forWhitelist]
       /\ pcog' = pcog + bought
       /\ UNCHANGED <<now, settings, liquidity, accountVars, registerVars, shareVars>>

\* What account a can take once its profit info is updated.
TakeableProfitInfo(a, cycles, newUnits) ==
    UpdatedProfitInfo(accountProfitInfo[a], investmentsOf[a], cycles, newUnits)

\* Mutant: what was paid stays in the account that took it.
MutantKeepsProfit(a, to, info) ==
    [accountProfitInfo EXCEPT
        ![a]  = info,
        ![to] = [IF a = to THEN info ELSE @ EXCEPT
                    !.claimedProfit = @ + info.profit,
                    !.claimedProfitForWhitelist = @ + info.profitForWhitelist]]

\* Mutant: the receiver is written first, so that an account which pays
\* itself loses its record of the claim.
MutantForgetsClaim(a, to, info) ==
    [accountProfitInfo EXCEPT
        ![to].claimedProfit = @ + info.profit,
        ![to].claimedProfitForWhitelist = @ + info.profitForWhitelist,
        ![a] = [info EXCEPT !.profit = 0, !.profitForWhitelist = 0]]

\* _handleProfitInfoAndTradingInfo: the account that takes is emptied, the
\* one that receives is credited.
PaidProfitInfo(a, to, info) ==
    LET emptied == [info EXCEPT !.profit = 0, !.profitForWhitelist = 0]
        before  == [accountProfitInfo EXCEPT ![a] = emptied]
    IN [before EXCEPT
           ![to].claimedProfit = @ + info.profit,
           ![to].claimedProfitForWhitelist = @ + info.profitForWhitelist]

TakeProfit(a, to) ==
    LET info == TakeableProfitInfo(a, CurrentCycles, UnitsAfter(DueCycles))
    IN /\ info.profit <= pcog
       /\ info.profitForWhitelist <= tokens.profit
       /\ UpdateCalendar(DueCycles)
       /\ units' = UnitsAfter(DueCycles)
       /\ accountProfitInfo' = PaidProfitInfo(a, to, info)
       /\ pcog' = pcog - info.profit
       /\ tokens' = [tokens EXCEPT !.profit = @ - info.profitForWhitelist]
       /\ UNCHANGED <<now, settings, liquidity, investmentsOf, accountTradingInfo,
                      profitVars, registerVars, shareVars>>

\* updateProfit, for any account and by anybody; the calendar stays.
UpdateProfit(a) ==
    /\ accountProfitInfo' = [accountProfitInfo EXCEPT
           ![a] = TakeableProfitInfo(a, tradingCycles, units)]
    /\ UNCHANGED <<now, settings, calendar, units, liquidity, investmentsOf,
                   accountTradingInfo, profitVars, registerVars, shareVars, tokens, pcog>>

ProfitNext ==
    \/ Next /\ UNCHANGED pcog
    \/ \E amount \in ProfitAmounts, bought \in PcogAmounts \union {0} :
           SendProfit(amount, bought)
    \/ \E a, to \in Accounts : TakeProfit(a, to)
    \/ \E a \in Accounts : UpdateProfit(a)

ProfitSpec == ProfitInit /\ [][ProfitNext]_profitVarsAll

ReturningProfitSpec == ReturningProfitInit /\ [][ProfitNext]_profitVarsAll
----------------------------------------------------------------------------
\* What account a can take, as the views answer.
Takeable(a) == TakeableProfitInfo(a, tradingCycles, units).profit

\* Reference: the share of one cycle, from the units alone.
ShareOfCycle(a, id) ==
    IF ValueAt(units.total, id) <= 0 THEN 0
    ELSE (profits[id + 1] * UnitInCycle(investmentsOf[a], tradingCycles[id + 1]))
             \div ValueAt(units.total, id)

\* However often and whenever accounts are updated, take their profit, pay it
\* to each other or change their investments, what they took and what they
\* can take is their share of every cycle that was settled: no cycle is
\* skipped, counted twice or counted with another cycle's investment.
ProfitMatchesShares ==
    SumFunction([a \in Accounts |-> Takeable(a) + accountProfitInfo[a].claimedProfit])
        = SumFunction([a \in Accounts |->
              SumFunction([id \in 0 .. currentProfitId - 1 |-> ShareOfCycle(a, id)])])

\* PrecogProfit always holds the PCOG for what every account can take, when
\* the units of a cycle are those of its accounts (UnitConservation).
ProfitIsCovered == SumFunction([a \in Accounts |-> Takeable(a)]) <= pcog

\* Once the profit of a cycle has been sent nothing changes the units it is
\* shared by, neither the total nor those of an account: not a deposit, a
\* forced withdrawal or a late update of the calendar.
SettledUnitsAreFinal ==
    [][\A id \in 0 .. currentProfitId - 1 :
          /\ ValueAt(units'.total, id) = ValueAt(units.total, id)
          /\ \A a \in Accounts :
                 UnitInCycle(investmentsOf'[a], tradingCycles[id + 1])
                     = UnitInCycle(investmentsOf[a], tradingCycles[id + 1])]_profitVarsAll
=============================================================================
