--------------------------- MODULE PrecogInternal ---------------------------
(***************************************************************************)
(* The bookkeeping of PrecogInternal.sol for one token, as operators on    *)
(* the values PrecogStorage.sol keeps for it:                              *)
(*   investments  the investments of an account, oldest first; one is      *)
(*                [amount, unit, timestamp, idChanged, isWhitelist]        *)
(*   units        total and whitelist map a cycle id to token * seconds    *)
(*                (a missing id reads as 0); updated is the set of cycles  *)
(*                that already received the units of the liquidity         *)
(*   liquidity    [total, whitelist]                                       *)
(* A book is one account's investments with the units of the pool, the     *)
(* part of the storage an increase or a decrease of an investment writes.  *)
(***************************************************************************)
EXTENDS PrecogV5Library, FiniteSetsExt

ValueAt(map, id) == IF id \in DOMAIN map THEN map[id] ELSE 0

WithValueAt(map, id, value) ==
    [i \in DOMAIN map \union {id} |-> IF i = id THEN value ELSE map[i]]

GetLast(list) == list[Len(list)]

\* Mutant: the replaced investment stays.
MutantKeepsLast(list) == list

PopLast(list) == SubSeq(list, 1, Len(list) - 1)

AddUnits(units, id, unit, whitelistUnit) ==
    [units EXCEPT
        !.total     = WithValueAt(@, id, ValueAt(@, id) + unit),
        !.whitelist = WithValueAt(@, id, ValueAt(@, id) + whitelistUnit)]

\* Mutant: every touch of a cycle adds the units of the liquidity.
MutantAlwaysAdds(units, cycles, liquidity) ==
    LET ids == {c.id : c \in cycles}
        Add(map) ==
            [i \in DOMAIN map \union ids |->
                ValueAt(map, i) + IF i \in ids
                                  THEN liquidity.total
                                       * Duration(CHOOSE c \in cycles : c.id = i)
                                  ELSE 0]
    IN [units EXCEPT !.total = Add(@), !.updated = @ \union ids]

\* The first time a cycle is touched it receives the units that the whole
\* liquidity earns in it.  The updates of several cycles commute.
UpdateTotalUnitsForFirstTime(units, cycles, liquidity) ==
    LET new        == {c \in cycles : c.id \notin units.updated}
        ids        == {c.id : c \in new}
        Earned(id) == Duration(CHOOSE c \in new : c.id = id)
        Add(map, amount) ==
            [i \in DOMAIN map \union ids |->
                ValueAt(map, i) + IF i \in ids THEN amount * Earned(i) ELSE 0]
    IN [total     |-> Add(units.total, liquidity.total),
        whitelist |-> Add(units.whitelist, liquidity.whitelist),
        updated   |-> units.updated \union ids]

----------------------------------------------------------------------------
\* What a change of one account does to the whitelist units of a cycle:
\* nothing unless the account is or was whitelisted; all its units move
\* when its flag flips.
WhitelistUnits(wasWhitelist, isWhitelist, wholeUnit, unit) ==
    IF wasWhitelist = isWhitelist
    THEN IF isWhitelist THEN unit ELSE 0
    ELSE IF isWhitelist THEN wholeUnit ELSE -wholeUnit

\* The investment that an increase by amount at time t in cycle c creates.
IncreasedInvestment(investments, amount, t, c, isWhitelist) ==
    LET unit == amount * (c.endTime - t)
        last == GetLast(investments)
    IN [amount      |-> IF investments = <<>> THEN amount ELSE last.amount + amount,
        unit        |-> IF investments = <<>> THEN unit
                        ELSE IF last.idChanged < c.id
                             THEN last.amount * Duration(c) + unit
                        ELSE IF last.idChanged = c.id
                             THEN last.unit + unit
                        ELSE 0,
        timestamp   |-> t,
        idChanged   |-> c.id,
        isWhitelist |-> isWhitelist]

\* Mutant: a second change in the same cycle is not merged.
MutantOnlyAppends(investments, new) ==
    IF investments = <<>> \/ GetLast(investments).idChanged < new.idChanged
    THEN Append(investments, new) ELSE investments

\* Pushed when it starts a new cycle, merged when the last investment
\* changed in the same cycle, and not stored at all when the last
\* investment changes in a later one.
StoreIncrease(investments, new) ==
    IF investments = <<>> \/ GetLast(investments).idChanged < new.idChanged
    THEN Append(investments, new)
    ELSE IF GetLast(investments).idChanged = new.idChanged
         THEN [investments EXCEPT ![Len(investments)] = new]
         ELSE investments

\* _increaseInvestment.  A first investment of a whitelisted account
\* overwrites the whitelist units of the cycle instead of adding to them.
IncreaseInvestment(book, amount, t, c, liquidity, isWhitelist) ==
    LET invs    == book.investments
        new     == IncreasedInvestment(invs, amount, t, c, isWhitelist)
        unit    == amount * (c.endTime - t)
        touched == UpdateTotalUnitsForFirstTime(book.units, {c}, liquidity)
    IN [investments |-> StoreIncrease(invs, new),
        units       |->
            IF invs = <<>>
            THEN [AddUnits(touched, c.id, unit, 0) EXCEPT
                     !.whitelist = IF isWhitelist
                                   THEN WithValueAt(@, c.id, unit) ELSE @]
            ELSE AddUnits(touched, c.id, unit,
                     WhitelistUnits(GetLast(invs).isWhitelist, isWhitelist,
                                    new.unit, unit))]

----------------------------------------------------------------------------
\* The investment that a decrease by amount at time t in cycle c creates.
DecreasedInvestment(investments, amount, t, c, isWhitelist) ==
    LET last == GetLast(investments)
        unit == amount * (c.endTime - t)
    IN [amount      |-> last.amount - amount,
        unit        |-> IF last.idChanged < c.id
                        THEN last.amount * Duration(c) - unit
                        ELSE last.unit - unit,
        timestamp   |-> last.timestamp,
        idChanged   |-> c.id,
        isWhitelist |-> isWhitelist]

\* _decreaseInvestment.  Unlike an increase, a decrease in an earlier cycle
\* than the last change is merged into it and moves its id back.
DecreaseInvestment(book, amount, t, c, liquidity, isWhitelist) ==
    LET invs    == book.investments
        last    == GetLast(invs)
        new     == DecreasedInvestment(invs, amount, t, c, isWhitelist)
        unit    == amount * (c.endTime - t)
        touched == UpdateTotalUnitsForFirstTime(book.units, {c}, liquidity)
    IN [investments |-> IF last.idChanged < c.id
                        THEN Append(invs, new)
                        ELSE [invs EXCEPT ![Len(invs)] = new],
        units       |-> AddUnits(touched, c.id, -unit,
                            WhitelistUnits(last.isWhitelist, isWhitelist,
                                           new.unit, -unit))]

\* The checked subtractions of a decrease: the transaction reverts when one
\* of them would go below zero.
CanDecreaseInvestment(book, amount, t, c, liquidity, isWhitelist) ==
    /\ book.investments # <<>>
    /\ amount <= GetLast(book.investments).amount
    /\ t <= c.endTime
    /\ DecreasedInvestment(book.investments, amount, t, c, isWhitelist).unit >= 0
    /\ LET units == DecreaseInvestment(book, amount, t, c, liquidity,
                                       isWhitelist).units
       IN units.total[c.id] >= 0 /\ units.whitelist[c.id] >= 0

----------------------------------------------------------------------------
\* What each investment of a list earns in each cycle before currentId, of
\* the profit of the accounts that have its whitelist flag.
ProfitShares(investments, cycles, units, profits, whitelistProfits, currentId) ==
    [j \in DOMAIN investments |-> [id \in 0 .. currentId - 1 |->
        IF investments[j].isWhitelist
        THEN CalculateProfitAtCycle(cycles[id + 1], investments[j],
                 ValueAt(units.whitelist, id), whitelistProfits[id + 1])
        ELSE CalculateProfitAtCycle(cycles[id + 1], investments[j],
                 ValueAt(units.total, id) - ValueAt(units.whitelist, id),
                 profits[id + 1])]]

\* The profit info with what the investment it has reached earns up to the
\* cycle of the next one.
ProfitEarned(info, investments, shares, currentId) ==
    LET j    == info.lastInvestmentId + 1
        last == ChooseLastAvailableTradingId(investments, j, currentId)
        sum  == SumFunction([id \in info.lastProfitId .. last - 1 |-> shares[j][id]])
    IN [info EXCEPT
          !.lastProfitId = IF @ < last THEN last ELSE @,
          !.profit = IF investments[j].isWhitelist THEN @ ELSE @ + sum,
          !.profitForWhitelist = IF investments[j].isWhitelist THEN @ + sum ELSE @]

\* One turn of the loop, which stays at an investment that the next cycle
\* can still earn by, and leaves an account as it is that is up to date.
ProfitStep(info, investments, shares, currentId) ==
    LET j      == info.lastInvestmentId + 1
        earned == ProfitEarned(info, investments, shares, currentId)
        nextIdChanged == IF j < Len(investments) THEN investments[j + 1].idChanged ELSE 0
    IN IF info.lastProfitId = currentId /\ currentId = investments[j].idChanged
       THEN info
       ELSE IF earned.lastProfitId = currentId /\ currentId # nextIdChanged
       THEN earned
       ELSE [earned EXCEPT !.lastInvestmentId = @ + 1]

ProfitWalk(info, investments, shares, currentId) ==
    LET walk[n \in 0 .. Len(investments)] ==
            IF n = 0 THEN info
            ELSE ProfitStep(walk[n - 1], investments, shares, currentId)
    IN walk[Len(investments)]

\* The profit info of an account once the profits of all the cycles before
\* currentId are shared out: each investment, from the one reached last
\* time, earns in the cycles up to the next one.
CalculateProfit(info, investments, cycles, units, profits, whitelistProfits, currentId) ==
    IF info.lastProfitId < currentId
    THEN ProfitWalk(info, investments,
             ProfitShares(investments, cycles, units, profits, whitelistProfits, currentId),
             currentId)
    ELSE info
=============================================================================
