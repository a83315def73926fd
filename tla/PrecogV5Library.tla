-------------------------- MODULE PrecogV5Library --------------------------
(***************************************************************************)
(* The time and profit arithmetic of libraries/PrecogV5Library.sol.        *)
(* A cycle is [id, startTime, endTime]; it covers startTime <= t < endTime.*)
(* block.timestamp is the parameter now.  The contract computes in         *)
(* uint48/uint256 inside unchecked blocks; the times and amounts of the    *)
(* runs stay far below those widths, so plain integers stand for them.     *)
(***************************************************************************)
EXTENDS Integers, Sequences

IsAppliedChangedCycle(now, applyTime) == now > applyTime

\* The next instant at which deposits start to count.
NextFundingTime(now, start, duration) ==
    IF now < start
    THEN start
    ELSE ((now - start) \div duration + 1) * duration + start

\* Mutant: a first request waits one duration less.
MutantShortFirst(now, start, duration, first) ==
    IF first = 0
    THEN NextFundingTime(now, start, duration)
    ELSE ((now - start) \div duration) * duration + start + first - duration

\* Mutant: a first request waits from the next defunding time on.
MutantLongFirst(now, start, duration, first) ==
    NextFundingTime(now, start, duration) + first

\* The next instant at which a requested withdrawal is paid; a first
\* request (first > 0) waits the longer duration first.
NextDefundingTime(now, start, duration, first) ==
    IF first = 0
    THEN NextFundingTime(now, start, duration)
    ELSE IF now < start
         THEN start + first - duration
         ELSE ((now - start) \div duration) * duration + start + first

----------------------------------------------------------------------------
Duration(cycle) == cycle.endTime - cycle.startTime

\* Mutant: the cycle that reaches over applyTime is not counted.
MutantRoundsDown(last, applyTime) ==
    IF last.endTime < applyTime
    THEN (applyTime - last.endTime) \div Duration(last) ELSE 0

\* How many cycles after last keep its length: those that start before
\* applyTime, where the configured trading duration takes over.
OldLengthCycles(last, applyTime) ==
    IF last.endTime < applyTime
    THEN (applyTime - last.endTime + Duration(last) - 1) \div Duration(last)
    ELSE 0

\* The k-th cycle (k >= 1) that the loop builds after last.
NthCycle(last, duration, applyTime, k) ==
    LET before == k - 1
        old    == IF before < OldLengthCycles(last, applyTime)
                  THEN before ELSE OldLengthCycles(last, applyTime)
        start  == last.endTime + old * Duration(last) + (before - old) * duration
    IN [id        |-> last.id + k,
        startTime |-> start,
        endTime   |-> start + IF before < OldLengthCycles(last, applyTime)
                              THEN Duration(last) ELSE duration]

\* Mutant: a cycle contains its end time.
MutantEndIncluded(last, duration, applyTime, t) ==
    LET m     == OldLengthCycles(last, applyTime)
        pivot == last.endTime + m * Duration(last)
    IN IF t <= last.endTime THEN 0
       ELSE IF t <= pivot THEN (t - last.endTime - 1) \div Duration(last) + 1
       ELSE m + (t - pivot - 1) \div duration + 1

\* How many times the loop runs before the cycle contains t.
CyclesUntil(last, duration, applyTime, t) ==
    LET m     == OldLengthCycles(last, applyTime)
        pivot == last.endTime + m * Duration(last)
    IN IF t < last.endTime THEN 0
       ELSE IF t < pivot THEN (t - last.endTime) \div Duration(last) + 1
       ELSE m + (t - pivot) \div duration + 1

\* The trading cycle that will contain t, or last when t is before its end.
CalculateTradingCycleByTimestamp(last, duration, applyTime, t) ==
    LET k == CyclesUntil(last, duration, applyTime, t)
    IN IF k = 0 THEN last ELSE NthCycle(last, duration, applyTime, k)

----------------------------------------------------------------------------
\* The share of the profit of a cycle that belongs to an investment: its
\* prorated unit in the cycle it changed in, its full weight afterwards.
CalculateProfitAtCycle(cycle, investment, totalUnits, profit) ==
    IF totalUnits <= 0 THEN 0
    ELSE IF cycle.id = investment.idChanged
         THEN (profit * investment.unit) \div totalUnits
         ELSE (profit * investment.amount * Duration(cycle)) \div totalUnits

\* The profit id up to which the j-th investment of a list applies.
ChooseLastAvailableTradingId(investments, j, currentId) ==
    IF j < Len(investments) /\ investments[j + 1].idChanged <= currentId
    THEN investments[j + 1].idChanged
    ELSE currentId
=============================================================================
