-------------------------- MODULE TradingCycleLoop --------------------------
(***************************************************************************)
(* The loop that extends the calendar of a pool one trading cycle at a     *)
(* time, as _updateCurrentTradingCycle (which stores the cycles and may be *)
(* stopped by a limit) and _calculateTradingCycleByTimestamp (which only   *)
(* returns the last one) run it.  PrecogV5Library.tla has closed forms for *)
(* its result: this module justifies them.  Between two calls with a limit *)
(* anybody can ask for the cycle of a later time.                          *)
(***************************************************************************)
EXTENDS PrecogV5Library

CONSTANTS
    Durations,              \* lengths of a cycle, before and after a change
    MaxTimestamp            \* bound of the times the loop is run for

ASSUME LoopAssumption ==
    Durations \subseteq Nat \ {0} /\ MaxTimestamp \in Nat

VARIABLES
    first,                  \* the last stored cycle when the loop starts
    tradingCycle,           \* the configured length
    applyTime,              \* cycles that start before it keep their length
    lastTradingCycle,
    pushed                  \* the cycles stored so far

parameters == <<first, tradingCycle, applyTime>>

LoopInit ==
    /\ \E start \in 0 .. 1, length \in Durations :
           first = [id |-> 0, startTime |-> start, endTime |-> start + length]
    /\ tradingCycle \in Durations
    /\ applyTime \in 0 .. MaxTimestamp
    /\ lastTradingCycle = first
    /\ pushed = <<>>

NewDuration ==
    IF lastTradingCycle.endTime < applyTime
    THEN Duration(lastTradingCycle) ELSE tradingCycle

\* One round of the loop for a block at timestamp.
Push(timestamp) ==
    /\ timestamp >= lastTradingCycle.endTime
    /\ lastTradingCycle' = [id        |-> lastTradingCycle.id + 1,
                            startTime |-> lastTradingCycle.endTime,
                            endTime   |-> lastTradingCycle.endTime + NewDuration]
    /\ pushed' = Append(pushed, lastTradingCycle')
    /\ UNCHANGED parameters

LoopNext == \E timestamp \in 0 .. MaxTimestamp : Push(timestamp)

loopVars == <<parameters, lastTradingCycle, pushed>>

LoopSpec == LoopInit /\ [][LoopNext]_loopVars
----------------------------------------------------------------------------
\* When the loop stops for a timestamp it has run CyclesUntil times, and its
\* last cycle is the one that contains the timestamp.
StopsAtTimestamp ==
    \A timestamp \in 0 .. MaxTimestamp :
        /\ timestamp < lastTradingCycle.endTime
        /\ lastTradingCycle = first \/ timestamp >= lastTradingCycle.startTime
        => /\ Len(pushed) = CyclesUntil(first, tradingCycle, applyTime, timestamp)
           /\ lastTradingCycle = CalculateTradingCycleByTimestamp(
                  first, tradingCycle, applyTime, timestamp)

\* What a view answers for a later time does not depend on how far the
\* calendar has been stored: limited updates change no prediction.
PredictionIsStable ==
    \A timestamp \in lastTradingCycle.startTime .. MaxTimestamp :
        CalculateTradingCycleByTimestamp(lastTradingCycle, tradingCycle, applyTime, timestamp)
            = CalculateTradingCycleByTimestamp(first, tradingCycle, applyTime, timestamp)
=============================================================================
