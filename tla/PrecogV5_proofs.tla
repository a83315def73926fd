--------------------------- MODULE PrecogV5_proofs ---------------------------
(***************************************************************************)
(* Proofs about a PrecogV5 pool for every set of accounts and amounts, all *)
(* limits and fees and every cycle configuration in which the funding and  *)
(* the defunding durations coincide, as they do in the one PrecogCore is   *)
(* constructed with.  Without that assumption a deposit can be lost.       *)
(***************************************************************************)
EXTENDS PrecogV5, SequenceTheorems, TLAPS

Cycle == [id : Nat, startTime : Nat, endTime : Nat]

----------------------------------------------------------------------------
\* Time arithmetic: what the integer division of the contracts returns, and
\* which cycle of a calendar of equal cycles contains a time.

\* Division by a positive number: the quotient is the only natural q with
\* x in q * d .. q * d + d - 1.
LEMMA Quotient ==
    ASSUME NEW x \in Nat, NEW d \in Nat \ {0}
    PROVE  /\ x \div d \in Nat
           /\ (x \div d) * d <= x
           /\ x < (x \div d) * d + d
  OBVIOUS

\* Multiplying by a natural keeps the order.
LEMMA ProductIsMonotone ==
    ASSUME NEW p \in Nat, NEW q \in Nat, NEW d \in Nat, p <= q
    PROVE  p * d <= q * d
  <1>1. PICK r \in Nat : q = p + r
    BY q - p \in Nat, q = p + (q - p)
  <1>2. q * d = p * d + r * d
    BY <1>1
  <1>3. r * d \in Nat /\ p * d \in Nat
    OBVIOUS
  <1> QED BY <1>2, <1>3

\* The number whose multiple is reached by x and whose next is not is the
\* quotient.
LEMMA QuotientIsUnique ==
    ASSUME NEW x \in Nat, NEW d \in Nat \ {0}, NEW q \in Nat,
           q * d <= x, x < q * d + d
    PROVE  x \div d = q
  <1> DEFINE p == x \div d
  <1>1. p \in Nat /\ p * d <= x /\ x < p * d + d
    BY Quotient
  <1>2. ~(p < q)
    <2> SUFFICES ASSUME p + 1 <= q PROVE FALSE
      BY <1>1
    <2>1. (p + 1) * d <= q * d
      BY <1>1, ProductIsMonotone
    <2>2. (p + 1) * d = p * d + d
      BY <1>1
    <2> QED BY <1>1, <2>1, <2>2
  <1>3. ~(q < p)
    <2> SUFFICES ASSUME q + 1 <= p PROVE FALSE
      BY <1>1
    <2>1. (q + 1) * d <= p * d
      BY <1>1, ProductIsMonotone
    <2>2. (q + 1) * d = q * d + d
      OBVIOUS
    <2> QED BY <1>1, <2>1, <2>2
  <1> QED BY <1>1, <1>2, <1>3

\* A later time has no smaller quotient.
LEMMA QuotientIsMonotone ==
    ASSUME NEW x \in Nat, NEW y \in Nat, NEW d \in Nat \ {0}, x <= y
    PROVE  x \div d <= y \div d
  <1> DEFINE p == x \div d
             q == y \div d
  <1>1. p \in Nat /\ q \in Nat /\ p * d <= x /\ y < q * d + d
    BY Quotient
  <1> SUFFICES ASSUME q + 1 <= p PROVE FALSE
    BY <1>1
  <1>2. (q + 1) * d <= p * d
    BY <1>1, ProductIsMonotone
  <1>3. (q + 1) * d = q * d + d
    BY <1>1
  <1> QED BY <1>1, <1>2, <1>3

\* Less than d later is at most one cycle later.
LEMMA QuotientOfNext ==
    ASSUME NEW x \in Nat, NEW y \in Nat, NEW d \in Nat \ {0}, y <= x + d
    PROVE  y \div d <= x \div d + 1
  <1>1. x \div d \in Nat /\ (x \div d) * d <= x /\ x < (x \div d) * d + d
    BY Quotient
  <1>2. (x + d) \div d = x \div d + 1
    <2>1. (x \div d + 1) * d = (x \div d) * d + d
      BY <1>1
    <2> QED BY <1>1, <2>1, QuotientIsUnique, x + d \in Nat, x \div d + 1 \in Nat
  <1> QED BY <1>2, QuotientIsMonotone, x + d \in Nat

----------------------------------------------------------------------------
\* The calendar.

\* A row of cycles of length d: the one with id i starts at i * d.
InRow(cycle, d) ==
    /\ cycle \in Cycle
    /\ cycle.startTime = cycle.id * d
    /\ cycle.endTime = cycle.startTime + d

\* In a row of cycles of length d no later cycle keeps another length.
LEMMA RowLengths ==
    ASSUME NEW last, NEW d \in Nat \ {0}, InRow(last, d)
    PROVE  /\ last.endTime = (last.id + 1) * d
           /\ OldLengthCycles(last, d) = 0
           /\ Duration(last) = d
  <1>1. last.id \in Nat /\ last.startTime \in Nat /\ last.endTime \in Nat
    BY DEF Cycle, InRow
  <1>2. last.endTime = (last.id + 1) * d /\ d <= last.endTime
    BY <1>1 DEF InRow
  <1>3. OldLengthCycles(last, d) = 0
    BY <1>1, <1>2 DEF OldLengthCycles
  <1>4. Duration(last) = d
    BY <1>1 DEF Duration, InRow
  <1> QED BY <1>2, <1>3, <1>4

\* The cycles that the loop builds continue the row.
LEMMA NthCycleInRow ==
    ASSUME NEW last, NEW d \in Nat \ {0}, InRow(last, d), NEW k \in Nat \ {0}
    PROVE  /\ InRow(NthCycle(last, d, d, k), d)
           /\ NthCycle(last, d, d, k).id = last.id + k
  <1>1. last.id \in Nat /\ last.endTime \in Nat
    BY DEF Cycle, InRow
  <1>2. NthCycle(last, d, d, k)
          = [id        |-> last.id + k,
             startTime |-> last.endTime + (k - 1) * d,
             endTime   |-> last.endTime + (k - 1) * d + d]
    <2>1. ~(k - 1 < 0)
      OBVIOUS
    <2>2. last.endTime + 0 * d + (k - 1 - 0) * d = last.endTime + (k - 1) * d
      BY <1>1
    <2> QED BY <2>1, <2>2, RowLengths DEF NthCycle
  <1>3. last.endTime + (k - 1) * d = (last.id + k) * d
    BY <1>1, RowLengths
  <1>4. (last.id + k) * d \in Nat /\ last.id + k \in Nat
    BY <1>1
  <1> QED BY <1>2, <1>3, <1>4 DEF Cycle, InRow

\* How often the loop of a row runs before its last cycle contains t.
LEMMA CyclesUntilInRow ==
    ASSUME NEW last, NEW d \in Nat \ {0}, InRow(last, d), NEW t \in Nat
    PROVE  /\ CyclesUntil(last, d, d, t)
                  = IF t < last.endTime THEN 0 ELSE (t - last.endTime) \div d + 1
           /\ CyclesUntil(last, d, d, t) \in Nat
  <1>1. last.endTime \in Nat
    BY DEF Cycle, InRow
  <1>2. last.endTime + 0 * d = last.endTime
    BY <1>1
  <1>3. CyclesUntil(last, d, d, t)
          = IF t < last.endTime THEN 0 ELSE (t - last.endTime) \div d + 1
    BY <1>1, <1>2, RowLengths DEF CyclesUntil
  <1>4. ASSUME last.endTime <= t PROVE (t - last.endTime) \div d \in Nat
    BY <1>1, <1>4, Quotient, t - last.endTime \in Nat
  <1> QED BY <1>1, <1>3, <1>4

\* The cycle of a time has the time's quotient as its id.
LEMMA CycleOfTime ==
    ASSUME NEW last, NEW d \in Nat \ {0}, InRow(last, d), NEW t \in Nat
    PROVE  LET c == CalculateTradingCycleByTimestamp(last, d, d, t)
           IN /\ InRow(c, d)
              /\ last.startTime <= t => c.startTime <= t /\ c.id = t \div d
              /\ t < last.startTime => c = last
  <1>1. last.id \in Nat /\ last.startTime \in Nat /\ last.endTime \in Nat
    BY DEF Cycle, InRow
  <1>2. last.startTime = last.id * d /\ last.endTime = last.startTime + d
    BY DEF InRow
  <1>3. CASE t < last.endTime
    <2>1. CalculateTradingCycleByTimestamp(last, d, d, t) = last
      BY <1>3, CyclesUntilInRow DEF CalculateTradingCycleByTimestamp
    <2>2. last.startTime <= t => last.id = t \div d
      BY <1>1, <1>2, <1>3, QuotientIsUnique
    <2> QED BY <2>1, <2>2
  <1>4. CASE last.endTime <= t
    <2> DEFINE k == (t - last.endTime) \div d + 1
               c == NthCycle(last, d, d, k)
    <2>1. k \in Nat /\ k >= 1 /\ (k - 1) * d <= t - last.endTime
          /\ t - last.endTime < (k - 1) * d + d
      <3> DEFINE r == t - last.endTime
      <3>1. r \in Nat
        BY <1>1, <1>4
      <3>2. r \div d \in Nat /\ (r \div d) * d <= r /\ r < (r \div d) * d + d
        BY <3>1, Quotient
      <3>3. k - 1 = r \div d
        BY <3>2
      <3> QED BY <3>1, <3>2, <3>3
    <2>2. CyclesUntil(last, d, d, t) = k
      BY <1>1, <1>4, CyclesUntilInRow
    <2> HIDE DEF k
    <2>3. CalculateTradingCycleByTimestamp(last, d, d, t) = c
      BY <2>1, <2>2 DEF CalculateTradingCycleByTimestamp
    <2>4. InRow(c, d) /\ c.id = last.id + k
      BY <2>1, NthCycleInRow, k \in Nat \ {0}
    <2>5. (last.id + k) * d = last.endTime + (k - 1) * d
      BY <1>1, <2>1, RowLengths
    <2>6. (last.id + k) * d <= t /\ t < (last.id + k) * d + d
      <3>1. (k - 1) * d \in Nat
        BY <2>1
      <3> QED BY <1>1, <2>1, <2>5, <3>1
    <2>7. last.id + k = t \div d
      BY <1>1, <2>1, <2>6, QuotientIsUnique, last.id + k \in Nat
    <2>8. ~(t < last.startTime)
      BY <1>1, <1>2, <1>4
    <2> QED BY <2>3, <2>4, <2>6, <2>7, <2>8 DEF InRow
  <1> QED BY <1>1, <1>3, <1>4

----------------------------------------------------------------------------
\* Funding and defunding times, counted from time 0.

\* The next funding time is a multiple of the duration, after t and at most
\* one duration later.
LEMMA FundingTimeBounds ==
    ASSUME NEW t \in Nat, NEW d \in Nat \ {0}
    PROVE  /\ NextFundingTime(t, 0, d) = (t \div d + 1) * d
           /\ NextFundingTime(t, 0, d) \in Nat
           /\ t < NextFundingTime(t, 0, d)
           /\ NextFundingTime(t, 0, d) <= t + d
  <1>1. t \div d \in Nat /\ (t \div d) * d <= t /\ t < (t \div d) * d + d
    BY Quotient
  <1>2. NextFundingTime(t, 0, d) = (t \div d + 1) * d
    BY <1>1 DEF NextFundingTime
  <1>3. (t \div d + 1) * d = (t \div d) * d + d
    BY <1>1
  <1>4. (t \div d) * d \in Nat
    BY <1>1
  <1> QED BY <1>1, <1>2, <1>3, <1>4

\* A first request waits at least as long as a further one, and less than a
\* cycle of length p longer.
LEMMA DefundingTimeBounds ==
    ASSUME NEW t \in Nat, NEW d \in Nat \ {0}, NEW p \in Nat,
           NEW first \in Nat \ {0}, (first \div d) * d = first, first <= p
    PROVE  /\ NextDefundingTime(t, 0, d, 0) = NextFundingTime(t, 0, d)
           /\ NextDefundingTime(t, 0, d, first) \in Nat
           /\ NextFundingTime(t, 0, d) <= NextDefundingTime(t, 0, d, first)
           /\ NextDefundingTime(t, 0, d, first) <= t + p
  <1>1. t \div d \in Nat /\ (t \div d) * d <= t
    BY Quotient
  <1>2. NextDefundingTime(t, 0, d, first) = (t \div d) * d + first
    BY <1>1 DEF NextDefundingTime
  <1>3. NextFundingTime(t, 0, d) = (t \div d) * d + d
    <2>1. (t \div d + 1) * d = (t \div d) * d + d
      BY <1>1
    <2> QED BY <2>1, FundingTimeBounds
  <1>4. d <= first
    <2>1. first \div d \in Nat
      BY Quotient
    <2>2. first \div d # 0
      BY <2>1
    <2>3. 1 * d <= (first \div d) * d
      BY <2>1, <2>2, ProductIsMonotone
    <2> QED BY <2>3
  <1>5. (t \div d) * d \in Nat
    BY <1>1
  <1>6. NextDefundingTime(t, 0, d, 0) = NextFundingTime(t, 0, d)
    BY DEF NextDefundingTime
  <1> QED BY <1>1, <1>2, <1>3, <1>4, <1>5, <1>6

----------------------------------------------------------------------------
\* The pool.

\* Deposits and requests take effect at the same times.
Aligned == FundingCycle = DefundingCycle

----------------------------------------------------------------------------
\* Lists.

\* The last element of a list is one of its elements.
LEMMA LastOfList ==
    ASSUME NEW S, NEW list \in Seq(S), list # <<>>
    PROVE  /\ Len(list) \in Nat \ {0}
           /\ GetLast(list) \in S
           /\ GetLast(list) = list[Len(list)]
  BY DEF GetLast

\* A pushed element is the last one, and no other element moves.
LEMMA LastOfAppend ==
    ASSUME NEW S, NEW list \in Seq(S), NEW e \in S
    PROVE  /\ Append(list, e) \in Seq(S)
           /\ Append(list, e) # <<>>
           /\ GetLast(Append(list, e)) = e
           /\ Len(Append(list, e)) = Len(list) + 1
           /\ \A i \in 1 .. Len(list) : Append(list, e)[i] = list[i]
  BY DEF GetLast

\* Without its last element a list ends with the one before.
LEMMA LastRemoved ==
    ASSUME NEW S, NEW list \in Seq(S), Len(list) >= 2
    PROVE  /\ PopLast(list) \in Seq(S)
           /\ PopLast(list) # <<>>
           /\ GetLast(PopLast(list)) = list[Len(list) - 1]
  <1>1. /\ PopLast(list) \in Seq(S)
        /\ Len(PopLast(list)) = Len(list) - 1
        /\ \A i \in 1 .. Len(list) - 1 : PopLast(list)[i] = list[i]
    BY SubSeqProperties, Len(list) - 1 \in Int, 1 \in Int,
       \A i \in 1 .. Len(list) - 1 : list[i] \in S DEF PopLast
  <1> QED BY <1>1 DEF GetLast

\* Two lists in a row end with the last element of the second.
LEMMA LastOfConcat ==
    ASSUME NEW S, NEW list \in Seq(S), NEW tail \in Seq(S)
    PROVE  /\ list \o tail \in Seq(S)
           /\ tail = <<>> => list \o tail = list
           /\ tail # <<>> => /\ list \o tail # <<>>
                             /\ GetLast(list \o tail) = GetLast(tail)
  BY DEF GetLast

----------------------------------------------------------------------------
\* The calendar.

\* What the configuration requires of the durations, one by one.
LEMMA CycleConstants ==
    /\ FirstDefundingCycle \in Nat \ {0}
    /\ FundingCycle \in Nat \ {0}
    /\ DefundingCycle \in Nat \ {0}
    /\ TradingCycle \in Nat \ {0}
    /\ FundingCycle <= TradingCycle
    /\ FirstDefundingCycle <= TradingCycle
    /\ (FirstDefundingCycle \div DefundingCycle) * DefundingCycle
           = FirstDefundingCycle
  BY CycleAssumption

\* Nothing in the calendar's settings is due, so an update keeps them.
LEMMA ChangedInfoIsKept ==
    ASSUME CalendarInv
    PROVE  UpdatedChangedInfo = cyclesChangedInfo
  <1>1. /\ cycleConfiguration.fundingCycle = cyclesChangedInfo.fundingDuration
        /\ cycleConfiguration.firstDefundingCycle
               = cyclesChangedInfo.firstDefundingDuration
        /\ cycleConfiguration.defundingCycle = cyclesChangedInfo.defundingDuration
    BY DEF CalendarInv
  <1>2. UpdatedChangedInfo
          = [cyclesChangedInfo EXCEPT
               !.fundingDuration = cyclesChangedInfo.fundingDuration,
               !.firstDefundingDuration = cyclesChangedInfo.firstDefundingDuration,
               !.defundingDuration = cyclesChangedInfo.defundingDuration]
    BY <1>1 DEF UpdatedChangedInfo
  <1> QED BY <1>2 DEF CalendarInv

\* The last stored cycle is one of the row.
LEMMA StoredCycle ==
    ASSUME AccountTypeOK, CalendarInv
    PROVE  InRow(GetLast(tradingCycles), TradingCycle)
  <1>1. GetLast(tradingCycles) \in Cycle
    BY LastOfList DEF AccountTypeOK, Cycle
  <1> QED BY <1>1 DEF CalendarInv, InRow

\* The cycles an update appends continue the row.
LEMMA NewCyclesInRow ==
    ASSUME AccountTypeOK, CalendarInv, NEW n \in Nat
    PROVE  /\ NewCycles(n) \in Seq(Cycle)
           /\ Len(NewCycles(n)) = n
           /\ \A k \in 1 .. n :
                  /\ InRow(NewCycles(n)[k], TradingCycle)
                  /\ NewCycles(n)[k].id = GetLast(tradingCycles).id + k
  <1>1. \A k \in 1 .. n :
            NewCycles(n)[k] = NthCycle(GetLast(tradingCycles), TradingCycle,
                                       TradingCycle, k)
    BY DEF NewCycles, CalendarInv
  <1>2. \A k \in 1 .. n :
            /\ InRow(NewCycles(n)[k], TradingCycle)
            /\ NewCycles(n)[k].id = GetLast(tradingCycles).id + k
    <2> SUFFICES ASSUME NEW k \in 1 .. n
                 PROVE  LET c == NthCycle(GetLast(tradingCycles), TradingCycle,
                                          TradingCycle, k)
                        IN InRow(c, TradingCycle) /\ c.id = GetLast(tradingCycles).id + k
      BY <1>1
    <2>1. k \in Nat \ {0}
      OBVIOUS
    <2> QED BY <2>1, StoredCycle, NthCycleInRow, CycleConstants
  <1>3. DOMAIN NewCycles(n) = 1 .. n
    BY DEF NewCycles
  <1>4. NewCycles(n) = [k \in 1 .. n |-> NewCycles(n)[k]]
    BY <1>3 DEF NewCycles
  <1>5. NewCycles(n) \in [1 .. n -> Cycle]
    BY <1>2, <1>4 DEF InRow
  <1> QED BY <1>2, <1>5

\* The last cycle of the calendar that a handler works with contains now.
LEMMA LastCurrentCycle ==
    ASSUME AccountTypeOK, CalendarInv
    PROVE  /\ DueCycles \in Nat
           /\ InRow(GetLast(CurrentCycles), TradingCycle)
           /\ GetLast(CurrentCycles).startTime <= now
           /\ GetLast(CurrentCycles).id = now \div TradingCycle
  <1> DEFINE stored == GetLast(tradingCycles)
             n == DueCycles
             c == CalculateTradingCycleByTimestamp(stored, TradingCycle, TradingCycle, now)
  <1>1. n = CyclesUntil(stored, TradingCycle, TradingCycle, now)
    BY DEF DueCycles, CalendarInv
  <1>2. n \in Nat
    BY <1>1, StoredCycle, CyclesUntilInRow, CycleConstants DEF AccountTypeOK
  <1>3. InRow(c, TradingCycle) /\ c.startTime <= now /\ c.id = now \div TradingCycle
    BY StoredCycle, CycleOfTime, CycleConstants DEF AccountTypeOK, CalendarInv
  <1>4. GetLast(CurrentCycles) = c
    <2>1. CASE n = 0
      <3>1. NewCycles(n) = <<>>
        BY <2>1, NewCyclesInRow
      <3>2. CurrentCycles = tradingCycles
        BY <3>1 DEF CurrentCycles, AccountTypeOK
      <3>3. c = stored
        BY <1>1, <2>1 DEF CalculateTradingCycleByTimestamp
      <3> QED BY <3>2, <3>3
    <2>2. CASE n # 0
      <3>1. c = NthCycle(stored, TradingCycle, TradingCycle, n)
        BY <1>1, <2>2 DEF CalculateTradingCycleByTimestamp
      <3>2. NewCycles(n)[n] = c
        BY <1>2, <2>2, <3>1 DEF NewCycles, CalendarInv
      <3>3. /\ NewCycles(n) \in Seq(Cycle)
            /\ Len(NewCycles(n)) = n
        BY <1>2, NewCyclesInRow
      <3>4. GetLast(NewCycles(n)) = c /\ NewCycles(n) # <<>>
        BY <1>2, <2>2, <3>2, <3>3 DEF GetLast
      <3>5. tradingCycles \in Seq(Cycle)
        BY DEF AccountTypeOK, Cycle
      <3> QED BY <3>3, <3>4, <3>5, LastOfConcat DEF CurrentCycles
    <2> QED BY <2>1, <2>2
  <1> QED BY <1>2, <1>3, <1>4

\* A limited update leaves a row that ends with a cycle begun before now.
LEMMA PartialUpdate ==
    ASSUME AccountTypeOK, CalendarInv, NEW n \in 0 .. DueCycles
    PROVE  LET cycles == tradingCycles \o NewCycles(n)
           IN /\ cycles \in Seq(Cycle) /\ cycles # <<>>
              /\ InRow(GetLast(cycles), TradingCycle)
              /\ GetLast(cycles).startTime <= now
  <1> DEFINE stored == GetLast(tradingCycles)
  <1>1. DueCycles \in Nat /\ n \in Nat /\ n <= DueCycles
    BY LastCurrentCycle
  <1>2. NewCycles(n) \in Seq(Cycle) /\ Len(NewCycles(n)) = n
    BY <1>1, NewCyclesInRow
  <1>3. tradingCycles \in Seq(Cycle) /\ tradingCycles # <<>>
    BY DEF AccountTypeOK, Cycle
  <1>4. CASE n = 0
    <2>1. tradingCycles \o NewCycles(n) = tradingCycles
      BY <1>2, <1>3, <1>4
    <2> QED BY <1>3, <2>1, StoredCycle DEF CalendarInv
  <1>5. CASE n # 0
    <2> DEFINE last == NewCycles(n)[n]
    <2>1. InRow(last, TradingCycle) /\ last.id = stored.id + n
      BY <1>1, <1>5, NewCyclesInRow
    <2>2. GetLast(tradingCycles \o NewCycles(n)) = last
      <3>1. NewCycles(n) # <<>> /\ GetLast(NewCycles(n)) = last
        BY <1>1, <1>2, <1>5 DEF GetLast
      <3> QED BY <1>2, <1>3, <3>1, LastOfConcat
    <2>3. last.startTime <= now
      <3>1. stored.id \in Nat /\ stored.endTime \in Nat
            /\ stored.endTime = (stored.id + 1) * TradingCycle
        BY StoredCycle, RowLengths, CycleConstants DEF InRow, Cycle
      <3>2. DueCycles = IF now < stored.endTime THEN 0
                        ELSE (now - stored.endTime) \div TradingCycle + 1
        BY StoredCycle, CyclesUntilInRow, CycleConstants
           DEF DueCycles, CalendarInv, AccountTypeOK
      <3>3. stored.endTime <= now
        BY <1>1, <1>5, <3>1, <3>2 DEF AccountTypeOK
      <3> DEFINE q == (now - stored.endTime) \div TradingCycle
      <3>4. now - stored.endTime \in Nat
        BY <3>1, <3>3 DEF AccountTypeOK
      <3>5. q \in Nat /\ q * TradingCycle <= now - stored.endTime
        BY <3>4, Quotient, CycleConstants
      <3>6. n - 1 \in Nat /\ n - 1 <= q
        BY <1>1, <1>5, <3>1, <3>2, <3>3, <3>5 DEF AccountTypeOK
      <3>7. (n - 1) * TradingCycle <= q * TradingCycle
        BY <3>5, <3>6, ProductIsMonotone, CycleConstants
      <3>8. last.startTime = stored.endTime + (n - 1) * TradingCycle
        BY <1>1, <2>1, <3>1, CycleConstants DEF InRow
      <3>9. (n - 1) * TradingCycle \in Int /\ q * TradingCycle \in Int /\ now \in Nat
        BY <3>5, <3>6, CycleConstants DEF AccountTypeOK
      <3> HIDE DEF q
      <3> QED BY <3>1, <3>5, <3>7, <3>8, <3>9
    <2>4. tradingCycles \o NewCycles(n) \in Seq(Cycle)
          /\ tradingCycles \o NewCycles(n) # <<>>
      BY <1>2, <1>3
    <2> QED BY <2>1, <2>2, <2>3, <2>4
  <1> QED BY <1>4, <1>5

\* The cycle of a time that is not over yet has its quotient as id.
LEMMA CurrentCycleOfTime ==
    ASSUME AccountTypeOK, CalendarInv, NEW t \in Nat
    PROVE  LET c == CycleAt(CurrentCycles, t)
           IN /\ InRow(c, TradingCycle)
              /\ c.id = (IF now <= t THEN t ELSE now) \div TradingCycle
  <1> DEFINE last == GetLast(CurrentCycles)
             c == CycleAt(CurrentCycles, t)
  <1>1. InRow(last, TradingCycle) /\ last.startTime <= now
        /\ last.id = now \div TradingCycle
    BY LastCurrentCycle
  <1>2. c = CalculateTradingCycleByTimestamp(last, TradingCycle, TradingCycle, t)
    BY DEF CycleAt, CalendarInv
  <1>3. /\ InRow(c, TradingCycle)
        /\ last.startTime <= t => c.id = t \div TradingCycle
        /\ t < last.startTime => c = last
    BY <1>1, <1>2, CycleOfTime, CycleConstants
  <1>4. now \in Nat /\ last.startTime \in Nat
    BY <1>1 DEF AccountTypeOK, InRow, Cycle
  <1>5. ASSUME last.startTime <= t, t < now
        PROVE  t \div TradingCycle = now \div TradingCycle
    <2>1. t < last.startTime + TradingCycle
      <3>1. now < (now \div TradingCycle) * TradingCycle + TradingCycle
        BY <1>4, Quotient, CycleConstants
      <3>2. last.startTime = (now \div TradingCycle) * TradingCycle
        BY <1>1 DEF InRow
      <3>3. now < last.startTime + TradingCycle
        BY <3>1, <3>2
      <3> QED BY <1>4, <1>5, <3>3, CycleConstants
    <2>2. last.id \in Nat /\ last.startTime = last.id * TradingCycle
      BY <1>1 DEF InRow, Cycle
    <2>3. t \div TradingCycle = last.id
      BY <1>5, <2>1, <2>2, QuotientIsUnique, CycleConstants
    <2> QED BY <1>1, <2>3
  <1> QED BY <1>1, <1>3, <1>4, <1>5

\* The funding time is in the future, at most a cycle away.
LEMMA FundingTimeFacts ==
    ASSUME AccountTypeOK, CalendarInv
    PROVE  /\ FundingTime = NextFundingTime(now, 0, FundingCycle)
           /\ FundingTime \in Nat
           /\ now < FundingTime
           /\ FundingTime <= now + FundingCycle
           /\ FundingTime \div TradingCycle = FundingId
           /\ FundingId \in Nat
           /\ now \div TradingCycle <= FundingId
           /\ InRow(FutureCycle, TradingCycle)
           /\ FutureCycle.id = FundingId
  <1>1. FundingTime = NextFundingTime(now, 0, FundingCycle)
    BY ChangedInfoIsKept DEF FundingTime, CalendarInv
  <1>2. now \in Nat
    BY DEF AccountTypeOK
  <1>3. /\ FundingTime = (now \div FundingCycle + 1) * FundingCycle
        /\ FundingTime \in Nat
        /\ now < FundingTime
        /\ FundingTime <= now + FundingCycle
    BY <1>1, <1>2, FundingTimeBounds, CycleConstants
  <1>4. FundingTime \div TradingCycle = FundingId
    BY <1>3 DEF FundingId
  <1>5. FundingId \in Nat
    BY <1>3, <1>4, Quotient, CycleConstants
  <1>6. now \div TradingCycle <= FundingId
    BY <1>2, <1>3, <1>4, QuotientIsMonotone, CycleConstants
  <1>7. InRow(FutureCycle, TradingCycle) /\ FutureCycle.id = FundingId
    <2>1. now <= FundingTime
      BY <1>2, <1>3
    <2> QED BY <1>3, <1>4, <2>1, CurrentCycleOfTime DEF FutureCycle
  <1> QED BY <1>1, <1>3, <1>4, <1>5, <1>6, <1>7

\* When a request leaves the pool and when its register unlocks: they differ
\* only for a further request while the register is locked.
LEMMA RequestTimes ==
    ASSUME Aligned, AccountTypeOK, CalendarInv, NEW a \in Accounts
    PROVE  /\ DefundingTime(a) \in Nat /\ now <= DefundingTime(a)
           /\ LockTime(a) \in Nat /\ now <= LockTime(a)
           /\ isNotFirstWithdrawal[a] => DefundingTime(a) = FundingTime
           /\ IsInDeadline(a) => LockTime(a) = register[a].deadline
           /\ IsInDeadline(a) /\ ~isNotFirstWithdrawal[a] =>
                  DefundingTime(a) = register[a].deadline
           /\ ~IsInDeadline(a) => LockTime(a) = DefundingTime(a)
           /\ isNotFirstWithdrawal[a] \/ ~IsInDeadline(a) =>
                  DefundingTime(a) \div TradingCycle \in FundingId .. FundingId + 1
  <1> DEFINE next == NextDefundingTime(now, 0, DefundingCycle, 0)
             first == NextDefundingTime(now, 0, DefundingCycle, FirstDefundingCycle)
  <1>1. /\ now \in Nat
        /\ register[a].deadline \in Nat
        /\ isNotFirstWithdrawal[a] \in BOOLEAN
    BY DEF AccountTypeOK
  <1>2. /\ next = FundingTime
        /\ first \in Nat
        /\ FundingTime <= first
        /\ first <= now + TradingCycle
    <2> DEFINE fund == NextFundingTime(now, 0, DefundingCycle)
    <2>1. /\ next = fund
          /\ first \in Nat
          /\ fund <= first
          /\ first <= now + TradingCycle
      BY <1>1, DefundingTimeBounds, CycleConstants
    <2>2. fund = FundingTime
      BY FundingTimeFacts DEF Aligned
    <2> QED BY <2>1, <2>2
  <1>3. DefundingTime(a) = IF isNotFirstWithdrawal[a] THEN next
                           ELSE IF IsInDeadline(a) THEN register[a].deadline ELSE first
    BY ChangedInfoIsKept DEF DefundingTime, CalendarInv
  <1>4. LockTime(a) = IF IsInDeadline(a) THEN register[a].deadline
                      ELSE IF isNotFirstWithdrawal[a] THEN next ELSE first
    BY ChangedInfoIsKept DEF LockTime, CalendarInv
  <1>5. IsInDeadline(a) => now <= register[a].deadline
    BY <1>1 DEF IsInDeadline
  <1>6. FundingTime \in Nat /\ now < FundingTime /\ FundingId \in Nat
        /\ FundingTime \div TradingCycle = FundingId
        /\ now \div TradingCycle <= FundingId
    BY FundingTimeFacts
  <1>7. first \div TradingCycle \in FundingId .. FundingId + 1
    <2>1. FundingId <= first \div TradingCycle
      BY <1>2, <1>6, QuotientIsMonotone, CycleConstants
    <2>2. first \div TradingCycle <= now \div TradingCycle + 1
      BY <1>1, <1>2, QuotientOfNext, CycleConstants
    <2>3. first \div TradingCycle \in Nat /\ now \div TradingCycle \in Nat
      BY <1>1, <1>2, Quotient, CycleConstants
    <2> QED BY <1>6, <2>1, <2>2, <2>3
  <1> HIDE DEF next, first
  <1> QED BY <1>1, <1>2, <1>3, <1>4, <1>5, <1>6, <1>7

----------------------------------------------------------------------------
\* Investments.

\* A fee is never more than the amount it is taken from.
LEMMA FeeIsPart ==
    ASSUME NEW amount \in Nat, NEW rate \in 0 .. FeeBase
    PROVE  FeeOf(amount, rate) \in 0 .. amount
  <1>1. FeeBase \in Nat \ {0} /\ rate \in Nat
    BY AmountAssumption
  <1>2. amount * rate \in Nat /\ amount * rate = rate * amount
    BY <1>1
  <1>3. rate * amount <= FeeBase * amount
    BY <1>1, ProductIsMonotone
  <1>4. FeeOf(amount, rate) \in Nat
    BY <1>1, <1>2, Quotient DEF FeeOf
  <1>5. (FeeBase * amount) \div FeeBase = amount
    <2>1. amount * FeeBase <= FeeBase * amount /\ FeeBase * amount < amount * FeeBase + FeeBase
      BY <1>1
    <2> QED BY <1>1, <2>1, QuotientIsUnique, FeeBase * amount \in Nat
  <1>6. FeeOf(amount, rate) <= amount
    BY <1>1, <1>2, <1>3, <1>5, QuotientIsMonotone, FeeBase * amount \in Nat DEF FeeOf
  <1> QED BY <1>4, <1>6

\* What an increase in cycle c does to a list: it adds to the last
\* investment, unless that one changes in a later cycle than c.
LEMMA IncreaseFacts ==
    ASSUME NEW old \in Seq(InvestmentType), NEW book, book.investments = old,
           NEW x \in Nat, NEW t \in Nat, NEW c \in Cycle, NEW w \in BOOLEAN, NEW l,
           NEW new, new = IncreaseInvestment(book, x, t, c, l, w).investments
    PROVE  /\ new \in Seq(InvestmentType)
           /\ old = <<>> \/ GetLast(old).idChanged <= c.id =>
                  /\ new # <<>>
                  /\ GetLast(new).timestamp = t
                  /\ GetLast(new).idChanged = c.id
                  /\ GetLast(new).amount =
                         IF old = <<>> THEN x ELSE GetLast(old).amount + x
           /\ old # <<>> /\ GetLast(old).idChanged = c.id =>
                  /\ Len(new) = Len(old)
                  /\ \A i \in 1 .. Len(old) - 1 : new[i] = old[i]
           /\ old # <<>> /\ GetLast(old).idChanged > c.id => new = old
  <1> DEFINE last == GetLast(old)
             e == IncreasedInvestment(old, x, t, c, w)
  <1>1. new = StoreIncrease(old, e)
    BY DEF IncreaseInvestment
  <1>2. c.id \in Nat /\ c.startTime \in Nat /\ c.endTime \in Nat
    BY DEF Cycle
  <1>3. old # <<>> => last \in InvestmentType
    BY LastOfList
  <1>4. old # <<>> => /\ last.amount \in Nat /\ last.unit \in Int
                      /\ last.idChanged \in Nat
    BY <1>3 DEF InvestmentType
  <1>5. /\ e.amount = IF old = <<>> THEN x ELSE last.amount + x
        /\ e.timestamp = t
        /\ e.idChanged = c.id
    BY DEF IncreasedInvestment
  <1>6. e \in InvestmentType
    <2> DEFINE unit == x * (c.endTime - t)
    <2>1. unit \in Int
      BY <1>2
    <2>2. old # <<>> => last.amount * Duration(c) \in Int
      BY <1>2, <1>4 DEF Duration
    <2> HIDE DEF unit
    <2>3. e = [amount |-> e.amount, unit |-> e.unit, timestamp |-> t,
               idChanged |-> c.id, isWhitelist |-> w]
      BY DEF IncreasedInvestment
    <2>4. e.amount \in Nat
      BY <1>4, <1>5
    <2>5. e.unit = IF old = <<>> THEN unit
                   ELSE IF last.idChanged < c.id THEN last.amount * Duration(c) + unit
                   ELSE IF last.idChanged = c.id THEN last.unit + unit ELSE 0
      BY DEF IncreasedInvestment, unit
    <2>6. e.unit \in Int
      BY <1>4, <2>1, <2>2, <2>5
    <2> HIDE DEF e
    <2> QED BY <1>2, <2>3, <2>4, <2>6 DEF InvestmentType
  <1> HIDE DEF e
  <1>7. CASE old = <<>> \/ last.idChanged < c.id
    <2>1. new = Append(old, e)
      BY <1>1, <1>5, <1>7 DEF StoreIncrease
    <2> QED BY <1>1, <1>2, <1>4, <1>5, <1>6, <1>7, <2>1, LastOfAppend
  <1>8. CASE old # <<>> /\ last.idChanged = c.id
    <2>1. new = [old EXCEPT ![Len(old)] = e]
      BY <1>1, <1>4, <1>5, <1>8 DEF StoreIncrease
    <2>2. /\ new \in Seq(InvestmentType)
          /\ new # <<>>
          /\ GetLast(new) = e
          /\ Len(new) = Len(old)
          /\ \A i \in 1 .. Len(old) - 1 : new[i] = old[i]
      BY <1>6, <1>8, <2>1 DEF GetLast
    <2> QED BY <1>2, <1>4, <1>5, <1>8, <2>2
  <1>9. CASE old # <<>> /\ last.idChanged > c.id
    <2>1. new = old
      BY <1>1, <1>2, <1>4, <1>5, <1>9 DEF StoreIncrease
    <2> QED BY <1>1, <1>2, <1>4, <1>9, <2>1
  <1> QED BY <1>2, <1>4, <1>7, <1>8, <1>9

\* The types of one account's part of the storage.
LEMMA AccountTypes ==
    ASSUME AccountTypeOK, NEW a \in Accounts
    PROVE  /\ now \in Nat
           /\ investmentsOf[a] \in Seq(InvestmentType)
           /\ investmentsOf[a] # <<>> =>
                  /\ Investment(a) = investmentsOf[a][Len(investmentsOf[a])]
                  /\ Len(investmentsOf[a]) \in Nat \ {0}
                  /\ Investment(a) \in InvestmentType
                  /\ Investment(a).amount \in Nat
                  /\ Investment(a).unit \in Int
                  /\ Investment(a).timestamp \in Nat
                  /\ Investment(a).idChanged \in Nat
           /\ register[a] \in [amount : Nat, deadline : Nat]
           /\ register[a].amount \in Nat
           /\ register[a].deadline \in Nat
           /\ accountTradingInfo[a] \in
                  [depositedTimestampOf : Nat, availableAmount : Nat,
                   isNotFirstIncreaseInvestment : BOOLEAN]
           /\ accountTradingInfo[a].availableAmount \in Nat
           /\ accountTradingInfo[a].depositedTimestampOf \in Nat
           /\ AvailableDepositedAmount(a) \in Nat
           /\ isNotFirstWithdrawal[a] \in BOOLEAN
           /\ ipcog[a] \in Nat
  <1>1. investmentsOf[a] \in Seq(InvestmentType)
    BY DEF AccountTypeOK
  <1>2. ASSUME investmentsOf[a] # <<>>
        PROVE  /\ Investment(a) = investmentsOf[a][Len(investmentsOf[a])]
               /\ Len(investmentsOf[a]) \in Nat \ {0}
               /\ Investment(a) \in InvestmentType
               /\ Investment(a).amount \in Nat
               /\ Investment(a).unit \in Int
               /\ Investment(a).timestamp \in Nat
               /\ Investment(a).idChanged \in Nat
    <2>1. Investment(a) \in InvestmentType
      BY <1>1, <1>2, LastOfList DEF Investment
    <2> QED BY <1>1, <1>2, <2>1, LastOfList DEF Investment, InvestmentType
  <1>3. accountTradingInfo[a] \in
            [depositedTimestampOf : Nat, availableAmount : Nat,
             isNotFirstIncreaseInvestment : BOOLEAN]
    BY DEF AccountTypeOK
  <1>4. AvailableDepositedAmount(a) \in Nat
    BY <1>3 DEF AvailableDepositedAmount
  <1>5. register[a] \in [amount : Nat, deadline : Nat]
    BY DEF AccountTypeOK
  <1>6. now \in Nat /\ isNotFirstWithdrawal[a] \in BOOLEAN /\ ipcog[a] \in Nat
    BY DEF AccountTypeOK
  <1> QED BY <1>1, <1>2, <1>3, <1>4, <1>5, <1>6

----------------------------------------------------------------------------
\* The handlers.

\* What is true of an account when the deposit handler takes one branch or
\* the other: the new amount is counted from the funding cycle on, or the
\* pending request stays the last investment.
FreshOutcome(a, invs, reg) ==
    /\ GetLast(invs).idChanged = FundingId
    /\ GetLast(invs).timestamp = FundingTime
    /\ \/ reg = [amount |-> 0, deadline |-> now]
       \/ reg = register[a] /\ (IsInDeadline(a) => UnlockId(a) <= FundingId)

PendingOutcome(a, invs, reg) ==
    /\ investmentsOf[a] # <<>>
    /\ Investment(a).idChanged > FundingId
    /\ GetLast(invs).idChanged = Investment(a).idChanged
    /\ GetLast(invs).timestamp \in {register[a].deadline, Investment(a).timestamp}
    /\ Len(invs) = Len(investmentsOf[a])
    /\ invs[Len(invs) - 1] = investmentsOf[a][Len(invs) - 1]
    /\ \/ reg = [amount |-> 0, deadline |-> now]
       \/ reg.deadline = register[a].deadline /\ register[a].amount > 0

\* What a deposit makes of the account: the new investment and register hold
\* what the old ones held and the new deposit, in one of the two outcomes.
LEMMA HandleIncreaseFacts ==
    ASSUME AccountTypeOK, CalendarInv, NEW a \in Accounts, AccountInv(a),
           NEW x \in Nat, NEW w \in BOOLEAN
    PROVE  LET done == HandleIncrease(a, x, w)
               invs == done.book.investments
           IN /\ invs \in Seq(InvestmentType)
              /\ invs # <<>>
              /\ done.deposited \in Nat
              /\ done.register \in [amount : Nat, deadline : Nat]
              /\ GetLast(invs).amount + done.register.amount
                     = InvestedAmount(a) + register[a].amount + done.deposited
              /\ AvailableDepositedAmount(a) + done.deposited <= GetLast(invs).amount
              /\ \/ FreshOutcome(a, invs, done.register)
                 \/ /\ PendingOutcome(a, invs, done.register)
                    /\ done.deposited = 0
  <1> DEFINE done == HandleIncrease(a, x, w)
             old == investmentsOf[a]
             book == [investments |-> old, units |-> UnitsAfter(DueCycles)]
             Increase(b, y, t) ==
                 IncreaseInvestment(b, y, t, CycleAt(CurrentCycles, t), liquidity, w)
             fresh == Increase(book, x, FundingTime)
             pending == register[a]
             last == Investment(a)
             back == Increase(book, x, pending.deadline)
             restored == Increase(book, pending.amount, pending.deadline)
             popped == [restored EXCEPT !.investments = PopLast(@)]
             added == Increase(popped, x - pending.amount, FundingTime)
  <1>1. /\ now \in Nat /\ old \in Seq(InvestmentType)
        /\ pending \in [amount : Nat, deadline : Nat]
        /\ pending.amount \in Nat /\ pending.deadline \in Nat
        /\ AvailableDepositedAmount(a) \in Nat
    BY AccountTypes
  <1>2. FundingTime \in Nat /\ now < FundingTime /\ FundingId \in Nat
        /\ now \div TradingCycle <= FundingId
        /\ FutureCycle = CycleAt(CurrentCycles, FundingTime)
        /\ FutureCycle.id = FundingId /\ FutureCycle \in Cycle
    BY FundingTimeFacts DEF FutureCycle, InRow
  <1>3. old # <<>> => /\ last = GetLast(old)
                      /\ last.amount \in Nat /\ last.idChanged \in Nat
    BY AccountTypes DEF Investment
  <1>4. book.investments = old
    OBVIOUS
  <1>5. CASE old = <<>> \/ FundingId >= last.idChanged
    <2>1. done = [book |-> fresh, register |-> pending, deposited |-> x]
      BY <1>2, <1>5 DEF HandleIncrease
    <2>2. /\ fresh.investments \in Seq(InvestmentType)
          /\ fresh.investments # <<>>
          /\ GetLast(fresh.investments).idChanged = FundingId
          /\ GetLast(fresh.investments).timestamp = FundingTime
          /\ GetLast(fresh.investments).amount
                 = IF old = <<>> THEN x ELSE last.amount + x
      <3> DEFINE new == fresh.investments
      <3>1. new = IncreaseInvestment(book, x, FundingTime, FutureCycle, liquidity,
                                     w).investments
        BY <1>2
      <3> HIDE DEF book, new
      <3> QED BY <1>1, <1>2, <1>3, <1>4, <1>5, <3>1, IncreaseFacts
    <2>3. CASE old = <<>>
      <3>1. NewAccount(a)
        BY <2>3 DEF AccountInv
      <3>2. pending = [amount |-> 0, deadline |-> 0] /\ AvailableDepositedAmount(a) = 0
        BY <3>1 DEF NewAccount
      <3>3. IsInDeadline(a) => UnlockId(a) <= FundingId
        BY <1>1, <1>2, <3>2 DEF IsInDeadline, UnlockId
      <3>4. InvestedAmount(a) = 0
        BY <2>3 DEF InvestedAmount
      <3> HIDE DEF fresh
      <3> QED BY <1>1, <2>1, <2>2, <2>3, <3>2, <3>3, <3>4 DEF FreshOutcome
    <2>4. CASE old # <<>>
      <3>1. InvestorInv(a)
        BY <2>4 DEF AccountInv
      <3>2. IsInDeadline(a) => UnlockId(a) <= FundingId
        <4> SUFFICES ASSUME IsInDeadline(a) PROVE UnlockId(a) <= FundingId
          OBVIOUS
        <4>1. UnlockId(a) <= last.idChanged /\ last.idChanged <= FundingId
          BY <1>2, <1>3, <1>5, <2>4, <3>1 DEF InvestorInv
        <4>2. UnlockId(a) \in Nat
          BY <1>1, Quotient, CycleConstants DEF UnlockId
        <4> QED BY <1>2, <1>3, <2>4, <4>1, <4>2
      <3>3. AvailableDepositedAmount(a) <= last.amount
        BY <3>1 DEF InvestorInv
      <3>4. InvestedAmount(a) = last.amount
        BY <2>4 DEF InvestedAmount
      <3> HIDE DEF fresh
      <3> QED BY <1>1, <1>3, <2>1, <2>2, <2>4, <3>2, <3>3, <3>4 DEF FreshOutcome
    <2> QED BY <2>3, <2>4
  <1>6. CASE old # <<>> /\ FundingId < last.idChanged
    <2> DEFINE previous == old[Len(old) - 1]
               d == CycleAt(CurrentCycles, pending.deadline)
    <2>1. InvestorInv(a) /\ PendingRequest(a)
      BY <1>2, <1>3, <1>6 DEF AccountInv, InvestorInv
    <2>2. /\ Len(old) >= 2
          /\ previous.amount = last.amount + pending.amount
          /\ previous.idChanged <= FundingId
          /\ pending.amount > 0 => UnlockId(a) = last.idChanged
          /\ AvailableDepositedAmount(a) = 0
          /\ InvestedAmount(a) = last.amount
      BY <1>6, <2>1 DEF PendingRequest, InvestedAmount
    <2>3. /\ previous \in InvestmentType
          /\ previous.amount \in Nat /\ previous.idChanged \in Nat
      <3>1. Len(old) - 1 \in 1 .. Len(old)
        BY <1>1, <2>2
      <3>2. previous \in InvestmentType
        BY <1>1, <3>1
      <3> QED BY <3>2 DEF InvestmentType
    <2>4. d \in Cycle /\ d.id = UnlockId(a) /\ d.id \in Nat
      BY <1>1, CurrentCycleOfTime DEF InRow, Cycle, UnlockId, IsInDeadline
    <2>5. d.id <= last.idChanged
      <3>1. CASE IsInDeadline(a)
        BY <2>1, <2>4, <3>1 DEF InvestorInv
      <3>2. CASE ~IsInDeadline(a)
        <4>1. now \div TradingCycle \in Nat
          BY <1>1, Quotient, CycleConstants
        <4> QED BY <1>2, <1>3, <1>6, <2>4, <3>2, <4>1 DEF UnlockId
      <3> QED BY <3>1, <3>2
    \* What is given back at the deadline is merged into the last investment.
    <2>6. ASSUME NEW y \in Nat, y > 0 => pending.amount > 0, NEW r,
                 r = IncreaseInvestment(book, y, pending.deadline, d, liquidity, w).investments
          PROVE  /\ r \in Seq(InvestmentType)
                 /\ r # <<>>
                 /\ Len(r) = Len(old)
                 /\ r[Len(old) - 1] = previous
                 /\ GetLast(r).idChanged = last.idChanged
                 /\ GetLast(r).timestamp \in {pending.deadline, last.timestamp}
                 /\ GetLast(r).amount = last.amount + y
      <3> HIDE DEF book, d
      <3>1. /\ r \in Seq(InvestmentType)
            /\ last.idChanged <= d.id =>
                   /\ r # <<>>
                   /\ GetLast(r).idChanged = d.id
                   /\ GetLast(r).timestamp = pending.deadline
                   /\ GetLast(r).amount = last.amount + y
            /\ last.idChanged = d.id =>
                   /\ Len(r) = Len(old)
                   /\ \A i \in 1 .. Len(old) - 1 : r[i] = old[i]
            /\ last.idChanged > d.id => r = old
        BY <1>1, <1>3, <1>4, <1>6, <2>4, <2>6, IncreaseFacts, SMTT(60)
      <3>2. Len(old) - 1 \in 1 .. Len(old) - 1
        BY <1>1, <2>2
      <3>3. CASE d.id = last.idChanged
        BY <2>4, <3>1, <3>2, <3>3
      <3>4. CASE d.id < last.idChanged
        <4>1. pending.amount = 0
          BY <1>1, <2>2, <2>4, <3>4
        <4>2. y = 0
          BY <2>6, <4>1
        <4>3. r = old
          BY <1>3, <1>6, <2>4, <3>1, <3>4
        <4> QED BY <1>1, <1>3, <1>6, <4>2, <4>3
      <3> QED BY <1>3, <1>6, <2>4, <2>5, <3>3, <3>4
    <2>7. CASE x < pending.amount
      <3>1. done = [book |-> back, register |-> [pending EXCEPT !.amount = @ - x],
                    deposited |-> 0]
        BY <1>2, <1>3, <1>6, <2>7 DEF HandleIncrease
      <3>2. /\ back.investments \in Seq(InvestmentType)
            /\ back.investments # <<>>
            /\ Len(back.investments) = Len(old)
            /\ back.investments[Len(old) - 1] = previous
            /\ GetLast(back.investments).idChanged = last.idChanged
            /\ GetLast(back.investments).timestamp
                   \in {pending.deadline, last.timestamp}
            /\ GetLast(back.investments).amount = last.amount + x
        BY <1>1, <2>6, <2>7
      <3> HIDE DEF back
      <3>3. /\ done.register \in [amount : Nat, deadline : Nat]
            /\ done.register.amount = pending.amount - x
            /\ done.register.deadline = pending.deadline
        BY <1>1, <2>7, <3>1
      <3>4. PendingOutcome(a, back.investments, done.register)
        BY <1>1, <1>2, <1>3, <1>6, <2>7, <3>2, <3>3 DEF PendingOutcome
      <3>5. done.book.investments = back.investments /\ done.deposited = 0
        BY <3>1
      <3> HIDE DEF done
      <3>6. GetLast(back.investments).amount + done.register.amount
                = InvestedAmount(a) + register[a].amount + done.deposited
        BY <1>1, <1>3, <1>6, <2>2, <2>7, <3>2, <3>3, <3>5
      <3>7. AvailableDepositedAmount(a) + done.deposited <= GetLast(back.investments).amount
        BY <1>3, <1>6, <2>2, <3>2, <3>5
      <3> QED BY <3>2, <3>3, <3>4, <3>5, <3>6, <3>7 DEF done
    <2>8. CASE x = pending.amount
      <3>1. done = [book |-> back, register |-> [amount |-> 0, deadline |-> now],
                    deposited |-> 0]
        BY <1>2, <1>3, <1>6, <2>8 DEF HandleIncrease
      <3>2. /\ back.investments \in Seq(InvestmentType)
            /\ back.investments # <<>>
            /\ Len(back.investments) = Len(old)
            /\ back.investments[Len(old) - 1] = previous
            /\ GetLast(back.investments).idChanged = last.idChanged
            /\ GetLast(back.investments).timestamp
                   \in {pending.deadline, last.timestamp}
            /\ GetLast(back.investments).amount = last.amount + x
        BY <1>1, <2>6, <2>8
      <3> HIDE DEF back
      <3>3. PendingOutcome(a, back.investments, done.register)
        BY <1>1, <1>2, <1>3, <1>6, <3>1, <3>2 DEF PendingOutcome
      <3> QED BY <1>1, <1>3, <1>6, <2>2, <2>8, <3>1, <3>2, <3>3
    <2>9. CASE x > pending.amount
      <3>1. /\ done.book.investments = added.investments
            /\ done.register = [amount |-> 0, deadline |-> now]
            /\ done.deposited = x - pending.amount
        BY <1>1, <1>2, <1>3, <1>6, <2>9 DEF HandleIncrease
      <3>2. /\ restored.investments \in Seq(InvestmentType)
            /\ Len(restored.investments) = Len(old)
            /\ restored.investments[Len(old) - 1] = previous
        BY <1>1, <2>6
      <3>3. popped.investments = PopLast(restored.investments)
        BY DEF IncreaseInvestment
      <3>4. /\ popped.investments \in Seq(InvestmentType)
            /\ popped.investments # <<>>
            /\ GetLast(popped.investments) = previous
        BY <2>2, <3>2, <3>3, LastRemoved
      <3>5. /\ added.investments \in Seq(InvestmentType)
            /\ added.investments # <<>>
            /\ GetLast(added.investments).idChanged = FundingId
            /\ GetLast(added.investments).timestamp = FundingTime
            /\ GetLast(added.investments).amount
                   = previous.amount + (x - pending.amount)
        <4> DEFINE new == added.investments
                   list == popped.investments
        <4>1. x - pending.amount \in Nat
          BY <1>1, <2>9
        <4>2. new = IncreaseInvestment(popped, x - pending.amount, FundingTime,
                                       FutureCycle, liquidity, w).investments
          BY <1>2
        <4>3. popped.investments = list
          OBVIOUS
        <4>4. /\ list \in Seq(InvestmentType) /\ list # <<>>
              /\ GetLast(list) = previous
          BY <3>4
        <4> HIDE DEF popped, new, list, previous
        <4>5. /\ new \in Seq(InvestmentType)
              /\ new # <<>>
              /\ GetLast(new).idChanged = FundingId
              /\ GetLast(new).timestamp = FundingTime
              /\ GetLast(new).amount = previous.amount + (x - pending.amount)
          BY <1>2, <2>2, <2>3, <4>1, <4>2, <4>3, <4>4, IncreaseFacts, SMTT(60)
        <4> QED BY <4>5 DEF new
      <3> HIDE DEF added
      <3>6. FreshOutcome(a, added.investments, done.register)
        BY <3>1, <3>5 DEF FreshOutcome
      <3> QED BY <1>1, <1>3, <1>6, <2>2, <2>3, <2>9, <3>1, <3>5, <3>6
    <2> QED BY <1>1, <2>7, <2>8, <2>9
  <1> QED BY <1>2, <1>3, <1>5, <1>6

\* The inductive invariant.
IInv == AccountTypeOK /\ CalendarInv /\ \A a \in Accounts : AccountInv(a)

\* A pool starts with nothing invested and a calendar of one cycle.
LEMMA InitIInv == Init => IInv
  <1> SUFFICES ASSUME Init PROVE IInv
    OBVIOUS
  <1>1. AccountTypeOK
    <2>1. <<>> \in Seq(InvestmentType)
      OBVIOUS
    <2>2. <<[id |-> 0, startTime |-> 0, endTime |-> TradingCycle]>>
              \in Seq([id : Nat, startTime : Nat, endTime : Nat])
      BY CycleConstants
    <2>3. <<[id |-> 0, startTime |-> 0, endTime |-> TradingCycle]>> # <<>>
      OBVIOUS
    <2> QED BY <2>1, <2>2, <2>3 DEF Init, PoolInit, AccountTypeOK
  <1>2. CalendarInv
    <2>1. GetLast(tradingCycles) = [id |-> 0, startTime |-> 0, endTime |-> TradingCycle]
      BY DEF Init, PoolInit, GetLast
    <2> QED BY <2>1, CycleConstants DEF Init, PoolInit, CalendarInv
  <1>3. ASSUME NEW a \in Accounts PROVE AccountInv(a)
    BY DEF Init, PoolInit, AccountInv, InvestedAmount, NewAccount, AvailableDepositedAmount
  <1> QED BY <1>1, <1>2, <1>3 DEF IInv

\* The calendar after any step.
LEMMA CalendarStep ==
    ASSUME AccountTypeOK, CalendarInv, [Next]_vars
    PROVE  /\ CalendarInv'
           /\ now' \in Nat
           /\ tradingCycles' \in Seq([id : Nat, startTime : Nat, endTime : Nat])
           /\ tradingCycles' # <<>>
           /\ now' # now => Tick
  <1> DEFINE Row(cycles) ==
                 /\ cycles \in Seq(Cycle) /\ cycles # <<>>
                 /\ InRow(GetLast(cycles), TradingCycle)
                 /\ GetLast(cycles).startTime <= now
             Kept == cycleConfiguration' = cycleConfiguration
                     /\ feeConfiguration' = feeConfiguration
  <1>1. ASSUME NEW n \in 0 .. DueCycles, UpdateCalendar(n), Kept, now' = now
        PROVE  CalendarInv' /\ now' \in Nat /\ tradingCycles' \in Seq(Cycle)
               /\ tradingCycles' # <<>> /\ now' = now
    <2>1. Row(tradingCycles') /\ cyclesChangedInfo' = cyclesChangedInfo
      BY <1>1, PartialUpdate, ChangedInfoIsKept DEF UpdateCalendar
    <2> QED BY <1>1, <2>1 DEF CalendarInv, InRow, GetLast, AccountTypeOK
  <1>2. ASSUME UNCHANGED calendar, Kept, now' = now \/ now' = now + 1
        PROVE  CalendarInv' /\ now' \in Nat /\ tradingCycles' \in Seq(Cycle)
               /\ tradingCycles' # <<>>
    <2>1. InRow(GetLast(tradingCycles), TradingCycle) /\ tradingCycles \in Seq(Cycle)
      BY StoredCycle DEF AccountTypeOK, Cycle
    <2>2. GetLast(tradingCycles).startTime \in Nat /\ now \in Nat
      BY <2>1 DEF InRow, Cycle, AccountTypeOK
    <2> QED BY <1>2, <2>1, <2>2 DEF CalendarInv, GetLast, AccountTypeOK, calendar
  <1>3. DueCycles \in 0 .. DueCycles
    BY LastCurrentCycle
  <1>4. CASE Next
    <2>1. CASE Tick
      BY <1>2, <2>1 DEF Tick, settings, Cycle
    <2>2. CASE \E n \in 0 .. DueCycles : UpdateCurrentTradingCycle(n)
      BY <1>1, <2>2 DEF UpdateCurrentTradingCycle, settings, Cycle
    <2>3. ASSUME NEW a \in Accounts, NEW amount, Deposit(a, amount)
          PROVE  UpdateCalendar(DueCycles) /\ Kept /\ now' = now
      BY <2>3 DEF Deposit, settings
    <2>4. ASSUME NEW a \in Accounts, NEW amount, RequestWithdrawal(a, amount)
          PROVE  UpdateCalendar(DueCycles) /\ Kept /\ now' = now
      BY <2>4 DEF RequestWithdrawal, settings
    <2>5. ASSUME NEW a \in Accounts, NEW amount,
                 Claim(a, amount) \/ ForceWithdraw(a, amount)
          PROVE  UNCHANGED calendar /\ Kept /\ now' = now
      BY <2>5 DEF Claim, ForceWithdraw, settings
    <2>6. CASE \E a \in Accounts : UserStep(a)
      BY <1>1, <1>2, <1>3, <2>3, <2>4, <2>5, <2>6 DEF UserStep, Cycle
    <2>7. CASE TakeInvestment \/ \E amount \in TransferAmounts :
                                   SendRequestedWithdrawal(amount)
      BY <1>2, <2>7 DEF TakeInvestment, SendRequestedWithdrawal, settings, Cycle
    <2> QED BY <1>4, <2>1, <2>2, <2>6, <2>7 DEF Next
  <1>5. CASE UNCHANGED vars
    BY <1>2, <1>5 DEF vars, settings, Cycle
  <1> QED BY <1>4, <1>5

\* A step at the same time that leaves an account alone keeps its invariant.
LEMMA SameAccount ==
    ASSUME NEW b \in Accounts, AccountInv(b), now' = now,
           investmentsOf'[b] = investmentsOf[b], register'[b] = register[b],
           accountTradingInfo'[b] = accountTradingInfo[b],
           isNotFirstWithdrawal'[b] = isNotFirstWithdrawal[b], ipcog'[b] = ipcog[b]
    PROVE  AccountInv(b)'
  <1>1. /\ Investment(b)' = Investment(b) /\ InvestedAmount(b)' = InvestedAmount(b)
        /\ FundingId' = FundingId /\ UnlockId(b)' = UnlockId(b)
        /\ IsInDeadline(b)' = IsInDeadline(b)
        /\ AvailableDepositedAmount(b)' = AvailableDepositedAmount(b)
    BY DEF Investment, InvestedAmount, FundingId, UnlockId, IsInDeadline,
           AvailableDepositedAmount
  <1> QED BY <1>1 DEF AccountInv, NewAccount, InvestorInv, PendingRequest

\* One transaction of account a at the present time, as far as the invariant
\* of the accounts is concerned.
AccountStep(a, invs, reg, info, notFirst, shares) ==
    /\ now' = now
    /\ investmentsOf' = [investmentsOf EXCEPT ![a] = invs]
    /\ register' = [register EXCEPT ![a] = reg]
    /\ accountTradingInfo' = [accountTradingInfo EXCEPT ![a] = info]
    /\ isNotFirstWithdrawal' = [isNotFirstWithdrawal EXCEPT ![a] = notFirst]
    /\ ipcog' = [ipcog EXCEPT ![a] = shares]

\* A transaction that stores values of the right types keeps all types.
LEMMA AccountStepKeepsTypes ==
    ASSUME AccountTypeOK, NEW a \in Accounts, NEW invs, NEW reg, NEW info,
           NEW notFirst, NEW shares,
           AccountStep(a, invs, reg, info, notFirst, shares),
           invs \in Seq(InvestmentType),
           reg \in [amount : Nat, deadline : Nat],
           info \in [depositedTimestampOf : Nat, availableAmount : Nat,
                     isNotFirstIncreaseInvestment : BOOLEAN],
           notFirst \in BOOLEAN, shares \in Nat,
           tradingCycles' \in Seq([id : Nat, startTime : Nat, endTime : Nat]),
           tradingCycles' # <<>>
    PROVE  AccountTypeOK'
  BY DEF AccountTypeOK, AccountStep

\* A transaction of one account does not touch what is true of the others.
LEMMA AccountStepKeepsOthers ==
    ASSUME AccountTypeOK, NEW a \in Accounts, NEW invs, NEW reg, NEW info,
           NEW notFirst, NEW shares,
           AccountStep(a, invs, reg, info, notFirst, shares),
           \A b \in Accounts : AccountInv(b), AccountInv(a)'
    PROVE  \A b \in Accounts : AccountInv(b)'
  <1> SUFFICES ASSUME NEW b \in Accounts, b # a PROVE AccountInv(b)'
    OBVIOUS
  <1>1. /\ now' = now
        /\ investmentsOf'[b] = investmentsOf[b] /\ register'[b] = register[b]
        /\ accountTradingInfo'[b] = accountTradingInfo[b]
        /\ isNotFirstWithdrawal'[b] = isNotFirstWithdrawal[b] /\ ipcog'[b] = ipcog[b]
    BY DEF AccountStep, AccountTypeOK
  <1> QED BY <1>1, SameAccount

\* The invariant of account a after its transaction, in terms of the values
\* the transaction stores.
LEMMA AfterAccountStep ==
    ASSUME AccountTypeOK, NEW a \in Accounts, NEW invs, NEW reg, NEW info,
           NEW notFirst, NEW shares,
           AccountStep(a, invs, reg, info, notFirst, shares)
    PROVE  /\ investmentsOf[a]' = invs
           /\ Investment(a)' = GetLast(invs)
           /\ InvestedAmount(a)' = IF invs = <<>> THEN 0 ELSE GetLast(invs).amount
           /\ register[a]' = reg
           /\ isNotFirstWithdrawal[a]' = notFirst
           /\ ipcog[a]' = shares
           /\ FundingId' = FundingId
           /\ IsInDeadline(a)' = (reg.deadline >= now)
           /\ UnlockId(a)' = (IF reg.deadline >= now THEN reg.deadline ELSE now)
                                 \div TradingCycle
           /\ AvailableDepositedAmount(a)' =
                  IF info.depositedTimestampOf > now THEN info.availableAmount ELSE 0
  BY DEF AccountStep, AccountTypeOK, Investment, InvestedAmount, FundingId,
         IsInDeadline, UnlockId, AvailableDepositedAmount

\* A deposit keeps the invariant of every account.
LEMMA DepositStep ==
    ASSUME IInv, NEW a \in Accounts, NEW amount \in DepositAmounts,
           Deposit(a, amount),
           tradingCycles' \in Seq([id : Nat, startTime : Nat, endTime : Nat]),
           tradingCycles' # <<>>
    PROVE  AccountTypeOK' /\ \A b \in Accounts : AccountInv(b)'
  <1> DEFINE x == amount - FeeOf(amount, feeConfiguration.depositFee)
             done == HandleIncrease(a, x, a \in whitelist)
             invs == done.book.investments
             info == UpdatedTradingInfo(a, done.deposited, GetLast(invs).timestamp)
  <1> USE DEF IInv
  <1>1. x \in Nat
    <2>1. amount \in Nat /\ feeConfiguration.depositFee \in 0 .. FeeBase
      BY AmountAssumption DEF CalendarInv
    <2>2. FeeOf(amount, feeConfiguration.depositFee) \in 0 .. amount
      BY <2>1, FeeIsPart
    <2> QED BY <2>1, <2>2
  <1>2. /\ invs \in Seq(InvestmentType)
        /\ invs # <<>>
        /\ done.deposited \in Nat
        /\ done.register \in [amount : Nat, deadline : Nat]
        /\ GetLast(invs).amount + done.register.amount
               = InvestedAmount(a) + register[a].amount + done.deposited
        /\ AvailableDepositedAmount(a) + done.deposited <= GetLast(invs).amount
        /\ \/ FreshOutcome(a, invs, done.register)
           \/ /\ PendingOutcome(a, invs, done.register)
              /\ done.deposited = 0
    <2>1. AccountTypeOK /\ CalendarInv /\ AccountInv(a)
      OBVIOUS
    <2>2. (a \in whitelist) \in BOOLEAN
      OBVIOUS
    <2> HIDE DEF x, IInv
    <2> QED BY <1>1, <2>1, <2>2, HandleIncreaseFacts, Zenon
  <1>3. AccountStep(a, invs, done.register, info, isNotFirstWithdrawal[a],
                    ipcog[a] + done.deposited)
    BY DEF Deposit, Mint, AccountStep, AccountTypeOK
  <1> DEFINE reg == done.register
             deposited == done.deposited
  <1> HIDE DEF done
  <1>4. GetLast(invs) \in InvestmentType
    BY <1>2, LastOfList
  <1>5. /\ GetLast(invs).timestamp \in Nat /\ GetLast(invs).amount \in Nat
        /\ GetLast(invs).idChanged \in Nat
    BY <1>4 DEF InvestmentType
  <1>6. info \in [depositedTimestampOf : Nat, availableAmount : Nat,
                  isNotFirstIncreaseInvestment : BOOLEAN]
    <2> DEFINE before == accountTradingInfo[a]
    <2>1. /\ before \in [depositedTimestampOf : Nat, availableAmount : Nat,
                          isNotFirstIncreaseInvestment : BOOLEAN]
          /\ before.availableAmount + deposited \in Nat
      <3>1. /\ before \in [depositedTimestampOf : Nat, availableAmount : Nat,
                            isNotFirstIncreaseInvestment : BOOLEAN]
            /\ before.availableAmount \in Nat
        BY AccountTypes
      <3> HIDE DEF before
      <3> QED BY <1>2, <3>1
    <2>2. CASE now >= before.depositedTimestampOf
      BY <1>2, <1>5, <2>2 DEF UpdatedTradingInfo
    <2>3. CASE ~(now >= before.depositedTimestampOf)
      <3>1. info = [before EXCEPT !.availableAmount = before.availableAmount + deposited,
                                  !.isNotFirstIncreaseInvestment = TRUE]
        BY <2>3 DEF UpdatedTradingInfo
      <3> HIDE DEF info, before
      <3> QED BY <2>1, <3>1
    <2> QED BY <2>2, <2>3
  <1>7. AccountTypeOK'
    <2>1. ipcog[a] \in Nat
      BY AccountTypes
    <2>2. ipcog[a] + deposited \in Nat
      <3> HIDE DEF deposited
      <3> QED BY <1>2, <2>1 DEF deposited
    <2>3. invs \in Seq(InvestmentType) /\ reg \in [amount : Nat, deadline : Nat]
      BY <1>2
    <2>4. isNotFirstWithdrawal[a] \in BOOLEAN
      BY AccountTypes
    <2>5. AccountStep(a, invs, reg, info, isNotFirstWithdrawal[a], ipcog[a] + deposited)
      BY <1>3
    <2>6. AccountTypeOK
      OBVIOUS
    <2> HIDE DEF invs, reg, info, deposited, IInv
    <2> QED
      BY <1>6, <2>2, <2>3, <2>4, <2>5, <2>6, AccountStepKeepsTypes
  <1>8. AvailableDepositedAmount(a)' <= AvailableDepositedAmount(a) + deposited
        /\ AvailableDepositedAmount(a)' \in Nat
    <2>1. AvailableDepositedAmount(a)' =
              IF info.depositedTimestampOf > now THEN info.availableAmount ELSE 0
      BY <1>3, AfterAccountStep
    <2>2. CASE now >= accountTradingInfo[a].depositedTimestampOf
      <3>1. info.availableAmount = deposited
        BY <2>2 DEF UpdatedTradingInfo
      <3> HIDE DEF info
      <3> QED BY <1>2, <2>1, <3>1, AccountTypes
    <2>3. CASE ~(now >= accountTradingInfo[a].depositedTimestampOf)
      <3>1. info.availableAmount = accountTradingInfo[a].availableAmount + deposited
        BY <2>3, AccountTypes DEF UpdatedTradingInfo
      <3>2. AvailableDepositedAmount(a) = accountTradingInfo[a].availableAmount
        BY <2>3, AccountTypes DEF AvailableDepositedAmount
      <3> HIDE DEF info
      <3> QED BY <1>2, <2>1, <3>1, <3>2, AccountTypes
    <2> QED BY <2>2, <2>3
  <1> HIDE DEF info, invs
  <1>9. AccountInv(a)'
    <2>1. ipcog[a]' = InvestedAmount(a)' + register[a]'.amount
      <3>1. ipcog[a] = InvestedAmount(a) + register[a].amount
        BY DEF AccountInv
      <3>2. InvestedAmount(a) \in Nat
        BY AccountTypes DEF InvestedAmount
      <3>3. ipcog[a]' = ipcog[a] + deposited /\ register[a]' = reg
            /\ InvestedAmount(a)' = GetLast(invs).amount
        BY <1>2, <1>3, AfterAccountStep
      <3> QED BY <1>2, <1>5, <3>1, <3>2, <3>3, AccountTypes
    <2>2. /\ investmentsOf[a]' = invs /\ investmentsOf[a]' # <<>>
          /\ Investment(a)' = GetLast(invs)
          /\ register[a]' = reg
          /\ isNotFirstWithdrawal[a]' = isNotFirstWithdrawal[a]
          /\ FundingId' = FundingId
          /\ IsInDeadline(a)' = (reg.deadline >= now)
          /\ UnlockId(a)' = (IF reg.deadline >= now THEN reg.deadline ELSE now)
                                \div TradingCycle
      BY <1>2, <1>3, AfterAccountStep
    <2>3. /\ FundingId \in Nat /\ now \in Nat /\ now \div TradingCycle \in Nat
          /\ now \div TradingCycle <= FundingId
      BY FundingTimeFacts, AccountTypes, Quotient, CycleConstants
    <2>4. AvailableDepositedAmount(a)' <= GetLast(invs).amount
      BY <1>2, <1>5, <1>8, AccountTypes
    <2>5. CASE FreshOutcome(a, invs, reg)
      <3>1. GetLast(invs).idChanged = FundingId
        BY <2>5 DEF FreshOutcome
      <3>2. ASSUME IsInDeadline(a)' PROVE UnlockId(a)' <= FundingId
        <4>1. CASE reg = [amount |-> 0, deadline |-> now]
          BY <2>2, <2>3, <4>1
        <4>2. CASE reg = register[a] /\ (IsInDeadline(a) => UnlockId(a) <= FundingId)
          BY <2>2, <2>3, <3>2, <4>2 DEF IsInDeadline, UnlockId
        <4> QED BY <2>5, <4>1, <4>2 DEF FreshOutcome
      <3>3. InvestorInv(a)'
        BY <2>2, <2>3, <2>4, <3>1, <3>2 DEF InvestorInv
      <3> QED BY <2>1, <2>2, <3>3 DEF AccountInv
    <2>6. CASE PendingOutcome(a, invs, reg) /\ deposited = 0
      <3> DEFINE old == investmentsOf[a]
      <3>1. /\ old # <<>>
            /\ Investment(a).idChanged > FundingId
            /\ GetLast(invs).idChanged = Investment(a).idChanged
            /\ Len(invs) = Len(old)
            /\ invs[Len(invs) - 1] = old[Len(invs) - 1]
            /\ \/ reg = [amount |-> 0, deadline |-> now]
               \/ reg.deadline = register[a].deadline /\ register[a].amount > 0
        BY <2>6 DEF PendingOutcome
      <3>2. InvestorInv(a) /\ PendingRequest(a)
        BY <3>1 DEF AccountInv, InvestorInv
      <3>3. /\ Len(old) >= 2
            /\ old[Len(old) - 1].amount = Investment(a).amount + register[a].amount
            /\ old[Len(old) - 1].idChanged <= FundingId
            /\ register[a].amount > 0 => UnlockId(a) = Investment(a).idChanged
            /\ AvailableDepositedAmount(a) = 0
        BY <3>2 DEF PendingRequest
      <3>4. Investment(a).amount + register[a].amount
                = GetLast(invs).amount + reg.amount
        <4>1. GetLast(invs).amount + reg.amount
                  = InvestedAmount(a) + register[a].amount + deposited
          BY <1>2
        <4>2. InvestedAmount(a) = Investment(a).amount
          BY <3>1 DEF InvestedAmount
        <4>3. Investment(a).amount \in Nat /\ register[a].amount \in Nat
          BY <3>1, AccountTypes
        <4> HIDE DEF deposited, reg, old
        <4> QED BY <2>6, <4>1, <4>2, <4>3
      <3>5. reg.amount > 0 => reg.deadline = register[a].deadline
                              /\ register[a].amount > 0
        BY <3>1
      <3>6. reg.amount > 0 => UnlockId(a)' = Investment(a).idChanged
        BY <2>2, <3>3, <3>5 DEF UnlockId, IsInDeadline
      <3>7. AvailableDepositedAmount(a)' = 0
        BY <1>8, <2>6, <3>3
      <3>8. PendingRequest(a)'
        BY <2>2, <3>1, <3>3, <3>4, <3>6, <3>7 DEF PendingRequest
      <3>9. ASSUME IsInDeadline(a)'
            PROVE  /\ UnlockId(a)' <= Investment(a).idChanged
                   /\ isNotFirstWithdrawal[a] => UnlockId(a)' <= FundingId
        <4>1. CASE reg = [amount |-> 0, deadline |-> now]
          BY <2>2, <2>3, <3>1, <4>1, AccountTypes
        <4>2. CASE reg.deadline = register[a].deadline
          <5>1. IsInDeadline(a) /\ UnlockId(a)' = UnlockId(a)
            BY <2>2, <3>9, <4>2 DEF IsInDeadline, UnlockId
          <5> QED BY <3>2, <5>1 DEF InvestorInv
        <4> QED BY <3>1, <4>1, <4>2
      <3>10. GetLast(invs).idChanged <= FundingId + 1
        BY <3>1, <3>2 DEF InvestorInv
      <3>11. InvestorInv(a)'
        BY <2>2, <2>4, <3>1, <3>8, <3>9, <3>10 DEF InvestorInv
      <3> QED BY <2>1, <2>2, <3>11 DEF AccountInv
    <2> QED BY <1>2, <2>1, <2>2, <2>5, <2>6 DEF AccountInv
  <1> QED BY <1>3, <1>7, <1>9, AccountStepKeepsOthers

\* What a decrease in cycle c does to a list: it is appended when the cycle
\* is later than the last change, else it replaces the last investment.
LEMMA DecreaseFacts ==
    ASSUME NEW old \in Seq(InvestmentType), old # <<>>,
           NEW book, book.investments = old,
           NEW x \in Nat, x <= GetLast(old).amount,
           NEW t \in Nat, NEW c \in Cycle, NEW w \in BOOLEAN, NEW l,
           NEW new, new = DecreaseInvestment(book, x, t, c, l, w).investments
    PROVE  /\ new \in Seq(InvestmentType)
           /\ new # <<>>
           /\ GetLast(new).amount = GetLast(old).amount - x
           /\ GetLast(new).idChanged = c.id
           /\ GetLast(new).timestamp = GetLast(old).timestamp
           /\ GetLast(old).idChanged < c.id =>
                  /\ Len(new) = Len(old) + 1
                  /\ new[Len(old)] = GetLast(old)
           /\ ~(GetLast(old).idChanged < c.id) =>
                  /\ Len(new) = Len(old)
                  /\ \A i \in 1 .. Len(old) - 1 : new[i] = old[i]
  <1> DEFINE last == GetLast(old)
             e == DecreasedInvestment(old, x, t, c, w)
  <1>1. new = IF last.idChanged < c.id
              THEN Append(old, e) ELSE [old EXCEPT ![Len(old)] = e]
    BY DEF DecreaseInvestment
  <1>2. c.id \in Nat /\ c.startTime \in Nat /\ c.endTime \in Nat
    BY DEF Cycle
  <1>3. /\ last \in InvestmentType /\ last = old[Len(old)]
        /\ Len(old) \in Nat \ {0}
    BY LastOfList
  <1>4. last.amount \in Nat /\ last.unit \in Int /\ last.idChanged \in Nat
        /\ last.timestamp \in Nat
    BY <1>3 DEF InvestmentType
  <1>5. e.amount = last.amount - x /\ e.idChanged = c.id
        /\ e.timestamp = last.timestamp
    BY DEF DecreasedInvestment
  <1>6. e \in InvestmentType
    <2> DEFINE unit == x * (c.endTime - t)
    <2>1. unit \in Int
      BY <1>2
    <2>2. last.amount * Duration(c) \in Int
      BY <1>2, <1>4 DEF Duration
    <2>3. e = [amount |-> last.amount - x,
               unit |-> IF last.idChanged < c.id
                        THEN last.amount * Duration(c) - unit ELSE last.unit - unit,
               timestamp |-> last.timestamp, idChanged |-> c.id, isWhitelist |-> w]
      BY DEF DecreasedInvestment
    <2>4. last.amount - x \in Nat
      BY <1>4
    <2> HIDE DEF unit, e
    <2>5. (IF last.idChanged < c.id
           THEN last.amount * Duration(c) - unit ELSE last.unit - unit) \in Int
      BY <1>4, <2>1, <2>2
    <2> QED BY <1>2, <1>4, <2>3, <2>4, <2>5 DEF InvestmentType
  <1> HIDE DEF e
  <1>7. CASE last.idChanged < c.id
    <2>1. new = Append(old, e)
      BY <1>1, <1>7
    <2> QED BY <1>3, <1>5, <1>6, <1>7, <2>1 DEF GetLast
  <1>8. CASE ~(last.idChanged < c.id)
    <2>1. new = [old EXCEPT ![Len(old)] = e]
      BY <1>1, <1>8
    <2> QED BY <1>3, <1>5, <1>6, <1>8, <2>1 DEF GetLast
  <1> QED BY <1>7, <1>8

\* A request keeps the invariant: when it takes effect after the cycle that a
\* deposit reaches, the investment it replaces stays before it in the list.
LEMMA RequestStep ==
    ASSUME Aligned, IInv, NEW a \in Accounts, NEW amount \in WithdrawAmounts,
           RequestWithdrawal(a, amount),
           tradingCycles' \in Seq([id : Nat, startTime : Nat, endTime : Nat]),
           tradingCycles' # <<>>
    PROVE  AccountTypeOK' /\ \A b \in Accounts : AccountInv(b)'
  <1> DEFINE t == DefundingTime(a)
             c == CycleAt(CurrentCycles, t)
             book == [investments |-> investmentsOf[a], units |-> UnitsAfter(DueCycles)]
             done == DecreaseInvestment(book, amount, t, c, liquidity, a \in whitelist)
             old == investmentsOf[a]
             last == Investment(a)
             invs == done.investments
             lock == LockTime(a)
             left == last.amount - amount
             more == register[a].amount + amount
             reg == [amount |-> more, deadline |-> lock]
  <1>1. AccountTypeOK /\ CalendarInv /\ AccountInv(a)
    BY DEF IInv
  <1>2. amount \in Nat
    BY AmountAssumption
  <1>3. /\ AvailableDepositedAmount(a) = 0
        /\ CanDecreaseInvestment(book, amount, t, c, liquidity, a \in whitelist)
        /\ RegisterWithdrawal(a, amount, lock)
        /\ investmentsOf' = [investmentsOf EXCEPT ![a] = invs]
        /\ UNCHANGED <<now, accountTradingInfo, isNotFirstWithdrawal, ipcog>>
    BY DEF RequestWithdrawal, settings, shareVars
  <1>4. old # <<>> /\ amount <= last.amount
    BY <1>3 DEF CanDecreaseInvestment, Investment
  <1>5. /\ IsInDeadline(a) \/ register[a].amount = 0
        /\ register' = [register EXCEPT ![a] = reg]
    BY <1>1, <1>3 DEF RegisterWithdrawal, AccountTypeOK
  <1>5a. /\ old \in Seq(InvestmentType)
         /\ last = GetLast(old) /\ last = old[Len(old)]
    BY <1>1, <1>4, AccountTypes DEF Investment
  <1>5b. Len(old) \in Nat \ {0}
    BY <1>4, <1>5a
  <1>6. /\ last.amount \in Nat /\ last.idChanged \in Nat
        /\ register[a].amount \in Nat /\ register[a].deadline \in Nat
        /\ isNotFirstWithdrawal[a] \in BOOLEAN /\ ipcog[a] \in Nat
        /\ now \in Nat
    BY <1>1, <1>4, AccountTypes DEF Investment
  <1>7. /\ t \in Nat /\ now <= t /\ lock \in Nat /\ now <= lock
        /\ isNotFirstWithdrawal[a] => t = FundingTime
        /\ IsInDeadline(a) => lock = register[a].deadline
        /\ IsInDeadline(a) /\ ~isNotFirstWithdrawal[a] => t = register[a].deadline
        /\ ~IsInDeadline(a) => lock = t
        /\ isNotFirstWithdrawal[a] \/ ~IsInDeadline(a) =>
               t \div TradingCycle \in FundingId .. FundingId + 1
    BY <1>1, RequestTimes
  <1>8. c \in Cycle /\ c.id \in Nat /\ c.id = t \div TradingCycle
    BY <1>1, <1>7, CurrentCycleOfTime DEF InRow, Cycle
  <1>9. FundingId \in Nat /\ FundingTime \div TradingCycle = FundingId
    BY <1>1, FundingTimeFacts
  <1>10. /\ invs \in Seq(InvestmentType)
         /\ invs # <<>>
         /\ GetLast(invs).amount = last.amount - amount
         /\ GetLast(invs).idChanged = c.id
         /\ last.idChanged < c.id => Len(invs) = Len(old) + 1 /\ invs[Len(old)] = last
         /\ ~(last.idChanged < c.id) =>
                /\ Len(invs) = Len(old)
                /\ \A i \in 1 .. Len(old) - 1 : invs[i] = old[i]
    <2> DEFINE w == a \in whitelist
    <2>1. book.investments = old
      OBVIOUS
    <2>2. w \in BOOLEAN
      OBVIOUS
    <2>3. invs = DecreaseInvestment(book, amount, t, c, liquidity, w).investments
      OBVIOUS
    <2>4. amount <= GetLast(old).amount
      BY <1>4, <1>5a
    <2>5. t \in Nat /\ c \in Cycle /\ old \in Seq(InvestmentType) /\ old # <<>>
      BY <1>4, <1>5a, <1>7, <1>8
    <2> HIDE DEF book, w, invs, c, t, last, old
    <2>6. /\ invs \in Seq(InvestmentType)
          /\ invs # <<>>
          /\ GetLast(invs).amount = GetLast(old).amount - amount
          /\ GetLast(invs).idChanged = c.id
          /\ GetLast(old).idChanged < c.id =>
                 /\ Len(invs) = Len(old) + 1
                 /\ invs[Len(old)] = GetLast(old)
          /\ ~(GetLast(old).idChanged < c.id) =>
                 /\ Len(invs) = Len(old)
                 /\ \A i \in 1 .. Len(old) - 1 : invs[i] = old[i]
      BY <1>2, <2>1, <2>2, <2>3, <2>4, <2>5, DecreaseFacts, SMTT(90)
    <2> QED BY <1>5a, <2>6
  <1> HIDE DEF done
  <1>11. AccountStep(a, invs, reg, accountTradingInfo[a], isNotFirstWithdrawal[a], ipcog[a])
    BY <1>1, <1>3, <1>5 DEF AccountStep, AccountTypeOK
  <1>12. AccountTypeOK'
    <2>1. reg \in [amount : Nat, deadline : Nat]
      <3>1. register[a].amount + amount \in Nat /\ lock \in Nat
        BY <1>2, <1>6, <1>7
      <3> HIDE DEF lock
      <3> QED BY <3>1
    <2> HIDE DEF reg, invs
    <2> QED BY <1>1, <1>10, <1>11, <2>1, AccountTypes, AccountStepKeepsTypes
  <1>13. InvestorInv(a) /\ ipcog[a] = last.amount + register[a].amount
    BY <1>1, <1>4 DEF AccountInv, InvestedAmount
  \* A request that waits for a pending deadline leaves in the last cycle.
  <1>14. IsInDeadline(a) =>
            /\ UnlockId(a) = lock \div TradingCycle
            /\ UnlockId(a) <= last.idChanged
            /\ isNotFirstWithdrawal[a] => UnlockId(a) <= FundingId
            /\ ~isNotFirstWithdrawal[a] => c.id = UnlockId(a)
    BY <1>7, <1>8, <1>13 DEF InvestorInv, UnlockId
  <1>15. c.id <= FundingId + 1
    <2>1. last.idChanged <= FundingId + 1
      BY <1>13 DEF InvestorInv
    <2> QED BY <1>6, <1>7, <1>8, <1>9, <1>14, <2>1
  <1>16. AccountInv(a)'
    <2> DEFINE lastId == last.idChanged
    <2>a. /\ left \in Nat /\ lastId \in Nat
          /\ last.amount + register[a].amount = left + more
      <3> DEFINE n == last.amount
                 m == register[a].amount
      <3>1. n \in Nat /\ m \in Nat /\ amount \in Nat /\ amount <= n
        BY <1>2, <1>4, <1>6
      <3> HIDE DEF n, m
      <3>2. n - amount \in Nat /\ n + m = (n - amount) + (m + amount)
        BY <3>1
      <3> QED BY <1>6, <3>2 DEF n, m
    <2>1. /\ investmentsOf[a]' = invs /\ Investment(a)' = GetLast(invs)
          /\ InvestedAmount(a)' = GetLast(invs).amount
          /\ register[a]'.amount = more
          /\ register[a]'.deadline = lock
          /\ isNotFirstWithdrawal[a]' = isNotFirstWithdrawal[a]
          /\ ipcog[a]' = ipcog[a]
          /\ FundingId' = FundingId
          /\ UnlockId(a)' = (IF lock >= now THEN lock ELSE now) \div TradingCycle
          /\ AvailableDepositedAmount(a)' = AvailableDepositedAmount(a)
      BY <1>1, <1>10, <1>11, AfterAccountStep DEF AvailableDepositedAmount
    <2>2. UnlockId(a)' = lock \div TradingCycle
      BY <1>6, <1>7, <2>1
    <2>b. /\ invs # <<>> /\ invs \in Seq(InvestmentType)
          /\ GetLast(invs).amount = left /\ GetLast(invs).idChanged = c.id
          /\ Investment(a) = last
      BY <1>10
    <2>c. ipcog[a] = left + more
      BY <1>13, <2>a
    <2> HIDE DEF t, c, lock, invs, book, reg, left, more
    <2>3. ipcog[a]' = InvestedAmount(a)' + register[a]'.amount
      BY <2>1, <2>b, <2>c
    \* The register unlocks in the cycle of the change, except for a further
    \* request while it is locked.
    <2>4. /\ UnlockId(a)' = c.id \/ (isNotFirstWithdrawal[a] /\ c.id = FundingId
                                     /\ UnlockId(a)' <= FundingId)
          /\ isNotFirstWithdrawal[a] => UnlockId(a)' <= FundingId
      <3>1. CASE ~IsInDeadline(a)
        BY <1>7, <1>8, <1>9, <2>2, <3>1
      <3>2. CASE IsInDeadline(a) /\ ~isNotFirstWithdrawal[a]
        BY <1>14, <2>2, <3>2
      <3>3. CASE IsInDeadline(a) /\ isNotFirstWithdrawal[a]
        BY <1>7, <1>8, <1>9, <1>14, <2>2, <3>3
      <3> QED BY <1>6, <3>1, <3>2, <3>3
    <2>5. ASSUME c.id > FundingId
          PROVE  PendingRequest(a)'
      <3>1. UnlockId(a)' = c.id /\ ~isNotFirstWithdrawal[a]
        BY <1>7, <1>8, <1>9, <2>4, <2>5
      <3>2. CASE last.idChanged < c.id
        <4>1. ~IsInDeadline(a)
          BY <1>6, <1>8, <1>14, <3>1, <3>2
        <4>2. register[a].amount = 0
          BY <1>5, <4>1
        <4>3. Len(invs) >= 2 /\ invs[Len(invs) - 1] = last
          BY <1>5b, <1>10, <3>2
        <4>4. last.idChanged <= FundingId
          BY <1>6, <1>8, <1>9, <1>15, <3>2
        <4>5. last.amount = left + more
          BY <1>6, <2>a, <4>2
        <4> HIDE DEF last, old
        <4> QED BY <1>3, <2>1, <2>b, <3>1, <4>3, <4>4, <4>5 DEF PendingRequest
      <3>3. CASE ~(last.idChanged < c.id)
        <4>1. last.idChanged > FundingId
          BY <1>6, <1>8, <1>9, <2>5, <3>3
        <4>2. PendingRequest(a)
          BY <1>13, <4>1 DEF InvestorInv
        <4>3. /\ Len(old) >= 2
              /\ old[Len(old) - 1].amount = last.amount + register[a].amount
              /\ old[Len(old) - 1].idChanged <= FundingId
          BY <4>2 DEF PendingRequest
        <4>4. Len(invs) = Len(old) /\ invs[Len(invs) - 1] = old[Len(old) - 1]
          <5>1. Len(old) - 1 \in 1 .. Len(old) - 1
            BY <1>5b, <4>3
          <5> QED BY <1>10, <3>3, <5>1
        <4>5. old[Len(old) - 1].amount = left + more
          BY <2>a, <4>3
        <4> HIDE DEF last, old
        <4> QED BY <1>3, <2>1, <2>b, <3>1, <4>3, <4>4, <4>5 DEF PendingRequest
      <3> QED BY <3>2, <3>3
    <2>6. InvestorInv(a)'
      <3>1. AvailableDepositedAmount(a)' <= Investment(a)'.amount
        BY <1>3, <2>1, <2>a, <2>b
      <3>2. UnlockId(a)' <= c.id
        BY <1>8, <1>9, <2>4
      <3> QED BY <1>15, <2>1, <2>4, <2>5, <2>b, <3>1, <3>2 DEF InvestorInv
    <2> QED BY <2>1, <2>3, <2>6, <2>b DEF AccountInv
  <1> QED BY <1>11, <1>12, <1>16, AccountStepKeepsOthers DEF IInv

\* A claim: the register is unlocked, so a pending request that reached a
\* later cycle has nothing registered any more.
LEMMA ClaimStep ==
    ASSUME IInv, NEW a \in Accounts, NEW amount \in WithdrawAmounts,
           Claim(a, amount)
    PROVE  AccountTypeOK' /\ \A b \in Accounts : AccountInv(b)'
  <1> DEFINE left == register[a].amount - amount
             shares == ipcog[a] - amount
             claimed == TRUE
             reg == [amount |-> left, deadline |-> register[a].deadline]
             old == investmentsOf[a]
  <1>1. AccountTypeOK /\ CalendarInv /\ AccountInv(a)
    BY DEF IInv
  <1>2. /\ amount \in Nat
        /\ register[a].amount \in Nat /\ register[a].deadline \in Nat
        /\ ipcog[a] \in Nat /\ now \in Nat
    BY <1>1, AmountAssumption, AccountTypes
  <1>3. /\ amount <= ipcog[a] /\ amount <= register[a].amount
        /\ register[a].deadline < now
    BY DEF Claim, Burn
  <1>4. left \in Nat /\ shares \in Nat
    BY <1>2, <1>3
  <1>5. register' = [register EXCEPT ![a] = reg]
    <2>1. register' = [register EXCEPT ![a] = [register[a] EXCEPT !.amount = left]]
      BY DEF Claim
    <2>2. [register[a] EXCEPT !.amount = left] = reg
      <3>1. register[a] \in [amount : Nat, deadline : Nat]
        BY <1>1, AccountTypes
      <3> QED BY <3>1
    <2> HIDE DEF reg
    <2> QED BY <2>1, <2>2
  <1>6. AccountStep(a, old, reg, accountTradingInfo[a], claimed, shares)
    BY <1>1, <1>5 DEF AccountStep, AccountTypeOK, Claim, Burn, accountVars
  <1>7. AccountTypeOK'
    <2>1. reg \in [amount : Nat, deadline : Nat]
      BY <1>2, <1>4
    <2>2. /\ tradingCycles' = tradingCycles
      BY DEF Claim, calendar
    <2> HIDE DEF reg, shares
    <2> QED BY <1>1, <1>4, <1>6, <2>1, <2>2, AccountTypes, AccountStepKeepsTypes
            DEF AccountTypeOK
  <1>8. /\ investmentsOf[a]' = old /\ Investment(a)' = Investment(a)
        /\ InvestedAmount(a)' = InvestedAmount(a)
        /\ register[a]' = reg
        /\ ipcog[a]' = shares
        /\ FundingId' = FundingId
        /\ ~IsInDeadline(a) /\ ~IsInDeadline(a)'
        /\ UnlockId(a)' = UnlockId(a)
        /\ UnlockId(a) = now \div TradingCycle
        /\ AvailableDepositedAmount(a)' = AvailableDepositedAmount(a)
    <2>1. ~(register[a].deadline >= now)
      BY <1>2, <1>3
    <2>3. reg.deadline = register[a].deadline
      OBVIOUS
    <2> HIDE DEF reg, shares, claimed
    <2>2. /\ investmentsOf[a]' = old /\ Investment(a)' = GetLast(old)
          /\ InvestedAmount(a)' = IF old = <<>> THEN 0 ELSE GetLast(old).amount
          /\ register[a]' = reg /\ ipcog[a]' = shares /\ FundingId' = FundingId
          /\ IsInDeadline(a)' = (reg.deadline >= now)
          /\ UnlockId(a)' = (IF reg.deadline >= now THEN reg.deadline ELSE now)
                                \div TradingCycle
          /\ AvailableDepositedAmount(a)' =
                 IF accountTradingInfo[a].depositedTimestampOf > now
                 THEN accountTradingInfo[a].availableAmount ELSE 0
      BY <1>1, <1>6, AfterAccountStep
    <2> QED BY <2>1, <2>2, <2>3
            DEF AvailableDepositedAmount, InvestedAmount, Investment,
                IsInDeadline, UnlockId
  <1>9. /\ FundingId \in Nat /\ now \div TradingCycle \in Nat
        /\ now \div TradingCycle <= FundingId
    BY <1>1, <1>2, FundingTimeFacts, Quotient, CycleConstants
  <1>10. ipcog[a]' = InvestedAmount(a)' + register[a]'.amount
    <2> DEFINE n == InvestedAmount(a)
               m == register[a].amount
    <2>1. ipcog[a] = n + m /\ n \in Int
      BY <1>1, AccountTypes DEF AccountInv, InvestedAmount, Investment
    <2>2. shares = n + left
      <3> HIDE DEF n
      <3> QED BY <1>2, <2>1
    <2> QED BY <1>8, <2>2
  <1>11. CASE old = <<>>
    <2>1. NewAccount(a)
      BY <1>1, <1>11 DEF AccountInv
    <2>2. /\ register[a] = [amount |-> 0, deadline |-> 0] /\ ipcog[a] = 0
          /\ AvailableDepositedAmount(a) = 0
      BY <2>1 DEF NewAccount
    <2>3. left = 0 /\ shares = 0 /\ register[a].deadline = 0
      BY <1>2, <1>3, <2>2
    <2>4. NewAccount(a)'
      BY <1>8, <2>2, <2>3 DEF NewAccount
    <2>5. AccountInv(a)'
      BY <1>8, <1>10, <1>11, <2>4 DEF AccountInv
    <2> QED BY <1>1, <1>6, <1>7, <2>5, AccountStepKeepsOthers DEF IInv
  <1>12. CASE old # <<>>
    <2>1. InvestorInv(a)
      BY <1>1, <1>12 DEF AccountInv
    <2>2. ASSUME Investment(a).idChanged > FundingId
          PROVE  PendingRequest(a)'
      <3>1. PendingRequest(a)
        BY <2>1, <2>2 DEF InvestorInv
      <3>2. Investment(a).idChanged \in Nat
        BY <1>1, <1>12, AccountTypes DEF Investment
      <3>3. register[a].amount = 0
        BY <1>2, <1>8, <1>9, <2>2, <3>1, <3>2 DEF PendingRequest
      <3>4. left = register[a].amount
        BY <1>2, <1>3, <3>3
      <3> QED BY <1>8, <3>1, <3>4 DEF PendingRequest
    <2>3. InvestorInv(a)'
      BY <1>8, <2>1, <2>2 DEF InvestorInv
    <2>4. AccountInv(a)'
      BY <1>8, <1>10, <1>12, <2>3 DEF AccountInv
    <2> QED BY <1>1, <1>6, <1>7, <2>4, AccountStepKeepsOthers DEF IInv
  <1> QED BY <1>11, <1>12

\* A forced withdrawal: it takes back no more than a deposit that the last
\* investment still holds, so it meets no pending request.
LEMMA ForceWithdrawStep ==
    ASSUME IInv, NEW a \in Accounts, NEW amount \in WithdrawAmounts,
           ForceWithdraw(a, amount)
    PROVE  AccountTypeOK' /\ \A b \in Accounts : AccountInv(b)'
  <1> DEFINE old == investmentsOf[a]
             last == Investment(a)
             c == CycleAt(tradingCycles, last.timestamp)
             unit == amount * (c.endTime - last.timestamp)
             remaining == last.amount - amount
             new == [last EXCEPT !.amount = remaining, !.unit = @ - unit]
             invs == [old EXCEPT ![Len(old)] = new]
             info == [accountTradingInfo[a] EXCEPT !.availableAmount = @ - amount]
             shares == ipcog[a] - amount
             available == AvailableDepositedAmount(a)
  <1>1. AccountTypeOK /\ CalendarInv /\ AccountInv(a)
    BY DEF IInv
  <1>2. /\ amount \in Nat /\ ipcog[a] \in Nat /\ now \in Nat /\ available \in Nat
    BY <1>1, AmountAssumption, AccountTypes
  <1>3. /\ amount <= ipcog[a] /\ amount <= available /\ old # <<>>
        /\ investmentsOf' = [investmentsOf EXCEPT ![a] = invs]
        /\ accountTradingInfo' = [accountTradingInfo EXCEPT ![a] = info]
        /\ ipcog' = [ipcog EXCEPT ![a] = shares]
        /\ UNCHANGED <<now, register, isNotFirstWithdrawal, tradingCycles>>
    <2>1. /\ amount <= ipcog[a] /\ ipcog' = [ipcog EXCEPT ![a] = shares]
      BY DEF ForceWithdraw, Burn
    <2>2. accountTradingInfo' = [accountTradingInfo EXCEPT ![a].availableAmount = @ - amount]
      BY DEF ForceWithdraw
    <2>3. investmentsOf' = [investmentsOf EXCEPT ![a] = invs] /\ old # <<>>
      BY <1>1 DEF ForceWithdraw, AccountTypeOK
    <2>4. available >= amount
      BY DEF ForceWithdraw
    <2>5. UNCHANGED <<now, register, isNotFirstWithdrawal, tradingCycles>>
      BY DEF ForceWithdraw, registerVars, calendar
    <2> HIDE DEF available
    <2> QED BY <1>1, <1>2, <2>1, <2>2, <2>3, <2>4, <2>5 DEF AccountTypeOK
  <1>4. /\ old \in Seq(InvestmentType) /\ last = old[Len(old)]
        /\ last \in InvestmentType /\ Len(old) \in Nat \ {0}
    BY <1>1, <1>3, AccountTypes
  <1>5. /\ last.amount \in Nat /\ last.unit \in Int
        /\ last.timestamp \in Nat /\ last.idChanged \in Nat
    BY <1>1, <1>3, AccountTypes
  <1>6. InvestorInv(a) /\ ipcog[a] = last.amount + register[a].amount
    BY <1>1, <1>3 DEF AccountInv, InvestedAmount
  <1>7. available <= last.amount
    BY <1>6 DEF InvestorInv
  <1>8. remaining \in Nat /\ shares \in Nat
    <2> HIDE DEF available, last
    <2> QED BY <1>2, <1>3, <1>5, <1>7
  <1>9. c.endTime \in Nat
    <2>1. c = CalculateTradingCycleByTimestamp(GetLast(tradingCycles), TradingCycle,
                  TradingCycle, last.timestamp)
      BY <1>1 DEF CycleAt, CalendarInv
    <2>2. InRow(GetLast(tradingCycles), TradingCycle)
      BY <1>1, StoredCycle
    <2> HIDE DEF c, last
    <2>3. InRow(c, TradingCycle)
      BY <1>5, <2>1, <2>2, CycleOfTime, CycleConstants
    <2> QED BY <2>3 DEF InRow, Cycle
  <1>10. new \in InvestmentType /\ new.amount = remaining
         /\ new.idChanged = last.idChanged
    <2>1. last.unit - unit \in Int
      <3>1. c.endTime - last.timestamp \in Int
        BY <1>5, <1>9
      <3> HIDE DEF c, last
      <3> QED BY <1>2, <1>5, <3>1
    <2> HIDE DEF unit, remaining, last
    <2> QED BY <1>4, <1>8, <2>1 DEF InvestmentType
  <1> HIDE DEF new
  <1>11. /\ invs \in Seq(InvestmentType) /\ invs # <<>>
         /\ Len(invs) = Len(old) /\ GetLast(invs) = new
         /\ \A i \in 1 .. Len(old) - 1 : invs[i] = old[i]
    <2> HIDE DEF last
    <2> QED BY <1>3, <1>4, <1>10 DEF GetLast
  <1>12. /\ accountTradingInfo[a] \in
                [depositedTimestampOf : Nat, availableAmount : Nat,
                 isNotFirstIncreaseInvestment : BOOLEAN]
         /\ accountTradingInfo[a].availableAmount - amount \in Nat
    <2>1. accountTradingInfo[a].availableAmount \in Nat
      BY <1>1, AccountTypes
    <2>2. amount <= accountTradingInfo[a].availableAmount
      BY <1>2, <1>3, <2>1 DEF AvailableDepositedAmount
    <2> QED BY <1>1, <1>2, <2>1, <2>2, AccountTypes
  <1>13. /\ info \in [depositedTimestampOf : Nat, availableAmount : Nat,
                      isNotFirstIncreaseInvestment : BOOLEAN]
         /\ info.depositedTimestampOf = accountTradingInfo[a].depositedTimestampOf
         /\ info.availableAmount = accountTradingInfo[a].availableAmount - amount
    BY <1>12
  <1> HIDE DEF info, invs, shares
  <1>14. AccountStep(a, invs, register[a], info, isNotFirstWithdrawal[a], shares)
    BY <1>1, <1>3 DEF AccountStep, AccountTypeOK
  <1>15. AccountTypeOK'
    BY <1>1, <1>3, <1>8, <1>11, <1>13, <1>14, AccountTypes, AccountStepKeepsTypes
       DEF AccountTypeOK
  <1>16. /\ investmentsOf[a]' = invs /\ investmentsOf[a]' # <<>>
         /\ Investment(a)' = new
         /\ InvestedAmount(a)' = remaining
         /\ register[a]' = register[a]
         /\ isNotFirstWithdrawal[a]' = isNotFirstWithdrawal[a]
         /\ ipcog[a]' = shares
         /\ FundingId' = FundingId
         /\ IsInDeadline(a)' = IsInDeadline(a)
         /\ UnlockId(a)' = UnlockId(a)
    <2>1. /\ investmentsOf[a]' = invs /\ Investment(a)' = GetLast(invs)
          /\ InvestedAmount(a)' = IF invs = <<>> THEN 0 ELSE GetLast(invs).amount
          /\ register[a]' = register[a] /\ ipcog[a]' = shares
          /\ isNotFirstWithdrawal[a]' = isNotFirstWithdrawal[a]
          /\ FundingId' = FundingId
          /\ IsInDeadline(a)' = (register[a].deadline >= now)
          /\ UnlockId(a)' = (IF register[a].deadline >= now
                             THEN register[a].deadline ELSE now) \div TradingCycle
      BY <1>1, <1>14, AfterAccountStep
    <2> HIDE DEF remaining
    <2> QED BY <1>10, <1>11, <2>1 DEF IsInDeadline, UnlockId
  <1>17. AvailableDepositedAmount(a)' =
             IF info.depositedTimestampOf > now THEN info.availableAmount ELSE 0
    BY <1>1, <1>14, AfterAccountStep
  <1>18. AvailableDepositedAmount(a)' = available - amount
    BY <1>2, <1>3, <1>12, <1>13, <1>17 DEF AvailableDepositedAmount
  <1>19. ipcog[a]' = InvestedAmount(a)' + register[a]'.amount
    <2>1. register[a].amount \in Nat
      BY <1>1, AccountTypes
    <2>2. shares = remaining + register[a].amount
      <3> HIDE DEF last
      <3> QED BY <1>2, <1>5, <1>6, <2>1 DEF shares
    <2> QED BY <1>16, <2>2
  <1>20. ASSUME last.idChanged > FundingId PROVE PendingRequest(a)'
    <2>1. PendingRequest(a)
      BY <1>6, <1>20 DEF InvestorInv
    <2>2. /\ Len(old) >= 2
          /\ old[Len(old) - 1].amount = last.amount + register[a].amount
          /\ old[Len(old) - 1].idChanged <= FundingId
          /\ register[a].amount > 0 => UnlockId(a) = last.idChanged
          /\ available = 0
      BY <2>1 DEF PendingRequest
    <2>3. amount = 0
      BY <1>2, <1>3, <2>2
    <2>4. remaining = last.amount /\ AvailableDepositedAmount(a)' = 0
      <3> HIDE DEF last
      <3> QED BY <1>2, <1>5, <1>18, <2>2, <2>3
    <2>5. Len(invs) = Len(old) /\ invs[Len(invs) - 1] = old[Len(old) - 1]
      <3>1. Len(old) - 1 \in 1 .. Len(old) - 1
        BY <1>4, <2>2
      <3> QED BY <1>11, <3>1
    <2> HIDE DEF last, old, remaining, available
    <2> QED BY <1>10, <1>16, <2>2, <2>4, <2>5 DEF PendingRequest
  <1>21. AvailableDepositedAmount(a)' <= Investment(a)'.amount
    <2> HIDE DEF available, last
    <2> QED BY <1>2, <1>3, <1>5, <1>7, <1>10, <1>16, <1>18
  <1>22. InvestorInv(a)'
    BY <1>6, <1>10, <1>16, <1>20, <1>21 DEF InvestorInv
  <1>23. AccountInv(a)'
    BY <1>16, <1>19, <1>22 DEF AccountInv
  <1> QED BY <1>1, <1>14, <1>15, <1>23, AccountStepKeepsOthers DEF IInv

\* The passing of time: the cycle a deposit reaches never moves back, and a
\* register with something to take back is locked past it.
LEMMA TickStep ==
    ASSUME IInv, Tick
    PROVE  AccountTypeOK' /\ \A a \in Accounts : AccountInv(a)'
  <1>1. /\ AccountTypeOK /\ CalendarInv /\ now \in Nat /\ now' = now + 1
        /\ UNCHANGED <<tradingCycles, investmentsOf, accountTradingInfo, register,
                       isNotFirstWithdrawal, ipcog>>
    BY DEF IInv, Tick, AccountTypeOK, calendar, accountVars, registerVars, shareVars
  <1>2. AccountTypeOK'
    BY <1>1 DEF AccountTypeOK
  <1>3. /\ FundingId \in Nat /\ FundingId' \in Nat /\ FundingId <= FundingId'
        /\ now \div TradingCycle \in Nat /\ now \div TradingCycle <= FundingId
    <2> DEFINE m == now \div FundingCycle
               n == (now + 1) \div FundingCycle
    <2>1. m \in Nat /\ n \in Nat /\ m + 1 <= n + 1 /\ m + 1 \in Nat /\ n + 1 \in Nat
      BY <1>1, Quotient, QuotientIsMonotone, CycleConstants
    <2>2. FundingCycle \in Nat /\ TradingCycle \in Nat \ {0}
      BY CycleConstants
    <2>3. FundingId = ((m + 1) * FundingCycle) \div TradingCycle
          /\ FundingId' = ((n + 1) * FundingCycle) \div TradingCycle
      BY <1>1 DEF FundingId
    <2> HIDE DEF m, n
    <2>4. (m + 1) * FundingCycle <= (n + 1) * FundingCycle
      BY <2>1, <2>2, ProductIsMonotone
    <2>5. (m + 1) * FundingCycle \in Nat /\ (n + 1) * FundingCycle \in Nat
      BY <2>1, <2>2
    <2>6. FundingId <= FundingId' /\ FundingId' \in Nat
      BY <2>2, <2>3, <2>4, <2>5, Quotient, QuotientIsMonotone
    <2> QED BY <1>1, <2>2, <2>6, FundingTimeFacts, Quotient
  <1>4. ASSUME NEW a \in Accounts PROVE AccountInv(a)'
    <2>1. AccountInv(a)
      BY DEF IInv
    <2>2. /\ Investment(a)' = Investment(a) /\ InvestedAmount(a)' = InvestedAmount(a)
          /\ investmentsOf[a]' = investmentsOf[a] /\ register[a]' = register[a]
          /\ ipcog[a]' = ipcog[a]
          /\ isNotFirstWithdrawal[a]' = isNotFirstWithdrawal[a]
      BY <1>1 DEF Investment, InvestedAmount
    <2>3. /\ AvailableDepositedAmount(a)' \in {AvailableDepositedAmount(a), 0}
          /\ AvailableDepositedAmount(a) \in Nat
          /\ register[a].deadline \in Nat
      BY <1>1, AccountTypes DEF AvailableDepositedAmount
    <2>4. /\ IsInDeadline(a)' => IsInDeadline(a) /\ UnlockId(a)' = UnlockId(a)
          /\ ~IsInDeadline(a)' => UnlockId(a) = now \div TradingCycle
      <3>1. IsInDeadline(a)' = (register[a].deadline >= now + 1)
        BY <1>1 DEF IsInDeadline
      <3>2. UnlockId(a)' = (IF register[a].deadline >= now + 1
                            THEN register[a].deadline ELSE now + 1) \div TradingCycle
        BY <1>1 DEF IsInDeadline, UnlockId
      <3>3. CASE register[a].deadline >= now + 1
        BY <1>1, <2>3, <3>1, <3>2, <3>3 DEF IsInDeadline, UnlockId
      <3>4. CASE ~(register[a].deadline >= now + 1)
        <4>1. register[a].deadline >= now => register[a].deadline = now
          BY <1>1, <2>3, <3>4
        <4> QED BY <3>1, <3>4, <4>1 DEF IsInDeadline, UnlockId
      <3> QED BY <3>3, <3>4
    <2>5. CASE investmentsOf[a] = <<>>
      <3>1. NewAccount(a)
        BY <2>1, <2>5 DEF AccountInv
      <3>2. NewAccount(a)'
        BY <2>2, <2>3, <3>1 DEF NewAccount
      <3> QED BY <2>1, <2>2, <2>5, <3>2 DEF AccountInv
    <2>6. CASE investmentsOf[a] # <<>>
      <3>1. InvestorInv(a)
        BY <2>1, <2>6 DEF AccountInv
      <3>2. Investment(a).idChanged \in Nat /\ Investment(a).amount \in Nat
            /\ register[a].amount \in Nat
        BY <1>1, <2>6, AccountTypes
      <3>3. ASSUME Investment(a).idChanged > FundingId' PROVE PendingRequest(a)'
        <4> DEFINE previous == investmentsOf[a][Len(investmentsOf[a]) - 1]
        <4>1. Investment(a).idChanged > FundingId
          BY <1>3, <3>2, <3>3
        <4>2. PendingRequest(a)
          BY <3>1, <4>1 DEF InvestorInv
        <4>3. register[a].amount > 0 => UnlockId(a)' = Investment(a).idChanged
          BY <1>3, <2>4, <3>2, <4>1, <4>2 DEF PendingRequest
        <4>4. AvailableDepositedAmount(a)' = 0
          BY <2>3, <4>2 DEF PendingRequest
        <4>5. previous.idChanged <= FundingId'
          <5>1. Len(investmentsOf[a]) - 1 \in 1 .. Len(investmentsOf[a])
            BY <1>1, <2>6, <4>2, AccountTypes DEF PendingRequest
          <5>2. previous \in InvestmentType
            BY <1>1, <5>1, AccountTypes
          <5>3. previous.idChanged \in Nat
            BY <5>2 DEF InvestmentType
          <5> QED BY <1>3, <4>2, <5>3 DEF PendingRequest
        <4> QED BY <2>2, <4>2, <4>3, <4>4, <4>5 DEF PendingRequest
      <3>4. AvailableDepositedAmount(a)' <= Investment(a).amount
        BY <2>3, <3>1, <3>2 DEF InvestorInv
      <3>5. Investment(a).idChanged <= FundingId' + 1
        BY <1>3, <3>1, <3>2 DEF InvestorInv
      <3>6. /\ IsInDeadline(a)' => UnlockId(a)' <= Investment(a).idChanged
            /\ IsInDeadline(a)' /\ isNotFirstWithdrawal[a] => UnlockId(a)' <= FundingId'
        <4> SUFFICES ASSUME IsInDeadline(a)'
                     PROVE  /\ UnlockId(a)' <= Investment(a).idChanged
                            /\ isNotFirstWithdrawal[a] => UnlockId(a)' <= FundingId'
          OBVIOUS
        <4>1. /\ UnlockId(a)' = UnlockId(a)
              /\ UnlockId(a) <= Investment(a).idChanged
              /\ isNotFirstWithdrawal[a] => UnlockId(a) <= FundingId
          BY <2>4, <3>1 DEF InvestorInv
        <4>2. UnlockId(a) \in Nat
          BY <1>1, <2>3, Quotient, CycleConstants DEF UnlockId
        <4> QED BY <1>3, <4>1, <4>2
      <3>7. InvestorInv(a)'
        BY <2>2, <3>3, <3>4, <3>5, <3>6 DEF InvestorInv
      <3> QED BY <2>1, <2>2, <2>6, <3>7 DEF AccountInv
    <2> QED BY <2>5, <2>6
  <1> QED BY <1>2, <1>4

\* Every step keeps the invariant.
LEMMA StepKeepsIInv ==
    ASSUME Aligned, IInv, [Next]_vars
    PROVE  IInv'
  <1>1. /\ AccountTypeOK /\ CalendarInv /\ \A a \in Accounts : AccountInv(a)
    BY DEF IInv
  <1>2. /\ CalendarInv' /\ now' \in Nat
        /\ tradingCycles' \in Seq([id : Nat, startTime : Nat, endTime : Nat])
        /\ tradingCycles' # <<>>
    BY <1>1, CalendarStep
  <1> SUFFICES AccountTypeOK' /\ \A a \in Accounts : AccountInv(a)'
    BY <1>2 DEF IInv
  <1>3. ASSUME UNCHANGED <<now, accountVars, registerVars, ipcog>>
        PROVE  AccountTypeOK' /\ \A a \in Accounts : AccountInv(a)'
    <2>1. AccountTypeOK'
      BY <1>1, <1>2, <1>3 DEF AccountTypeOK, accountVars, registerVars
    <2>2. ASSUME NEW a \in Accounts PROVE AccountInv(a)'
      BY <1>1, <1>3, SameAccount DEF accountVars, registerVars
    <2> QED BY <2>1, <2>2
  <1>4. CASE Tick
    BY <1>4, TickStep
  <1>5. CASE \E n \in 0 .. DueCycles : UpdateCurrentTradingCycle(n)
    BY <1>3, <1>5 DEF UpdateCurrentTradingCycle, shareVars
  <1>6. CASE \E a \in Accounts : UserStep(a)
    <2>1. PICK a \in Accounts : UserStep(a)
      BY <1>6
    <2>2. CASE \E amount \in DepositAmounts : Deposit(a, amount)
      BY <1>2, <2>2, DepositStep
    <2>3. CASE \E amount \in WithdrawAmounts : RequestWithdrawal(a, amount)
      BY <1>2, <2>3, RequestStep
    <2>4. CASE \E amount \in WithdrawAmounts : Claim(a, amount)
      BY <2>4, ClaimStep
    <2>5. CASE \E amount \in WithdrawAmounts : ForceWithdraw(a, amount)
      BY <2>5, ForceWithdrawStep
    <2> QED BY <2>1, <2>2, <2>3, <2>4, <2>5 DEF UserStep
  <1>7. CASE TakeInvestment
    BY <1>3, <1>7 DEF TakeInvestment, shareVars
  <1>8. CASE \E amount \in TransferAmounts : SendRequestedWithdrawal(amount)
    BY <1>3, <1>8 DEF SendRequestedWithdrawal, shareVars
  <1>9. CASE UNCHANGED vars
    BY <1>3, <1>9 DEF vars, shareVars
  <1> QED BY <1>4, <1>5, <1>6, <1>7, <1>8, <1>9 DEF Next

\* The ids a deposit and a register reach are the quotients the invariant
\* speaks of.
LEMMA IdsAreQuotientsInIInv == IInv => IdsAreQuotients
  <1> SUFFICES ASSUME IInv PROVE IdsAreQuotients
    OBVIOUS
  <1>1. AccountTypeOK /\ CalendarInv
    BY DEF IInv
  <1>2. FutureCycle.id = FundingId
    BY <1>1, FundingTimeFacts
  <1>3. ASSUME NEW a \in Accounts
        PROVE  CycleAt(CurrentCycles, register[a].deadline).id = UnlockId(a)
    <2>1. register[a].deadline \in Nat /\ now \in Nat
      BY <1>1, AccountTypes
    <2> QED BY <1>1, <2>1, CurrentCycleOfTime DEF UnlockId, IsInDeadline
  <1> QED BY <1>2, <1>3 DEF IdsAreQuotients

\* The invariant holds in every reachable state.
LEMMA IInvIsInvariant == ASSUME Aligned PROVE Spec => []IInv
  BY InitIInv, StepKeepsIInv, PTL DEF Spec

----------------------------------------------------------------------------
\* Every field of an account's storage keeps its type: no subtraction of a
\* handler takes an investment, a register or a balance below zero.
THEOREM AccountTypes_Safe == ASSUME Aligned PROVE Spec => []AccountTypeOK
  <1>1. IInv => AccountTypeOK
    BY DEF IInv
  <1> QED BY <1>1, IInvIsInvariant, PTL

\* Every IPCOG an account holds is backed by what it has invested and what
\* it has registered, whatever it deposits, requests, claims or forces out,
\* and in whatever order.
THEOREM AccountBacking_Safe == ASSUME Aligned PROVE Spec => []AccountBacking
  <1>1. IInv => AccountBacking
    BY DEF IInv, AccountInv, AccountBacking
  <1> QED BY <1>1, IInvIsInvariant, PTL

\* At any time a deposit finds in the investment list what a request that is
\* still pending took away.
THEOREM PendingIsReversible_Safe == ASSUME Aligned PROVE Spec => []PendingIsReversible
  <1>1. IInv => PendingIsReversible
    BY IdsAreQuotientsInIInv DEF IInv, PendingIsReversible
  <1> QED BY <1>1, IInvIsInvariant, PTL

\* A step never moves the deadline of a register that stays in use.
LEMMA StepKeepsDeadline ==
    ASSUME Aligned, IInv, Next, NEW a \in Accounts,
           register[a].amount > 0, register'[a].amount > 0
    PROVE  register'[a].deadline = register[a].deadline
  <1> DEFINE Kept == register'[a].deadline = register[a].deadline
  <1>1. AccountTypeOK /\ CalendarInv /\ AccountInv(a)
    BY DEF IInv
  <1>2. register \in [Accounts -> [amount : Nat, deadline : Nat]]
    BY <1>1 DEF AccountTypeOK
  <1>3. ASSUME UNCHANGED register PROVE Kept
    BY <1>3
  <1>4. ASSUME NEW b \in Accounts, b # a, NEW r, register' = [register EXCEPT ![b] = r]
        PROVE  Kept
    BY <1>2, <1>4
  <1>5. ASSUME NEW b \in Accounts, UserStep(b) PROVE Kept
    <2>1. CASE \E amount \in DepositAmounts : Deposit(b, amount)
      <3>1. PICK amount \in DepositAmounts : Deposit(b, amount)
        BY <2>1
      <3> DEFINE x == amount - FeeOf(amount, feeConfiguration.depositFee)
                 w == b \in whitelist
                 done == HandleIncrease(b, x, w)
                 invs == done.book.investments
                 reg == done.register
      <3>2. register' = [register EXCEPT ![b] = reg]
        BY <3>1 DEF Deposit
      <3>3. CASE b = a
        <4>1. x \in Nat
          <5>1. amount \in Nat /\ feeConfiguration.depositFee \in 0 .. FeeBase
            BY <1>1, AmountAssumption DEF CalendarInv
          <5>2. FeeOf(amount, feeConfiguration.depositFee) \in 0 .. amount
            BY <5>1, FeeIsPart
          <5> QED BY <5>1, <5>2
        <4>2. w \in BOOLEAN /\ AccountInv(b)
          BY <1>1, <3>3
        <4> HIDE DEF x, w
        <4>3. /\ invs \in Seq(InvestmentType)
              /\ invs # <<>>
              /\ done.deposited \in Nat
              /\ done.register \in [amount : Nat, deadline : Nat]
              /\ GetLast(invs).amount + done.register.amount
                     = InvestedAmount(b) + register[b].amount + done.deposited
              /\ AvailableDepositedAmount(b) + done.deposited <= GetLast(invs).amount
              /\ \/ FreshOutcome(b, invs, done.register)
                 \/ /\ PendingOutcome(b, invs, done.register)
                    /\ done.deposited = 0
          BY <1>1, <4>1, <4>2, HandleIncreaseFacts, Zenon
        <4> HIDE DEF done
        <4>4. reg = [amount |-> 0, deadline |-> now]
              \/ reg.deadline = register[b].deadline
          BY <4>3 DEF FreshOutcome, PendingOutcome
        <4>5. register'[a] = reg
          BY <1>2, <3>2, <3>3
        <4> HIDE DEF reg
        <4> QED BY <3>3, <4>4, <4>5
      <3> HIDE DEF reg
      <3> QED BY <1>4, <3>2, <3>3
    <2>2. CASE \E amount \in WithdrawAmounts : RequestWithdrawal(b, amount)
      <3>1. PICK amount \in WithdrawAmounts : RequestWithdrawal(b, amount)
        BY <2>2
      <3> DEFINE reg == [amount |-> register[b].amount + amount, deadline |-> LockTime(b)]
      <3>2. /\ register' = [register EXCEPT ![b] = reg]
            /\ IsInDeadline(b) \/ register[b].amount = 0
        BY <1>2, <3>1 DEF RequestWithdrawal, RegisterWithdrawal
      <3>3. CASE b = a
        <4>1. IsInDeadline(a)
          BY <3>2, <3>3
        <4>2. LockTime(a) = register[a].deadline
          BY <1>1, <4>1, RequestTimes
        <4> QED BY <1>2, <3>2, <3>3, <4>2
      <3> HIDE DEF reg
      <3> QED BY <1>4, <3>2, <3>3
    <2>3. CASE \E amount \in WithdrawAmounts : Claim(b, amount)
      BY <1>2, <2>3 DEF Claim
    <2>4. CASE \E amount \in WithdrawAmounts : ForceWithdraw(b, amount)
      BY <1>3, <2>4 DEF ForceWithdraw, registerVars
    <2> QED BY <1>5, <2>1, <2>2, <2>3, <2>4 DEF UserStep
  <1>6. CASE \E n \in 0 .. DueCycles : UpdateCurrentTradingCycle(n)
    BY <1>3, <1>6 DEF UpdateCurrentTradingCycle, registerVars
  <1>7. CASE Tick \/ TakeInvestment
             \/ \E amount \in TransferAmounts : SendRequestedWithdrawal(amount)
    BY <1>3, <1>7 DEF Tick, TakeInvestment, SendRequestedWithdrawal, registerVars
  <1> QED BY <1>5, <1>6, <1>7 DEF Next

\* While an account is owed a registered amount, no request, deposit or
\* claim of any account moves the deadline it was given.
THEOREM DeadlineIsKept_Safe == ASSUME Aligned PROVE Spec => DeadlineIsKept
  <1> DEFINE A == \A a \in Accounts :
                      register[a].amount > 0 /\ register'[a].amount > 0
                          => register'[a].deadline = register[a].deadline
  <1>1. IInv /\ [Next]_vars => [A]_vars
    BY StepKeepsDeadline
  <1>2. Spec => [][A]_vars
    BY <1>1, IInvIsInvariant, PTL DEF Spec
  <1> QED BY <1>2 DEF DeadlineIsKept
=============================================================================
