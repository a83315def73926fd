----------------------- MODULE TradingCycleLoop_proofs -----------------------
(***************************************************************************)
(* Proofs about the loop that extends a calendar, for all durations, times *)
(* and limits: the closed forms of PrecogV5Library are what it computes,   *)
(* also when the length of the cycles changes on the way.  The argument is *)
(* about the marks of a calendar, the times at which its cycles end.       *)
(***************************************************************************)
EXTENDS TradingCycleLoop, PrecogV5_proofs, SumTheorems

----------------------------------------------------------------------------
\* Marks.

\* A cycle that lasts some time.
IsCycle(c) == c \in Cycle /\ c.startTime < c.endTime

\* How many of the first k cycles after c keep its length.
OldAmong(c, apply, k) ==
    IF k < OldLengthCycles(c, apply) THEN k ELSE OldLengthCycles(c, apply)

\* When the k-th cycle after c ends.
Mark(c, d, apply, k) ==
    c.endTime + OldAmong(c, apply, k) * Duration(c) + (k - OldAmong(c, apply, k)) * d

\* The times of a cycle.
LEMMA CycleTimes ==
    ASSUME NEW c, IsCycle(c)
    PROVE  /\ c.id \in Nat /\ c.startTime \in Nat /\ c.endTime \in Nat
           /\ Duration(c) \in Nat \ {0}
           /\ c.endTime = c.startTime + Duration(c)
  BY DEF IsCycle, Cycle, Duration

\* The cycles that keep the length of c reach applyTime, the last of them
\* for the first time.
LEMMA OldLengths ==
    ASSUME NEW c, IsCycle(c), NEW apply \in Nat
    PROVE  LET m == OldLengthCycles(c, apply)
           IN /\ m \in Nat
              /\ apply <= c.endTime => m = 0
              /\ c.endTime < apply =>
                     /\ m > 0
                     /\ c.endTime + (m - 1) * Duration(c) < apply
                     /\ apply <= c.endTime + m * Duration(c)
  <1> DEFINE m == OldLengthCycles(c, apply)
             D == Duration(c)
             x == apply - c.endTime + D - 1
  <1>1. D \in Nat \ {0} /\ c.endTime \in Nat
    BY CycleTimes
  <1>2. CASE apply <= c.endTime
    BY <1>1, <1>2 DEF OldLengthCycles
  <1>3. CASE c.endTime < apply
    <2>1. m = x \div D
      BY <1>3 DEF OldLengthCycles
    <2>2. x \in Nat /\ x >= D
      BY <1>1, <1>3
    <2> HIDE DEF x, D
    <2>3. m \in Nat /\ m * D <= x /\ x < m * D + D
      BY <1>1, <2>1, <2>2, Quotient
    <2>4. m # 0
      BY <1>1, <2>2, <2>3
    <2>5. m * D \in Nat /\ (m - 1) * D = m * D - D
      BY <1>1, <2>3
    <2> QED BY <1>1, <1>3, <2>3, <2>4, <2>5 DEF x, D
  <1> QED BY <1>1, <1>2, <1>3

\* A mark is a time, and the next one is a length later.
LEMMA MarkSteps ==
    ASSUME NEW c, IsCycle(c), NEW d \in Nat \ {0}, NEW apply \in Nat, NEW k \in Nat
    PROVE  /\ Mark(c, d, apply, k) \in Nat
           /\ Mark(c, d, apply, 0) = c.endTime
           /\ Mark(c, d, apply, k + 1) =
                  Mark(c, d, apply, k)
                      + IF k < OldLengthCycles(c, apply) THEN Duration(c) ELSE d
           /\ c.endTime <= Mark(c, d, apply, k)
  <1> DEFINE m == OldLengthCycles(c, apply)
             D == Duration(c)
  <1>1. D \in Nat \ {0} /\ c.endTime \in Nat /\ m \in Nat
    BY CycleTimes, OldLengths
  <1> HIDE DEF m, D
  <1>2. ASSUME NEW j \in Nat
        PROVE  Mark(c, d, apply, j) = IF j < m THEN c.endTime + j * D
                                      ELSE c.endTime + m * D + (j - m) * d
    <2>1. CASE j < m
      <3>1. Mark(c, d, apply, j) = c.endTime + j * D + (j - j) * d
        BY <2>1 DEF Mark, OldAmong, m, D
      <3>2. j * D \in Nat /\ (j - j) * d = 0
        BY <1>1
      <3> QED BY <1>1, <2>1, <3>1, <3>2
    <2>2. CASE ~(j < m)
      BY <2>2 DEF Mark, OldAmong, m, D
    <2> QED BY <2>1, <2>2
  <1>3. k * D \in Nat /\ m * D \in Nat /\ (k + 1) * D = k * D + D
    BY <1>1
  <1>4. CASE k + 1 < m
    <2>1. Mark(c, d, apply, k) = c.endTime + k * D
          /\ Mark(c, d, apply, k + 1) = c.endTime + (k + 1) * D
      BY <1>1, <1>2, <1>4
    <2>2. Mark(c, d, apply, 0) = c.endTime + 0 * D
      BY <1>1, <1>2, <1>4
    <2> QED BY <1>1, <1>3, <1>4, <2>1, <2>2 DEF m, D
  <1>5. CASE k + 1 = m
    <2>1. Mark(c, d, apply, k) = c.endTime + k * D
          /\ Mark(c, d, apply, k + 1) = c.endTime + m * D + ((k + 1) - m) * d
      <3>1. k < m /\ k + 1 \in Nat /\ ~(k + 1 < m)
        BY <1>1, <1>5
      <3>2. Mark(c, d, apply, k) = c.endTime + k * D
        BY <1>2, <3>1
      <3>3. Mark(c, d, apply, k + 1) = c.endTime + m * D + ((k + 1) - m) * d
        BY <1>2, <3>1
      <3> QED BY <3>2, <3>3
    <2>2. ((k + 1) - m) * d = 0
      <3>1. (k + 1) - m = 0 /\ 0 * d = 0
        BY <1>1, <1>5
      <3> QED BY <3>1
    <2>3. m * D = k * D + D
      BY <1>3, <1>5
    <2>4. Mark(c, d, apply, 0) = c.endTime + 0 * D
      BY <1>1, <1>2, <1>5
    <2>5. Mark(c, d, apply, k + 1) = Mark(c, d, apply, k) + D
      BY ONLY <1>1, <1>3, <2>1, <2>2, <2>3
    <2>6. Mark(c, d, apply, k) \in Nat /\ c.endTime <= Mark(c, d, apply, k)
          /\ Mark(c, d, apply, 0) = c.endTime
      BY <1>1, <1>3, <2>1, <2>4
    <2> QED BY <1>1, <1>5, <2>5, <2>6 DEF m, D
  <1>6. CASE m <= k
    <2>1. Mark(c, d, apply, k) = c.endTime + m * D + (k - m) * d
          /\ Mark(c, d, apply, k + 1) = c.endTime + m * D + ((k + 1) - m) * d
      BY <1>1, <1>2, <1>6, k + 1 \in Nat
    <2>2. k - m \in Nat /\ (k + 1) - m = (k - m) + 1
      BY <1>1, <1>6
    <2>3. (k - m) * d \in Nat /\ ((k + 1) - m) * d = (k - m) * d + d
      <3>1. \A r \in Nat : r * d \in Nat /\ (r + 1) * d = r * d + d
        OBVIOUS
      <3> QED BY <2>2, <3>1
    <2>4. Mark(c, d, apply, 0) = c.endTime
      <3>1. CASE m = 0
        <4>1. Mark(c, d, apply, 0) = c.endTime + 0 * D + 0 * d
          BY <1>1, <1>2, <3>1
        <4> QED BY <1>1, <4>1
      <3>2. CASE m # 0
        <4>1. Mark(c, d, apply, 0) = c.endTime + 0 * D
          BY <1>1, <1>2, <3>2
        <4> QED BY <1>1, <4>1
      <3> QED BY <3>1, <3>2
    <2> QED BY <1>1, <1>3, <1>6, <2>1, <2>2, <2>3, <2>4 DEF m, D
  <1> QED BY <1>1, <1>4, <1>5, <1>6

\* Later marks are later: no two cycles end at the same time.
LEMMA MarksAreOrdered ==
    ASSUME NEW c, IsCycle(c), NEW d \in Nat \ {0}, NEW apply \in Nat,
           NEW p \in Nat, NEW q \in Nat, p < q
    PROVE  Mark(c, d, apply, p) < Mark(c, d, apply, q)
  <1> DEFINE P(k) == Mark(c, d, apply, p) < Mark(c, d, apply, p + 1 + k)
  <1>1. \A k \in Nat : Mark(c, d, apply, k) \in Nat
    BY MarkSteps
  <1>2. \A k \in Nat : Mark(c, d, apply, k) < Mark(c, d, apply, k + 1)
    <2> SUFFICES ASSUME NEW k \in Nat
                 PROVE  Mark(c, d, apply, k) < Mark(c, d, apply, k + 1)
      OBVIOUS
    <2>1. Duration(c) \in Nat \ {0}
      BY CycleTimes
    <2>2. Mark(c, d, apply, k + 1) =
              Mark(c, d, apply, k) + IF k < OldLengthCycles(c, apply) THEN Duration(c) ELSE d
      BY MarkSteps
    <2> QED BY <1>1, <2>1, <2>2
  <1>3. P(0)
    BY <1>2
  <1>4. \A k \in Nat : P(k) => P(k + 1)
    <2> SUFFICES ASSUME NEW k \in Nat, P(k) PROVE P(k + 1)
      OBVIOUS
    <2>1. p + 1 + k \in Nat /\ p + 1 + (k + 1) = (p + 1 + k) + 1
      OBVIOUS
    <2> QED BY <1>1, <1>2, <2>1
  <1>5. \A k \in Nat : P(k)
    <2> DEFINE S == {k \in Nat : P(k)}
    <2>1. 0 \in S /\ \A k \in Nat : k \in S => k + 1 \in S
      BY <1>3, <1>4
    <2> HIDE DEF S
    <2>2. Nat \subseteq S
      BY <2>1, NatSetInduction
    <2> QED BY <2>2 DEF S
  <1> QED BY <1>5, q - p - 1 \in Nat, p + 1 + (q - p - 1) = q

\* The marks before applyTime are those of the cycles that keep the length.
LEMMA MarksBefore ==
    ASSUME NEW c, IsCycle(c), NEW d \in Nat \ {0}, NEW apply \in Nat, NEW k \in Nat
    PROVE  Mark(c, d, apply, k) < apply <=> k < OldLengthCycles(c, apply)
  <1> DEFINE m == OldLengthCycles(c, apply)
             D == Duration(c)
  <1>1. D \in Nat \ {0} /\ c.endTime \in Nat /\ m \in Nat
    BY CycleTimes, OldLengths
  <1>2. CASE k < m
    <2>1. c.endTime + (m - 1) * D < apply
      BY <1>1, <1>2, OldLengths
    <2>2. Mark(c, d, apply, k) = c.endTime + k * D
      <3>1. Mark(c, d, apply, k) = c.endTime + k * D + (k - k) * d
        BY <1>2 DEF Mark, OldAmong
      <3>2. (k - k) * d = 0 /\ k * D \in Nat
        BY <1>1
      <3> HIDE DEF D
      <3> QED BY <1>1, <3>1, <3>2
    <2>3. k * D <= (m - 1) * D
      BY <1>1, <1>2, ProductIsMonotone, m - 1 \in Nat, k <= m - 1
    <2>4. k * D \in Nat /\ (m - 1) * D \in Nat
      BY <1>1, <1>2, m - 1 \in Nat
    <2> HIDE DEF m, D
    <2>5. Mark(c, d, apply, k) < apply
      BY <1>1, <2>1, <2>2, <2>3, <2>4
    <2> QED BY <1>2, <2>5 DEF m
  <1>3. CASE ~(k < m)
    <2>1. apply <= c.endTime + m * D
      BY <1>1, OldLengths
    <2>2. Mark(c, d, apply, k) = c.endTime + m * D + (k - m) * d
      BY <1>3 DEF Mark, OldAmong
    <2>3. m * D \in Nat /\ (k - m) * d \in Nat
      BY <1>1, <1>3, k - m \in Nat
    <2> HIDE DEF m, D
    <2>4. ~(Mark(c, d, apply, k) < apply)
      BY <1>1, <2>1, <2>2, <2>3
    <2> QED BY <1>3, <2>4 DEF m
  <1> QED BY <1>2, <1>3

\* The k-th cycle lies between two marks.
LEMMA NthCycleBetweenMarks ==
    ASSUME NEW c, IsCycle(c), NEW d \in Nat \ {0}, NEW apply \in Nat,
           NEW k \in Nat \ {0}
    PROVE  /\ NthCycle(c, d, apply, k) = [id        |-> c.id + k,
                                          startTime |-> Mark(c, d, apply, k - 1),
                                          endTime   |-> Mark(c, d, apply, k)]
           /\ IsCycle(NthCycle(c, d, apply, k))
  <1> DEFINE m == OldLengthCycles(c, apply)
             D == Duration(c)
             p == k - 1
  <1>1. p \in Nat /\ p + 1 = k
    OBVIOUS
  <1>2. D \in Nat \ {0} /\ c.id \in Nat
    BY CycleTimes
  <1>3. /\ Mark(c, d, apply, p) \in Nat
        /\ Mark(c, d, apply, k) = Mark(c, d, apply, p) + IF p < m THEN D ELSE d
    <2> HIDE DEF p, D, m
    <2>1. /\ Mark(c, d, apply, p) \in Nat
          /\ Mark(c, d, apply, p + 1) = Mark(c, d, apply, p) + IF p < m THEN D ELSE d
      BY <1>1, MarkSteps DEF D, m
    <2> QED BY <1>1, <2>1
  <1>4. NthCycle(c, d, apply, k)
          = [id |-> c.id + k, startTime |-> Mark(c, d, apply, p),
             endTime |-> Mark(c, d, apply, p) + IF p < m THEN D ELSE d]
    BY Zenon DEF NthCycle, Mark, OldAmong
  <1> HIDE DEF p, D, m
  <1>5. NthCycle(c, d, apply, k)
          = [id |-> c.id + k, startTime |-> Mark(c, d, apply, p),
             endTime |-> Mark(c, d, apply, k)]
    BY <1>3, <1>4, Zenon
  <1>6. Mark(c, d, apply, p) < Mark(c, d, apply, k) /\ Mark(c, d, apply, k) \in Nat
    BY <1>2, <1>3
  <1>7. IsCycle(NthCycle(c, d, apply, k))
    BY <1>2, <1>3, <1>5, <1>6 DEF IsCycle, Cycle
  <1> QED BY <1>5, <1>7 DEF p

\* The calculated number of rounds ends with the cycle that contains t, or
\* with c itself if t is before its end.
LEMMA RoundsUntil ==
    ASSUME NEW c, IsCycle(c), NEW d \in Nat \ {0}, NEW apply \in Nat, NEW t \in Nat
    PROVE  LET n == CyclesUntil(c, d, apply, t)
           IN /\ n \in Nat
              /\ t < Mark(c, d, apply, n)
              /\ n # 0 => Mark(c, d, apply, n - 1) <= t
  <1> DEFINE m == OldLengthCycles(c, apply)
             D == Duration(c)
             pivot == c.endTime + m * D
             n == CyclesUntil(c, d, apply, t)
  <1>1. D \in Nat \ {0} /\ c.endTime \in Nat /\ m \in Nat /\ m * D \in Nat
    BY CycleTimes, OldLengths
  <1>2. CASE t < c.endTime
    <2>1. n = 0
      BY <1>2 DEF CyclesUntil
    <2> QED BY <1>2, <2>1, MarkSteps, 0 \in Nat
  <1>3. CASE c.endTime <= t /\ t < pivot
    <2> DEFINE x == t - c.endTime
               q == x \div D
    <2>1. n = q + 1
      BY <1>1, <1>3 DEF CyclesUntil
    <2>2. x \in Nat
      BY <1>1, <1>3
    <2> HIDE DEF x
    <2>3. q \in Nat /\ q * D <= x /\ x < q * D + D
      BY <1>1, <2>2, Quotient
    <2> HIDE DEF q
    <2>4. q < m
      <3> SUFFICES ASSUME m <= q PROVE FALSE
        BY <1>1, <2>3
      <3>1. m * D <= q * D
        BY <1>1, <2>3, ProductIsMonotone
      <3>2. q * D \in Nat
        BY <1>1, <2>3
      <3> QED BY <1>1, <1>3, <2>3, <3>1, <3>2 DEF x
    <2>5. /\ Mark(c, d, apply, q) = c.endTime + q * D
          /\ Mark(c, d, apply, q + 1) = Mark(c, d, apply, q) + D
      <3>1. Mark(c, d, apply, q) = c.endTime + q * D + (q - q) * d
        BY <2>4 DEF Mark, OldAmong
      <3>2. (q - q) * d = 0 /\ q * D \in Nat
        BY <1>1, <2>3
      <3>3. Mark(c, d, apply, q + 1) = Mark(c, d, apply, q) + D
        BY <2>3, <2>4, MarkSteps
      <3> HIDE DEF D
      <3> QED BY <1>1, <3>1, <3>2, <3>3
    <2>6. q * D \in Nat
      BY <1>1, <2>3
    <2> HIDE DEF D, n
    <2>7. Mark(c, d, apply, q) <= t /\ t < Mark(c, d, apply, q + 1)
      BY <1>1, <1>3, <2>3, <2>5, <2>6 DEF x
    <2> QED BY <2>1, <2>3, <2>7, (q + 1) - 1 = q DEF n
  <1>4. CASE c.endTime <= t /\ pivot <= t
    <2> DEFINE x == t - pivot
               q == x \div d
    <2>1. n = m + q + 1
      BY <1>1, <1>4 DEF CyclesUntil
    <2>2. x \in Nat
      BY <1>1, <1>4
    <2> HIDE DEF x
    <2>3. q \in Nat /\ q * d <= x /\ x < q * d + d
      BY <2>2, Quotient
    <2> HIDE DEF q
    <2>4. /\ Mark(c, d, apply, m + q) = pivot + q * d
          /\ Mark(c, d, apply, (m + q) + 1) = Mark(c, d, apply, m + q) + d
      <3>1. ~(m + q < m) /\ m + q \in Nat /\ (m + q) - m = q
        BY <1>1, <2>3
      <3>2. Mark(c, d, apply, m + q) = c.endTime + m * D + ((m + q) - m) * d
        BY <3>1 DEF Mark, OldAmong
      <3>3. Mark(c, d, apply, (m + q) + 1) = Mark(c, d, apply, m + q) + d
        BY <3>1, MarkSteps
      <3> HIDE DEF m, D
      <3> QED BY <3>1, <3>2, <3>3
    <2>5. q * d \in Nat /\ pivot \in Nat
      BY <1>1, <2>3
    <2> HIDE DEF pivot, n, m
    <2>6. Mark(c, d, apply, m + q) <= t /\ t < Mark(c, d, apply, (m + q) + 1)
      BY <1>4, <2>3, <2>4, <2>5 DEF x
    <2>7. n = (m + q) + 1 /\ n - 1 = m + q /\ n \in Nat
      BY <1>1, <2>1, <2>3
    <2> QED BY <2>6, <2>7 DEF n
  <1> QED BY <1>1, <1>2, <1>3, <1>4

\* There is one such number: the cycle that contains a time is determined.
LEMMA RoundsAreUnique ==
    ASSUME NEW c, IsCycle(c), NEW d \in Nat \ {0}, NEW apply \in Nat, NEW t \in Nat,
           NEW n \in Nat, t < Mark(c, d, apply, n),
           n # 0 => Mark(c, d, apply, n - 1) <= t
    PROVE  n = CyclesUntil(c, d, apply, t)
  <1> DEFINE k == CyclesUntil(c, d, apply, t)
  <1>1. k \in Nat /\ t < Mark(c, d, apply, k)
        /\ (k # 0 => Mark(c, d, apply, k - 1) <= t)
    BY RoundsUntil
  <1>2. \A i \in Nat : Mark(c, d, apply, i) \in Nat
    BY MarkSteps
  <1> HIDE DEF k
  <1>3. ASSUME NEW i \in Nat, NEW j \in Nat, i < j, t < Mark(c, d, apply, i),
               Mark(c, d, apply, j - 1) <= t
        PROVE  FALSE
    <2>1. j - 1 \in Nat /\ (i = j - 1 \/ i < j - 1)
      BY <1>3
    <2>2. Mark(c, d, apply, i) <= Mark(c, d, apply, j - 1)
      <3>1. CASE i = j - 1
        BY <1>2, <3>1
      <3>2. CASE i < j - 1
        <4>1. Mark(c, d, apply, i) < Mark(c, d, apply, j - 1)
          BY <2>1, <3>2, MarksAreOrdered
        <4> QED BY <1>2, <2>1, <4>1
      <3> QED BY <2>1, <3>1, <3>2
    <2> QED BY <1>2, <1>3, <2>1, <2>2
  <1>4. ~(n < k) /\ ~(k < n)
    BY <1>1, <1>3
  <1> QED BY <1>1, <1>4 DEF k

\* The calendar from a later cycle on has the same marks.
LEMMA LaterMarks ==
    ASSUME NEW c, IsCycle(c), NEW d \in Nat \ {0}, NEW apply \in Nat,
           NEW k \in Nat \ {0}, NEW j \in Nat
    PROVE  Mark(NthCycle(c, d, apply, k), d, apply, j) = Mark(c, d, apply, k + j)
  <1> DEFINE e == NthCycle(c, d, apply, k)
             m == OldLengthCycles(c, apply)
             D == Duration(c)
             l == OldLengthCycles(e, apply)
             S == {i \in Nat : Mark(e, d, apply, i) = Mark(c, d, apply, k + i)}
  <1>1. D \in Nat \ {0} /\ m \in Nat
    BY CycleTimes, OldLengths
  <1>2. /\ IsCycle(e) /\ e.endTime = Mark(c, d, apply, k)
        /\ e.startTime = Mark(c, d, apply, k - 1)
    BY NthCycleBetweenMarks
  <1>3. \A i \in Nat : Mark(c, d, apply, i) \in Nat
    BY MarkSteps
  <1> HIDE DEF e
  <1>4. ASSUME k < m PROVE Duration(e) = D
    <2>1. Mark(c, d, apply, (k - 1) + 1) = Mark(c, d, apply, k - 1) + D
      BY <1>1, <1>4, MarkSteps, k - 1 \in Nat, k - 1 < m
    <2>2. Mark(c, d, apply, k) = Mark(c, d, apply, k - 1) + D
      BY <2>1, (k - 1) + 1 = k
    <2> QED BY <1>1, <1>2, <1>3, <2>2, k - 1 \in Nat DEF Duration
  <1>5. 0 \in S
    <2>1. Mark(e, d, apply, 0) = e.endTime
      BY <1>2, MarkSteps, 0 \in Nat
    <2> QED BY <1>2, <2>1, k + 0 = k
  <1>6. ASSUME NEW i \in Nat, i \in S PROVE i + 1 \in S
    <2>1. Mark(e, d, apply, i + 1) = Mark(e, d, apply, i) + IF i < l THEN Duration(e) ELSE d
      BY <1>2, MarkSteps
    <2>2. Mark(c, d, apply, (k + i) + 1)
              = Mark(c, d, apply, k + i) + IF k + i < m THEN D ELSE d
      BY MarkSteps, k + i \in Nat
    <2>3. Mark(e, d, apply, i) = Mark(c, d, apply, k + i)
      BY <1>6
    <2>4. i < l <=> k + i < m
      <3>1. Mark(e, d, apply, i) < apply <=> i < l
        BY <1>2, MarksBefore
      <3>2. Mark(c, d, apply, k + i) < apply <=> k + i < m
        BY MarksBefore, k + i \in Nat
      <3> QED BY <2>3, <3>1, <3>2
    <2>5. k + i < m => k < m
      BY <1>1
    <2>6. Mark(e, d, apply, i + 1) = Mark(c, d, apply, (k + i) + 1)
      <3> HIDE DEF D, m, l
      <3> QED BY <1>4, <2>1, <2>2, <2>3, <2>4, <2>5, Zenon
    <2> QED BY <2>6, (k + i) + 1 = k + (i + 1)
  <1>7. Nat \subseteq S
    <2> HIDE DEF S
    <2> QED BY <1>5, <1>6, NatSetInduction
  <1> QED BY <1>7 DEF e

----------------------------------------------------------------------------
\* The loop.

\* The k-th cycle of a calendar that starts with c.
CycleAfter(c, d, apply, k) == IF k = 0 THEN c ELSE NthCycle(c, d, apply, k)

\* The last cycle is the one that its number of pushes stands for.
LoopInv ==
    /\ IsCycle(first)
    /\ tradingCycle \in Nat \ {0}
    /\ applyTime \in Nat
    /\ pushed \in Seq(Cycle)
    /\ lastTradingCycle = CycleAfter(first, tradingCycle, applyTime, Len(pushed))

\* The times of such a cycle.
LEMMA CycleAfterTimes ==
    ASSUME NEW c, IsCycle(c), NEW d \in Nat \ {0}, NEW apply \in Nat, NEW k \in Nat
    PROVE  LET e == CycleAfter(c, d, apply, k)
           IN /\ IsCycle(e)
              /\ e.id = c.id + k
              /\ e.endTime = Mark(c, d, apply, k)
              /\ e.startTime = IF k = 0 THEN c.startTime ELSE Mark(c, d, apply, k - 1)
  <1>1. c.id \in Nat /\ Mark(c, d, apply, 0) = c.endTime
    BY CycleTimes, MarkSteps
  <1>2. CASE k = 0
    BY <1>1, <1>2 DEF CycleAfter
  <1>3. CASE k # 0
    BY <1>3, NthCycleBetweenMarks DEF CycleAfter
  <1> QED BY <1>2, <1>3

\* A new loop has pushed nothing.
LEMMA InitLoop == LoopInit => LoopInv
  <1> SUFFICES ASSUME LoopInit PROVE LoopInv
    OBVIOUS
  <1>1. PICK start \in 0 .. 1, length \in Durations :
            first = [id |-> 0, startTime |-> start, endTime |-> start + length]
    BY DEF LoopInit
  <1>2. start \in Nat /\ length \in Nat \ {0}
    BY LoopAssumption
  <1>3. IsCycle(first)
    BY <1>1, <1>2 DEF IsCycle, Cycle
  <1>4. tradingCycle \in Nat \ {0} /\ applyTime \in Nat
    BY LoopAssumption DEF LoopInit
  <1> QED BY <1>3, <1>4 DEF LoopInit, LoopInv, CycleAfter

\* A round pushes the next cycle: the old length is kept just as long as the
\* closed form says.
LEMMA PushStep ==
    ASSUME LoopInv, NEW timestamp, Push(timestamp)
    PROVE  LoopInv'
  <1> DEFINE k == Len(pushed)
             m == OldLengthCycles(first, applyTime)
             M(i) == Mark(first, tradingCycle, applyTime, i)
             last == lastTradingCycle
             next == [id |-> last.id + 1, startTime |-> last.endTime,
                      endTime |-> last.endTime + NewDuration]
  <1>1. IsCycle(first) /\ tradingCycle \in Nat \ {0} /\ applyTime \in Nat /\ k \in Nat
    BY DEF LoopInv
  <1>2. /\ IsCycle(last)
        /\ last.id = first.id + k
        /\ last.endTime = M(k)
        /\ last.startTime = IF k = 0 THEN first.startTime ELSE M(k - 1)
    BY <1>1, CycleAfterTimes DEF LoopInv
  <1>3. last' = next /\ pushed' = Append(pushed, next) /\ UNCHANGED parameters
    BY DEF Push
  <1>4. m \in Nat /\ Duration(first) \in Nat \ {0} /\ first.id \in Nat
        /\ Duration(last) = last.endTime - last.startTime
    BY <1>1, CycleTimes, OldLengths DEF Duration
  <1>5. k < m => Duration(last) = Duration(first)
    <2>1. CASE k = 0
      BY <1>1, <1>2, <1>4, <2>1, CycleTimes, MarkSteps DEF Duration
    <2>2. CASE k # 0 /\ k < m
      <3>1. k - 1 \in Nat /\ k - 1 < m /\ (k - 1) + 1 = k
        BY <1>1, <1>4, <2>2
      <3>2. M((k - 1) + 1) = M(k - 1) + Duration(first) /\ M(k - 1) \in Nat
        BY <1>1, <3>1, MarkSteps
      <3>3. M(k) = M(k - 1) + Duration(first)
        BY <3>1, <3>2
      <3> QED BY <1>2, <1>4, <2>2, <3>2, <3>3
    <2> QED BY <2>1, <2>2
  <1>6. NewDuration = IF k < m THEN Duration(first) ELSE tradingCycle
    <2>1. last.endTime < applyTime <=> k < m
      BY <1>1, <1>2, MarksBefore
    <2> HIDE DEF k, m
    <2> QED BY <1>5, <2>1 DEF NewDuration
  <1>7. M(k + 1) = M(k) + NewDuration
    BY <1>1, <1>6, MarkSteps
  <1>8. next = NthCycle(first, tradingCycle, applyTime, k + 1)
    <2>1. k + 1 \in Nat \ {0} /\ (k + 1) - 1 = k
      BY <1>1
    <2>2. NthCycle(first, tradingCycle, applyTime, k + 1)
              = [id |-> first.id + (k + 1), startTime |-> M((k + 1) - 1),
                 endTime |-> M(k + 1)]
      BY <1>1, <2>1, NthCycleBetweenMarks
    <2>3. last.id + 1 = first.id + (k + 1)
      BY <1>1, <1>2, <1>4
    <2> QED BY <1>2, <1>7, <2>1, <2>2, <2>3
  <1>9. IsCycle(next)
    <2>1. IsCycle(NthCycle(first, tradingCycle, applyTime, k + 1))
      BY <1>1, NthCycleBetweenMarks, k + 1 \in Nat \ {0}
    <2> HIDE DEF next
    <2> QED BY <1>8, <2>1
  <1> HIDE DEF next
  <1>10. pushed' \in Seq(Cycle) /\ Len(pushed') = k + 1
    BY <1>3, <1>9 DEF LoopInv, IsCycle
  <1>11. last' = CycleAfter(first, tradingCycle, applyTime, k + 1)
    BY <1>1, <1>3, <1>8 DEF CycleAfter
  <1> QED BY <1>1, <1>3, <1>10, <1>11 DEF LoopInv, parameters

\* The invariant holds in every reachable state.
LEMMA LoopInvariance == LoopSpec => []LoopInv
  <1>1. LoopInv /\ [LoopNext]_loopVars => LoopInv'
    <2> SUFFICES ASSUME LoopInv, [LoopNext]_loopVars PROVE LoopInv'
      OBVIOUS
    <2>1. CASE LoopNext
      BY <2>1, PushStep DEF LoopNext
    <2>2. CASE UNCHANGED loopVars
      BY <2>2 DEF LoopInv, loopVars, parameters
    <2> QED BY <2>1, <2>2
  <1> QED BY <1>1, InitLoop, PTL DEF LoopSpec

\* What is calculated for a time is the cycle of the rounds until it.
LEMMA CalculatedCycle ==
    ASSUME NEW c, NEW d, NEW apply, NEW t
    PROVE  CalculateTradingCycleByTimestamp(c, d, apply, t)
               = CycleAfter(c, d, apply, CyclesUntil(c, d, apply, t))
  BY DEF CalculateTradingCycleByTimestamp, CycleAfter

\* The loop of _updateCurrentTradingCycle runs, for any old and new length
\* and any time the change applies from, as often as the closed form says,
\* and stops at the cycle that _calculateTradingCycleByTimestamp returns.
THEOREM LoopStopsAtTimestamp == LoopSpec => []StopsAtTimestamp
  <1>1. LoopInv => StopsAtTimestamp
    <2> DEFINE k == Len(pushed)
    <2> SUFFICES ASSUME LoopInv, NEW timestamp \in 0 .. MaxTimestamp,
                        timestamp < lastTradingCycle.endTime,
                        lastTradingCycle = first
                            \/ timestamp >= lastTradingCycle.startTime
                 PROVE  /\ k = CyclesUntil(first, tradingCycle, applyTime, timestamp)
                        /\ lastTradingCycle = CalculateTradingCycleByTimestamp(
                               first, tradingCycle, applyTime, timestamp)
      BY DEF StopsAtTimestamp
    <2>1. /\ IsCycle(first) /\ tradingCycle \in Nat \ {0} /\ applyTime \in Nat
          /\ k \in Nat /\ timestamp \in Nat /\ first.id \in Nat
      BY LoopAssumption, CycleTimes DEF LoopInv
    <2>2. /\ lastTradingCycle = CycleAfter(first, tradingCycle, applyTime, k)
          /\ lastTradingCycle.id = first.id + k
          /\ lastTradingCycle.endTime = Mark(first, tradingCycle, applyTime, k)
          /\ lastTradingCycle.startTime = IF k = 0 THEN first.startTime
                 ELSE Mark(first, tradingCycle, applyTime, k - 1)
      <3> DEFINE e == CycleAfter(first, tradingCycle, applyTime, k)
      <3>1. /\ e.id = first.id + k
            /\ e.endTime = Mark(first, tradingCycle, applyTime, k)
            /\ e.startTime = IF k = 0 THEN first.startTime
                   ELSE Mark(first, tradingCycle, applyTime, k - 1)
        <4> HIDE DEF k
        <4> QED BY <2>1, CycleAfterTimes
      <3>2. lastTradingCycle = e
        BY DEF LoopInv
      <3> HIDE DEF e
      <3> QED BY <3>1, <3>2 DEF e
    <2>3. k # 0 => Mark(first, tradingCycle, applyTime, k - 1) <= timestamp
      <3>1. ASSUME k # 0 PROVE lastTradingCycle # first
        BY <2>1, <2>2, <3>1
      <3>2. ASSUME k # 0 PROVE Mark(first, tradingCycle, applyTime, k - 1) \in Nat
        BY <2>1, <3>2, MarkSteps, k - 1 \in Nat
      <3> QED BY <2>1, <2>2, <3>1, <3>2
    <2>4. k = CyclesUntil(first, tradingCycle, applyTime, timestamp)
      BY <2>1, <2>2, <2>3, RoundsAreUnique
    <2> QED BY <2>2, <2>4, CalculatedCycle
  <1> QED BY <1>1, LoopInvariance, PTL

\* However far limited updates have stored the calendar, a view answers the
\* same for a later time.
THEOREM PredictionsAreStable == LoopSpec => []PredictionIsStable
  <1>1. LoopInv => PredictionIsStable
    <2> DEFINE k == Len(pushed)
               d == tradingCycle
    <2> SUFFICES ASSUME LoopInv,
                        NEW t \in lastTradingCycle.startTime .. MaxTimestamp
                 PROVE  CalculateTradingCycleByTimestamp(lastTradingCycle, d, applyTime, t)
                            = CalculateTradingCycleByTimestamp(first, d, applyTime, t)
      BY DEF PredictionIsStable
    <2>1. /\ IsCycle(first) /\ d \in Nat \ {0} /\ applyTime \in Nat /\ k \in Nat
          /\ lastTradingCycle = CycleAfter(first, d, applyTime, k)
      BY DEF LoopInv
    <2>2. CASE k = 0
      BY <2>1, <2>2 DEF CycleAfter
    <2>3. CASE k # 0
      <3> DEFINE last == NthCycle(first, d, applyTime, k)
                 j == CyclesUntil(last, d, applyTime, t)
      <3>1. lastTradingCycle = last /\ k \in Nat \ {0}
        BY <2>1, <2>3 DEF CycleAfter
      <3>2. IsCycle(last) /\ last.startTime = Mark(first, d, applyTime, k - 1)
        <4> HIDE DEF last
        <4>1. /\ last = [id        |-> first.id + k,
                        startTime |-> Mark(first, d, applyTime, k - 1),
                        endTime   |-> Mark(first, d, applyTime, k)]
              /\ IsCycle(last)
          <5> USE DEF last
          <5> QED BY <2>1, <3>1, NthCycleBetweenMarks
        <4> QED BY <4>1
      <3>3. t \in Nat /\ last.startTime <= t
        BY <3>1, <3>2, CycleTimes, LoopAssumption
      <3>4. /\ j \in Nat
            /\ t < Mark(last, d, applyTime, j)
            /\ j # 0 => Mark(last, d, applyTime, j - 1) <= t
        BY <2>1, <3>2, <3>3, RoundsUntil
      <3> HIDE DEF j
      <3>5. \A i \in Nat : Mark(last, d, applyTime, i) = Mark(first, d, applyTime, k + i)
        BY <2>1, <3>1, LaterMarks
      <3>6. /\ k + j \in Nat /\ k + j # 0
            /\ t < Mark(first, d, applyTime, k + j)
        BY <3>1, <3>4, <3>5
      <3>7. Mark(first, d, applyTime, (k + j) - 1) <= t
        <4>1. CASE j = 0
          BY <3>1, <3>2, <3>3, <4>1, (k + 0) - 1 = k - 1
        <4>2. CASE j # 0
          <5>1. j - 1 \in Nat /\ k + (j - 1) = (k + j) - 1
            BY <3>1, <3>4, <4>2
          <5> QED BY <3>4, <3>5, <4>2, <5>1
        <4> QED BY <4>1, <4>2
      <3>8. k + j = CyclesUntil(first, d, applyTime, t)
        BY <2>1, <3>3, <3>6, <3>7, RoundsAreUnique
      <3>9. CycleAfter(last, d, applyTime, j) = CycleAfter(first, d, applyTime, k + j)
        <4>1. CASE j = 0
          BY <3>1, <4>1, k + 0 = k DEF CycleAfter
        <4>2. CASE j # 0
          <5>1. j \in Nat \ {0} /\ j - 1 \in Nat /\ k + j \in Nat \ {0}
                /\ k + (j - 1) = (k + j) - 1
            BY <3>1, <3>4, <4>2
          <5>2. NthCycle(last, d, applyTime, j)
                    = [id |-> last.id + j, startTime |-> Mark(last, d, applyTime, j - 1),
                       endTime |-> Mark(last, d, applyTime, j)]
            <6> HIDE DEF last
            <6> QED BY <2>1, <3>2, <5>1, NthCycleBetweenMarks
          <5>3. NthCycle(first, d, applyTime, k + j)
                    = [id |-> first.id + (k + j),
                       startTime |-> Mark(first, d, applyTime, (k + j) - 1),
                       endTime |-> Mark(first, d, applyTime, k + j)]
            BY <2>1, <5>1, NthCycleBetweenMarks
          <5>4. last.id + j = first.id + (k + j)
            <6>1. first.id \in Nat /\ last.id = first.id + k
              <7>1. last = [id |-> first.id + k,
                            startTime |-> Mark(first, d, applyTime, k - 1),
                            endTime |-> Mark(first, d, applyTime, k)]
                BY <2>1, <3>1, NthCycleBetweenMarks
              <7> HIDE DEF last
              <7> QED BY <2>1, <7>1, CycleTimes
            <6> QED BY <3>1, <3>4, <6>1
          <5>5. /\ Mark(last, d, applyTime, j - 1) = Mark(first, d, applyTime, (k + j) - 1)
                /\ Mark(last, d, applyTime, j) = Mark(first, d, applyTime, k + j)
            <6>1. Mark(last, d, applyTime, j - 1) = Mark(first, d, applyTime, k + (j - 1))
              BY <3>5, <5>1
            <6>2. Mark(last, d, applyTime, j) = Mark(first, d, applyTime, k + j)
              BY <3>4, <3>5
            <6> HIDE DEF last, k, d
            <6> QED BY <5>1, <6>1, <6>2
          <5> HIDE DEF last, k, d
          <5>6. NthCycle(last, d, applyTime, j) = NthCycle(first, d, applyTime, k + j)
            BY <5>2, <5>3, <5>4, <5>5
          <5> QED BY <3>6, <4>2, <5>6 DEF CycleAfter
        <4> QED BY <4>1, <4>2
      <3> QED BY <3>1, <3>8, <3>9, CalculatedCycle DEF j
    <2> QED BY <2>2, <2>3
  <1> QED BY <1>1, LoopInvariance, PTL
=============================================================================
