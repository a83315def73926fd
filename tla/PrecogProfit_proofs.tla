------------------------ MODULE PrecogProfit_proofs ------------------------
(***************************************************************************)
(* Proofs about the profits of a pool: what the walk over the investments  *)
(* of an account pays (_calculateProfit), that the profit of a settled     *)
(* cycle is shared out exactly once, by units that nothing changes any     *)
(* more, and that PrecogProfit holds the PCOG for it.                      *)
(***************************************************************************)
EXTENDS PrecogProfit, PrecogPool_proofs

----------------------------------------------------------------------------
\* The walk over the investments of one account.

ProfitRecord ==
    [profit : Int, profitForWhitelist : Int, claimedProfit : Int,
     claimedProfitForWhitelist : Int, lastProfitId : Nat, lastInvestmentId : Nat]

\* Investments in the order of their cycles, none of them whitelisted.
Ordered(invs) ==
    /\ invs \in Seq(InvestmentType)
    /\ \A j \in 1 .. Len(invs) : invs[j].isWhitelist = FALSE
    /\ \A i, j \in 1 .. Len(invs) : i <= j => invs[i].idChanged <= invs[j].idChanged

\* A profit info has reached the investment that earns in its cycle, which
\* is not after a given one.
Reaches(info, invs, id) ==
    LET j == info.lastInvestmentId + 1
    IN /\ j \in 1 .. Len(invs)
       /\ invs[j].idChanged <= info.lastProfitId /\ info.lastProfitId <= id
       /\ j < Len(invs) => info.lastProfitId <= invs[j + 1].idChanged

\* It has reached the given cycle and stays at its investment.
UpToDate(info, invs, id) ==
    LET j == info.lastInvestmentId + 1
    IN /\ info.lastProfitId = id
       /\ id = invs[j].idChanged \/ j = Len(invs) \/ id < invs[j + 1].idChanged

\* Each investment earns e from its cycle to that of the next one.
SharesAre(shares, invs, e, id) ==
    \A j \in 1 .. Len(invs), i \in 0 .. id - 1 :
        invs[j].idChanged <= i /\ (j < Len(invs) => i < invs[j + 1].idChanged)
            => shares[j][i] = e[i]

\* What an account has earned between two of its profit infos.
EarnedBetween(info, next, e) ==
    /\ next \in ProfitRecord
    /\ info.lastProfitId <= next.lastProfitId
    /\ next.profit = info.profit + SumFrom(e, info.lastProfitId, next.lastProfitId)
    /\ next.claimedProfit = info.claimedProfit

\* One turn of the loop pays for the cycles it passes, and goes on to the
\* next investment unless the account is up to date.
LEMMA ProfitStepEarns ==
    ASSUME NEW invs, Ordered(invs), NEW id \in Nat \ {0},
           NEW e, \A i \in 0 .. id - 1 : e[i] \in Int,
           NEW shares, SharesAre(shares, invs, e, id),
           NEW info \in ProfitRecord, Reaches(info, invs, id),
           NEW next, next = ProfitStep(info, invs, shares, id)
    PROVE  /\ EarnedBetween(info, next, e)
           /\ Reaches(next, invs, id)
           /\ UpToDate(info, invs, id) => UpToDate(next, invs, id)
           /\ \/ UpToDate(next, invs, id)
              \/ next.lastInvestmentId = info.lastInvestmentId + 1
  <1> DEFINE j == info.lastInvestmentId + 1
             l == info.lastProfitId
             last == ChooseLastAvailableTradingId(invs, j, id)
             earned == ProfitEarned(info, invs, shares, id)
             nextId == IF j < Len(invs) THEN invs[j + 1].idChanged ELSE 0
  <1>1. /\ j \in 1 .. Len(invs) /\ Len(invs) \in Nat /\ l \in Nat /\ info.profit \in Int
        /\ info.profitForWhitelist \in Int /\ info.claimedProfit \in Int
        /\ info.claimedProfitForWhitelist \in Int /\ info.lastInvestmentId \in Nat
        /\ invs[j].idChanged <= l /\ l <= id
        /\ j < Len(invs) => l <= invs[j + 1].idChanged
        /\ invs[j].isWhitelist = FALSE
    BY DEF Reaches, ProfitRecord, Ordered
  <1>2. /\ invs[j].idChanged \in Nat
        /\ j < Len(invs) => invs[j + 1].idChanged \in Nat
        /\ j < Len(invs) => invs[j].idChanged <= invs[j + 1].idChanged
        /\ j + 1 < Len(invs) => invs[j + 1].idChanged <= invs[j + 2].idChanged
    <2>1. ASSUME NEW i \in 1 .. Len(invs) PROVE invs[i].idChanged \in Nat
      <3>1. invs[i] \in InvestmentType
        BY DEF Ordered
      <3> QED BY <3>1 DEF InvestmentType
    <2>2. \A i, k \in 1 .. Len(invs) : i <= k => invs[i].idChanged <= invs[k].idChanged
      BY DEF Ordered
    <2>3. j < Len(invs) => j + 1 \in 1 .. Len(invs) /\ j <= j + 1
      BY <1>1
    <2>4. j + 1 < Len(invs) => /\ j + 1 \in 1 .. Len(invs) /\ j + 2 \in 1 .. Len(invs)
                              /\ j + 1 <= j + 2
      BY <1>1
    <2> HIDE DEF j
    <2> QED BY <1>1, <2>1, <2>2, <2>3, <2>4
  <1>3. last = IF j < Len(invs) /\ invs[j + 1].idChanged <= id
               THEN invs[j + 1].idChanged ELSE id
    BY DEF ChooseLastAvailableTradingId
  <1>4. last \in Nat /\ l <= last /\ last <= id
    BY <1>1, <1>2, <1>3
  <1> HIDE DEF last
  <1>5. SumFunction([i \in l .. last - 1 |-> shares[j][i]]) = SumFrom(e, l, last)
    <2>1. ASSUME NEW i \in l .. last - 1 PROVE shares[j][i] = e[i]
      <3>1. /\ i \in 0 .. id - 1 /\ invs[j].idChanged <= i
            /\ j < Len(invs) => i < invs[j + 1].idChanged
        BY <1>1, <1>2, <1>3, <1>4
      <3> HIDE DEF j
      <3> QED BY <1>1, <3>1 DEF SharesAre
    <2> QED BY <2>1 DEF SumFrom
  <1>6. SumFrom(e, l, last) \in Int
    <2>1. \A i \in l .. last - 1 : e[i] \in Int
      BY <1>1, <1>4
    <2> QED BY <1>1, <1>4, <2>1, SumFromNext
  <1>7. PICK sum \in Int : sum = SumFrom(e, l, last)
    BY <1>6
  <1>8. /\ earned \in ProfitRecord
        /\ earned.lastProfitId = last
        /\ earned.profit = info.profit + sum
        /\ earned.claimedProfit = info.claimedProfit
        /\ earned.lastInvestmentId = info.lastInvestmentId
    <2>1. earned = [info EXCEPT
                      !.lastProfitId = IF @ < last THEN last ELSE @,
                      !.profit = IF invs[j].isWhitelist THEN @ ELSE @ + sum,
                      !.profitForWhitelist = IF invs[j].isWhitelist THEN @ + sum ELSE @]
      BY <1>5, <1>7, Zenon DEF ProfitEarned, last
    <2>2. (IF l < last THEN last ELSE l) = last
      BY <1>1, <1>4
    <2>3. earned = [info EXCEPT !.lastProfitId = last, !.profit = info.profit + sum,
                                !.profitForWhitelist = info.profitForWhitelist]
      BY <1>1, <2>1, <2>2 DEF ProfitRecord
    <2>4. PICK p \in Int, q \in Int : p = info.profit + sum /\ q = info.profitForWhitelist
      BY <1>1, <1>7
    <2>5. earned = [info EXCEPT !.lastProfitId = last, !.profit = p, !.profitForWhitelist = q]
      BY <2>3, <2>4
    <2> HIDE DEF earned, j
    <2> QED BY <1>4, <2>4, <2>5 DEF ProfitRecord
  <1>9. next = IF l = id /\ id = invs[j].idChanged THEN info
               ELSE IF earned.lastProfitId = id /\ id # nextId THEN earned
               ELSE [earned EXCEPT !.lastInvestmentId = @ + 1]
    BY Zenon DEF ProfitStep
  <1>10. Reaches(info, invs, id)
    OBVIOUS
  <1> HIDE DEF earned
  <1>11. CASE l = id /\ id = invs[j].idChanged
    <2>1. next = info
      BY <1>9, <1>11
    <2>2. SumFrom(e, info.lastProfitId, info.lastProfitId) = 0
      BY <1>1, SumFromNone
    <2> QED BY <1>1, <1>11, <2>1, <2>2 DEF EarnedBetween, UpToDate
  <1>12. CASE ~(l = id /\ id = invs[j].idChanged) /\ last = id /\ id # nextId
    <2>1. next = earned
      BY <1>8, <1>9, <1>12
    <2>2. j = Len(invs) \/ id < invs[j + 1].idChanged
      BY <1>1, <1>2, <1>3, <1>12
    <2>3. UpToDate(next, invs, id)
      BY <1>8, <1>12, <2>1, <2>2 DEF UpToDate
    <2>4. Reaches(next, invs, id)
      BY <1>1, <1>2, <1>3, <1>4, <1>8, <1>12, <2>1 DEF Reaches
    <2>5. EarnedBetween(info, next, e)
      BY <1>4, <1>7, <1>8, <2>1 DEF EarnedBetween
    <2> QED BY <2>3, <2>4, <2>5
  <1>13. CASE ~(l = id /\ id = invs[j].idChanged) /\ ~(last = id /\ id # nextId)
    <2>1. next = [earned EXCEPT !.lastInvestmentId = @ + 1]
      BY <1>8, <1>9, <1>13
    <2>2. j < Len(invs) /\ last = invs[j + 1].idChanged
      BY <1>1, <1>2, <1>3, <1>13
    <2>3. /\ next \in ProfitRecord
          /\ next.lastProfitId = last
          /\ next.profit = info.profit + sum
          /\ next.claimedProfit = info.claimedProfit
          /\ next.lastInvestmentId = j
      BY <1>8, <2>1 DEF ProfitRecord
    <2>4. Reaches(next, invs, id)
      <3>1. j + 1 \in 1 .. Len(invs) /\ (j + 1) + 1 = j + 2
        BY <1>1, <2>2
      <3> HIDE DEF j
      <3> QED BY <1>1, <1>2, <1>4, <2>2, <2>3, <3>1 DEF Reaches
    <2>5. EarnedBetween(info, next, e)
      BY <1>4, <1>7, <2>3 DEF EarnedBetween
    <2>6. ~UpToDate(info, invs, id)
      <3>1. CASE l = id
        BY <1>1, <1>2, <1>3, <1>13, <2>2, <3>1 DEF UpToDate
      <3> QED BY <3>1 DEF UpToDate
    <2> QED BY <2>3, <2>4, <2>5, <2>6
  <1> QED BY <1>8, <1>11, <1>12, <1>13

\* The infos after each turn of the loop.
WalkStep(w, info, invs, shares, id, n) ==
    IF n = 0 THEN info ELSE ProfitStep(w[n - 1], invs, shares, id)

LEMMA WalkIsDefined ==
    ASSUME NEW info, NEW invs, NEW shares, NEW id, NEW N \in Nat
    PROVE  \E w : w = [n \in 0 .. N |-> WalkStep(w, info, invs, shares, id, n)]
  <1> DEFINE F == {k \in Nat : \E w : w = [n \in 0 .. k |-> WalkStep(w, info, invs, shares, id, n)]}
  <1>1. 0 \in F
    <2> DEFINE w == [n \in 0 .. 0 |-> info]
    <2>1. \A n \in 0 .. 0 : n = 0
      OBVIOUS
    <2>2. w = [n \in 0 .. 0 |-> WalkStep(w, info, invs, shares, id, n)]
      BY <2>1 DEF WalkStep
    <2> QED BY <2>2
  <1>2. ASSUME NEW k \in Nat, k \in F PROVE k + 1 \in F
    <2>1. PICK w : w = [n \in 0 .. k |-> WalkStep(w, info, invs, shares, id, n)]
      BY <1>2
    <2> DEFINE v == [n \in 0 .. k + 1 |-> WalkStep(w, info, invs, shares, id, n)]
    <2>2. \A n \in 0 .. k : v[n] = w[n]
      <3>1. \A n \in 0 .. k : n \in 0 .. k + 1
        OBVIOUS
      <3> QED BY <2>1, <3>1
    <2>3. ASSUME NEW n \in 0 .. k + 1
          PROVE  WalkStep(w, info, invs, shares, id, n) = WalkStep(v, info, invs, shares, id, n)
      <3>1. n # 0 => n - 1 \in 0 .. k
        OBVIOUS
      <3> HIDE DEF v
      <3> QED BY <2>2, <3>1 DEF WalkStep
    <2>4. v = [n \in 0 .. k + 1 |-> WalkStep(v, info, invs, shares, id, n)]
      BY <2>3
    <2> HIDE DEF v
    <2> QED BY <2>4
  <1>3. N \in F
    <2> HIDE DEF F
    <2> QED BY <1>1, <1>2, NatSetInduction
  <1> QED BY <1>3

\* A walk goes from info by the steps of the loop.
WalksFrom(w, info, invs, shares, id) ==
    /\ w[0] = info
    /\ \A n \in 0 .. Len(invs) - 1 : w[n + 1] = ProfitStep(w[n], invs, shares, id)

LEMMA WalkSteps ==
    ASSUME NEW info, NEW invs, Len(invs) \in Nat, NEW shares, NEW id
    PROVE  \E w : /\ WalksFrom(w, info, invs, shares, id)
                  /\ ProfitWalk(info, invs, shares, id) = w[Len(invs)]
  <1> DEFINE N == Len(invs)
             w == CHOOSE v : v = [n \in 0 .. N |-> IF n = 0 THEN info
                                     ELSE ProfitStep(v[n - 1], invs, shares, id)]
  <1>1. w = [n \in 0 .. N |-> IF n = 0 THEN info ELSE ProfitStep(w[n - 1], invs, shares, id)]
    <2> HIDE DEF N
    <2>1. N \in Nat
      BY DEF N
    <2>2. \E v : v = [n \in 0 .. N |-> WalkStep(v, info, invs, shares, id, n)]
      BY <2>1, WalkIsDefined
    <2>3. \E v : v = [n \in 0 .. N |-> IF n = 0 THEN info
                          ELSE ProfitStep(v[n - 1], invs, shares, id)]
      BY <2>2, Zenon DEF WalkStep
    <2> QED BY <2>3, Zenon
  <1>2. ProfitWalk(info, invs, shares, id) = w[N]
    BY Zenon DEF ProfitWalk
  <1> HIDE DEF w
  <1>3. w[0] = info
    BY <1>1
  <1>4. ASSUME NEW n \in 0 .. N - 1 PROVE w[n + 1] = ProfitStep(w[n], invs, shares, id)
    <2>1. n + 1 \in 0 .. N /\ n + 1 # 0 /\ (n + 1) - 1 = n
      OBVIOUS
    <2> HIDE DEF N
    <2> QED BY <1>1, <2>1
  <1>5. WalksFrom(w, info, invs, shares, id)
    BY <1>3, <1>4 DEF WalksFrom
  <1> QED BY <1>2, <1>5

\* The whole walk pays for every cycle up to the given one.
LEMMA WalkEarns ==
    ASSUME NEW invs, Ordered(invs), NEW id \in Nat \ {0},
           NEW e, \A i \in 0 .. id - 1 : e[i] \in Int,
           NEW shares, SharesAre(shares, invs, e, id),
           NEW info \in ProfitRecord, Reaches(info, invs, id)
    PROVE  LET next == ProfitWalk(info, invs, shares, id)
           IN /\ EarnedBetween(info, next, e)
              /\ Reaches(next, invs, id)
              /\ next.lastProfitId = id
  <1> DEFINE N == Len(invs)
             next == ProfitWalk(info, invs, shares, id)
  <1>1. N \in Nat
    BY DEF Ordered
  <1>2. PICK w : /\ w[0] = info
                 /\ \A n \in 0 .. N - 1 : w[n + 1] = ProfitStep(w[n], invs, shares, id)
                 /\ next = w[N]
    <2>1. Len(invs) \in Nat
      BY DEF Ordered
    <2>2. PICK w : /\ WalksFrom(w, info, invs, shares, id)
                   /\ ProfitWalk(info, invs, shares, id) = w[Len(invs)]
      BY <2>1, WalkSteps
    <2> QED BY <2>2, Zenon DEF WalksFrom
  <1> DEFINE F == {n \in Nat : n <= N =>
                      /\ EarnedBetween(info, w[n], e)
                      /\ Reaches(w[n], invs, id)
                      /\ \/ UpToDate(w[n], invs, id)
                         \/ w[n].lastInvestmentId = info.lastInvestmentId + n}
  <1>3. info.profit \in Int /\ info.lastProfitId \in Nat /\ info.lastInvestmentId \in Nat
    BY DEF ProfitRecord
  <1>4. 0 \in F
    <2>1. SumFrom(e, info.lastProfitId, info.lastProfitId) = 0
      BY <1>3, SumFromNone
    <2>2. EarnedBetween(info, info, e)
      BY <1>3, <2>1 DEF EarnedBetween
    <2> QED BY <1>2, <1>3, <2>2
  <1>5. ASSUME NEW n \in Nat, n \in F PROVE n + 1 \in F
    <2> SUFFICES ASSUME n + 1 <= N
                 PROVE  /\ EarnedBetween(info, w[n + 1], e)
                        /\ Reaches(w[n + 1], invs, id)
                        /\ \/ UpToDate(w[n + 1], invs, id)
                           \/ w[n + 1].lastInvestmentId = info.lastInvestmentId + (n + 1)
      BY DEF F
    <2>1. PICK s, t : s = w[n] /\ t = w[n + 1]
      OBVIOUS
    <2>2. /\ EarnedBetween(info, s, e) /\ Reaches(s, invs, id)
          /\ \/ UpToDate(s, invs, id)
             \/ s.lastInvestmentId = info.lastInvestmentId + n
      <3>1. n <= N
        BY <1>1
      <3> QED BY <1>5, <2>1, <3>1 DEF F
    <2>3. t = ProfitStep(s, invs, shares, id) /\ s \in ProfitRecord
      <3>1. n \in 0 .. N - 1
        BY <1>1
      <3> QED BY <1>2, <2>1, <2>2, <3>1 DEF EarnedBetween
    <2>4. /\ EarnedBetween(s, t, e)
          /\ Reaches(t, invs, id)
          /\ UpToDate(s, invs, id) => UpToDate(t, invs, id)
          /\ \/ UpToDate(t, invs, id)
             \/ t.lastInvestmentId = s.lastInvestmentId + 1
      BY <2>2, <2>3, ProfitStepEarns
    <2>5. EarnedBetween(info, t, e)
      <3> DEFINE a == info.lastProfitId
                 b == s.lastProfitId
                 c == t.lastProfitId
      <3>1. /\ a \in Nat /\ b \in Nat /\ c \in Nat /\ a <= b /\ b <= c /\ c <= id
            /\ info.profit \in Int /\ s.profit \in Int /\ t \in ProfitRecord
            /\ s.profit = info.profit + SumFrom(e, a, b)
            /\ t.profit = s.profit + SumFrom(e, b, c)
            /\ t.claimedProfit = info.claimedProfit
        BY <1>3, <2>2, <2>3, <2>4 DEF EarnedBetween, ProfitRecord, Reaches
      <3> HIDE DEF a, b, c
      <3>2. /\ \A i \in a .. c - 1 : e[i] \in Int
            /\ \A i \in a .. b - 1 : e[i] \in Int
            /\ \A i \in b .. c - 1 : e[i] \in Int
        BY <3>1
      <3>3. /\ SumFrom(e, a, c) = SumFrom(e, a, b) + SumFrom(e, b, c)
            /\ SumFrom(e, a, b) \in Int /\ SumFrom(e, b, c) \in Int
        BY <3>1, <3>2, SumFromSplits, SumFromNext
      <3>4. t.profit = info.profit + SumFrom(e, a, c) /\ a <= c
        BY <3>1, <3>3
      <3> QED BY <3>1, <3>4 DEF EarnedBetween, a, c
    <2>6. \/ UpToDate(t, invs, id)
          \/ t.lastInvestmentId = info.lastInvestmentId + (n + 1)
      <3>1. CASE s.lastInvestmentId = info.lastInvestmentId + n
                 /\ t.lastInvestmentId = s.lastInvestmentId + 1
        <4>1. \A i \in Nat : (i + n) + 1 = i + (n + 1)
          OBVIOUS
        <4> QED BY <1>3, <3>1, <4>1
      <3> QED BY <2>2, <2>4, <3>1
    <2> QED BY <2>1, <2>4, <2>5, <2>6
  <1>6. N \in F
    <2> HIDE DEF F
    <2> QED BY <1>1, <1>4, <1>5, NatSetInduction
  <1>7. UpToDate(next, invs, id)
    <2>1. Reaches(next, invs, id) /\ \/ UpToDate(next, invs, id)
                                     \/ next.lastInvestmentId = info.lastInvestmentId + N
      BY <1>1, <1>2, <1>6
    <2>2. next.lastInvestmentId + 1 \in 1 .. N
      BY <2>1 DEF Reaches
    <2>3. next.lastInvestmentId # info.lastInvestmentId + N
      <3>1. next.lastInvestmentId \in Nat
        BY <1>1, <1>2, <1>6 DEF EarnedBetween, ProfitRecord
      <3> HIDE DEF next, N
      <3> QED BY <1>1, <1>3, <2>2, <3>1
    <2> QED BY <2>1, <2>3
  <1> HIDE DEF next
  <1>8. EarnedBetween(info, next, e) /\ Reaches(next, invs, id)
    BY <1>1, <1>2, <1>6
  <1> QED BY <1>7, <1>8 DEF UpToDate, next

----------------------------------------------------------------------------
\* The shares of an account.

\* The share of the profit of a cycle that a list of investments earns.
ShareIn(invs, u, pr, id) ==
    IF ValueAt(u.total, id) <= 0 THEN 0
    ELSE (pr[id + 1] * Earns(invs, id)) \div ValueAt(u.total, id)

Shares(invs, u, pr, n) == [id \in 0 .. n - 1 |-> ShareIn(invs, u, pr, id)]

\* Cycles of the row, units of which none belong to whitelisted accounts,
\* and profits for the cycles before one of them.
NoWhitelistUnits(u) == \A i \in Nat : ValueAt(u.whitelist, i) = 0

ProfitData(cycles, u, pr, n) ==
    /\ n \in Nat /\ n <= Len(cycles)
    /\ \A i \in 1 .. Len(cycles) : cycles[i] = RowCycle(i - 1)
    /\ NoWhitelistUnits(u)
    /\ \A i \in Nat : ValueAt(u.total, i) \in Int
    /\ \A i \in 1 .. n : pr[i] \in Nat

\* The investment that earns in a cycle is the latest that has begun.
LEMMA LatestInOrder ==
    ASSUME NEW invs, Ordered(invs), NEW j \in 1 .. Len(invs), NEW id \in Nat,
           invs[j].idChanged <= id, j < Len(invs) => id < invs[j + 1].idChanged
    PROVE  Earns(invs, id) = IF invs[j].idChanged = id THEN invs[j].unit
                             ELSE invs[j].amount * TradingCycle
  <1> DEFINE s == Begun(invs, id)
  <1>1. invs \in Seq(InvestmentType) /\ Len(invs) \in Nat
    BY DEF Ordered
  <1>2. ASSUME NEW i \in 1 .. Len(invs) PROVE invs[i].idChanged \in Nat
    <2>1. invs[i] \in InvestmentType
      BY <1>1
    <2> QED BY <2>1 DEF InvestmentType
  <1>3. j \in s
    BY DEF Begun
  <1>4. ASSUME NEW y \in s PROVE y \in Nat /\ y <= j
    <2>1. y \in 1 .. Len(invs) /\ invs[y].idChanged <= id
      BY DEF Begun
    <2>2. CASE j < y
      <3>1. j < Len(invs) /\ j + 1 \in 1 .. Len(invs) /\ j + 1 <= y
        BY <1>1, <2>1, <2>2
      <3>2. invs[j + 1].idChanged <= invs[y].idChanged
        BY <2>1, <3>1 DEF Ordered
      <3>3. invs[j + 1].idChanged \in Nat /\ invs[y].idChanged \in Nat
        BY <1>2, <2>1, <3>1
      <3> QED BY <2>1, <3>1, <3>2, <3>3
    <2> QED BY <1>1, <2>1, <2>2
  <1>5. Max(s) \in s
    BY <1>1, <1>3, LatestBegun
  <1>6. Max(s) >= j
    <2>1. \E x \in s : \A y \in s : x >= y
      BY <1>3, <1>4
    <2> HIDE DEF s
    <2>2. \A y \in s : Max(s) >= y
      BY <2>1 DEF Max
    <2> QED BY <1>3, <2>2
  <1> HIDE DEF s
  <1>7. Max(s) = j /\ s # {}
    <2>1. Max(s) \in Nat /\ Max(s) <= j
      BY <1>4, <1>5
    <2> QED BY <1>3, <1>6, <2>1
  <1>8. Earns(invs, id) = IF s = {} THEN 0
                          ELSE IF invs[Max(s)].idChanged = id THEN invs[Max(s)].unit
                          ELSE invs[Max(s)].amount * TradingCycle
    BY EarnsIs, Zenon DEF s
  <1> QED BY <1>7, <1>8

\* A share is a number.
LEMMA ShareIsInt ==
    ASSUME NEW invs \in Seq(InvestmentType), NEW cycles, NEW u, NEW pr, NEW n,
           ProfitData(cycles, u, pr, n), NEW id \in 0 .. n - 1
    PROVE  ShareIn(invs, u, pr, id) \in Int
  <1>1. n \in Nat /\ id \in Nat /\ id + 1 \in 1 .. n
    BY DEF ProfitData
  <1>2. ValueAt(u.total, id) \in Int /\ pr[id + 1] \in Int /\ Earns(invs, id) \in Int
    BY <1>1, EarnsIsInt DEF ProfitData
  <1>3. PICK t \in Int, p \in Int, q \in Int :
             t = ValueAt(u.total, id) /\ p = pr[id + 1] /\ q = Earns(invs, id)
    BY <1>2
  <1>4. ~(t <= 0) => (p * q) \div t \in Int
    <2>1. p * q \in Int
      OBVIOUS
    <2> QED BY <2>1
  <1> QED BY <1>3, <1>4 DEF ShareIn

\* What the library computes for an investment in a cycle is that share.
LEMMA LibraryShare ==
    ASSUME NEW invs, Ordered(invs), NEW cycles, NEW u, NEW pr, NEW n,
           ProfitData(cycles, u, pr, n), NEW i \in 0 .. n - 1, NEW j \in 1 .. Len(invs),
           invs[j].idChanged <= i, j < Len(invs) => i < invs[j + 1].idChanged
    PROVE  CalculateProfitAtCycle(cycles[i + 1], invs[j],
               ValueAt(u.total, i) - ValueAt(u.whitelist, i), pr[i + 1])
               = ShareIn(invs, u, pr, i)
  <1>1. n \in Nat /\ i \in Nat /\ i + 1 \in 1 .. n /\ (i + 1) - 1 = i
    BY DEF ProfitData
  <1>2. PICK c : c = cycles[i + 1] /\ c.id = i /\ Duration(c) = TradingCycle
    <2>1. cycles[i + 1] = RowCycle(i)
      <3>1. i + 1 \in 1 .. Len(cycles)
        BY <1>1 DEF ProfitData
      <3> QED BY <1>1, <3>1 DEF ProfitData
    <2> QED BY <1>1, <2>1, RowCycleFacts
  <1>3. PICK t \in Int, p \in Int : t = ValueAt(u.total, i) /\ p = pr[i + 1]
    <2>1. ValueAt(u.total, i) \in Int /\ pr[i + 1] \in Int
      BY <1>1 DEF ProfitData
    <2> QED BY <2>1
  <1>4. ValueAt(u.total, i) - ValueAt(u.whitelist, i) = t
    <2>1. ValueAt(u.whitelist, i) = 0
      BY <1>1 DEF ProfitData, NoWhitelistUnits
    <2> QED BY <1>3, <2>1
  <1>5. PICK a, x, k : a = invs[j].amount /\ x = invs[j].unit /\ k = invs[j].idChanged
    OBVIOUS
  <1>6. a \in Int /\ TradingCycle \in Int
    <2>1. invs[j] \in InvestmentType
      BY DEF Ordered
    <2> QED BY <1>5, <2>1, CycleConstants DEF InvestmentType
  <1>7. Earns(invs, i) = IF k = i THEN x ELSE a * TradingCycle
    BY <1>1, <1>5, LatestInOrder
  <1>8. (p * a) * TradingCycle = p * (a * TradingCycle)
    BY <1>6
  <1>9. ShareIn(invs, u, pr, i) = IF t <= 0 THEN 0 ELSE (p * Earns(invs, i)) \div t
    BY <1>3 DEF ShareIn
  <1>10. CalculateProfitAtCycle(c, invs[j], t, p)
             = IF t <= 0 THEN 0
               ELSE IF i = k THEN (p * x) \div t ELSE ((p * a) * TradingCycle) \div t
    BY <1>2, <1>5, Zenon DEF CalculateProfitAtCycle
  <1> QED BY <1>2, <1>3, <1>4, <1>7, <1>8, <1>9, <1>10

\* So an update pays an account its shares up to the current profit id.
LEMMA CalculateProfitPays ==
    ASSUME NEW invs, Ordered(invs), NEW cycles, NEW u, NEW pr, NEW wpr, NEW n,
           ProfitData(cycles, u, pr, n),
           NEW info \in ProfitRecord, Reaches(info, invs, n),
           NEW next, next = CalculateProfit(info, invs, cycles, u, pr, wpr, n)
    PROVE  /\ EarnedBetween(info, next, Shares(invs, u, pr, n))
           /\ Reaches(next, invs, n)
           /\ next.lastProfitId = n
  <1> DEFINE e == Shares(invs, u, pr, n)
             shares == ProfitShares(invs, cycles, u, pr, wpr, n)
  <1>1. /\ n \in Nat /\ info.lastProfitId \in Nat /\ info.lastProfitId <= n
        /\ info.profit \in Int /\ info.claimedProfit \in Int
        /\ invs \in Seq(InvestmentType)
    BY DEF ProfitData, ProfitRecord, Reaches, Ordered
  <1>2. \A i \in 0 .. n - 1 : e[i] \in Int
    BY <1>1, ShareIsInt DEF Shares
  <1>3. SharesAre(shares, invs, e, n)
    <2> SUFFICES ASSUME NEW j \in 1 .. Len(invs), NEW i \in 0 .. n - 1,
                        invs[j].idChanged <= i, j < Len(invs) => i < invs[j + 1].idChanged
                 PROVE  shares[j][i] = e[i]
      BY DEF SharesAre
    <2>1. invs[j].isWhitelist = FALSE /\ j \in DOMAIN invs
      BY <1>1 DEF Ordered
    <2>2. shares[j][i] = CalculateProfitAtCycle(cycles[i + 1], invs[j],
                             ValueAt(u.total, i) - ValueAt(u.whitelist, i), pr[i + 1])
      BY <2>1 DEF ProfitShares
    <2>3. e[i] = ShareIn(invs, u, pr, i)
      BY DEF Shares
    <2> QED BY <2>2, <2>3, LibraryShare
  <1> HIDE DEF e, shares
  <1>4. CASE info.lastProfitId < n
    <2>1. next = ProfitWalk(info, invs, shares, n)
      BY <1>4 DEF CalculateProfit, shares
    <2>2. n \in Nat \ {0}
      BY <1>1, <1>4
    <2> QED BY <1>2, <1>3, <2>1, <2>2, WalkEarns DEF e
  <1>5. CASE ~(info.lastProfitId < n)
    <2>1. next = info /\ info.lastProfitId = n
      BY <1>1, <1>5 DEF CalculateProfit
    <2>2. SumFrom(e, n, n) = 0
      BY <1>1, SumFromNone
    <2> QED BY <1>1, <2>1, <2>2 DEF EarnedBetween, e
  <1> QED BY <1>4, <1>5

----------------------------------------------------------------------------
\* Lists that grow at their end.

\* A list stays in the order of its cycles.
LEMMA StoringKeepsOrder ==
    ASSUME NEW old, Ordered(old), NEW e \in InvestmentType, e.isWhitelist = FALSE,
           NEW new, Stores(old, e, new)
    PROVE  Ordered(new) /\ new # <<>>
  <1>1. old \in Seq(InvestmentType) /\ Len(old) \in Nat /\ e.idChanged \in Nat
    BY DEF Ordered, InvestmentType
  <1>2. new \in Seq(InvestmentType) /\ new # <<>>
    BY <1>1, ChangedListEarns
  <1>3. ASSUME NEW i \in 1 .. Len(old) PROVE old[i].idChanged \in Nat
    <2>1. old[i] \in InvestmentType
      BY <1>1
    <2> QED BY <2>1 DEF InvestmentType
  <1>4. \A i \in 1 .. Len(old) : old[i].isWhitelist = FALSE
    BY DEF Ordered
  <1>5. \A i, j \in 1 .. Len(old) : i <= j => old[i].idChanged <= old[j].idChanged
    BY DEF Ordered
  <1>6. CASE /\ old = <<>> \/ GetLast(old).idChanged < e.idChanged
             /\ new = Append(old, e)
    <2>1. /\ Len(new) = Len(old) + 1 /\ new[Len(old) + 1] = e
          /\ \A i \in 1 .. Len(old) : new[i] = old[i]
      BY <1>1, <1>6
    <2>2. \A i \in 1 .. Len(old) : old[i].idChanged <= e.idChanged
      <3> TAKE i \in 1 .. Len(old)
      <3>1. old # <<>> /\ Len(old) \in 1 .. Len(old) /\ i <= Len(old)
        BY <1>1
      <3>2. old[i].idChanged <= old[Len(old)].idChanged
        BY <1>5, <3>1
      <3> QED BY <1>1, <1>3, <1>6, <3>1, <3>2 DEF GetLast
    <2>3. \A i \in 1 .. Len(new) : i \in 1 .. Len(old) \/ i = Len(old) + 1
      BY <1>1, <2>1
    <2>4. \A i \in 1 .. Len(new) : new[i].isWhitelist = FALSE
      BY <1>4, <2>1, <2>3
    <2>5. ASSUME NEW i \in 1 .. Len(new), NEW j \in 1 .. Len(new), i <= j
          PROVE  new[i].idChanged <= new[j].idChanged
      <3>1. CASE j \in 1 .. Len(old)
        <4>1. i \in 1 .. Len(old)
          BY <1>1, <2>5, <3>1
        <4> QED BY <1>5, <2>1, <2>5, <3>1, <4>1
      <3>2. CASE j = Len(old) + 1 /\ i \in 1 .. Len(old)
        BY <2>1, <2>2, <3>2
      <3>3. CASE j = Len(old) + 1 /\ i = Len(old) + 1
        BY <1>1, <2>1, <3>3
      <3> QED BY <2>3, <3>1, <3>2, <3>3
    <2> QED BY <1>2, <2>4, <2>5 DEF Ordered
  <1>7. CASE /\ old # <<>> /\ GetLast(old).idChanged = e.idChanged
             /\ new = [old EXCEPT ![Len(old)] = e]
    <2>1. /\ Len(new) = Len(old) /\ new[Len(old)] = e
          /\ \A i \in 1 .. Len(old) : i # Len(old) => new[i] = old[i]
      BY <1>1, <1>7
    <2>2. \A i \in 1 .. Len(old) : new[i].idChanged = old[i].idChanged
      <3> TAKE i \in 1 .. Len(old)
      <3>1. CASE i = Len(old)
        BY <1>7, <2>1, <3>1 DEF GetLast
      <3> QED BY <2>1, <3>1
    <2>3. \A i \in 1 .. Len(old) : new[i].isWhitelist = FALSE
      BY <1>4, <2>1
    <2> QED BY <1>2, <1>5, <2>1, <2>2, <2>3 DEF Ordered
  <1> QED BY <1>6, <1>7 DEF Stores

\* What an info has reached of a list it has reached of the longer one, if
\* it is not after the cycle of the new investment.
LEMMA StoringKeepsReached ==
    ASSUME NEW old \in Seq(InvestmentType), NEW e \in InvestmentType, NEW new,
           Stores(old, e, new), NEW info \in ProfitRecord, NEW id \in Nat,
           Reaches(info, old, id), id <= e.idChanged
    PROVE  Reaches(info, new, id)
  <1> DEFINE j == info.lastInvestmentId + 1
             l == info.lastProfitId
  <1>1. /\ Len(old) \in Nat /\ e.idChanged \in Nat /\ l \in Nat
        /\ j \in 1 .. Len(old) /\ old[j].idChanged <= l /\ l <= id
        /\ j < Len(old) => l <= old[j + 1].idChanged
    BY DEF Reaches, ProfitRecord, InvestmentType
  <1> SUFFICES /\ j \in 1 .. Len(new) /\ new[j].idChanged <= l
               /\ j < Len(new) => l <= new[j + 1].idChanged
    BY <1>1 DEF Reaches
  <1> HIDE DEF j, l
  <1>2. CASE new = Append(old, e)
    <2>1. /\ Len(new) = Len(old) + 1 /\ new[Len(old) + 1] = e
          /\ \A i \in 1 .. Len(old) : new[i] = old[i]
      BY <1>1, <1>2
    <2>2. l <= e.idChanged
      BY <1>1
    <2>3. j < Len(old) => new[j + 1] = old[j + 1]
      BY <1>1, <2>1
    <2> QED BY <1>1, <2>1, <2>2, <2>3
  <1>3. CASE /\ old # <<>> /\ GetLast(old).idChanged = e.idChanged
             /\ new = [old EXCEPT ![Len(old)] = e]
    <2>1. /\ Len(new) = Len(old) /\ new[Len(old)] = e
          /\ \A i \in 1 .. Len(old) : i # Len(old) => new[i] = old[i]
      BY <1>1, <1>3
    <2>2. \A i \in 1 .. Len(old) : new[i].idChanged = old[i].idChanged
      <3> TAKE i \in 1 .. Len(old)
      <3>1. CASE i = Len(old)
        BY <1>3, <2>1, <3>1 DEF GetLast
      <3> QED BY <2>1, <3>1
    <2>3. j < Len(old) => j + 1 \in 1 .. Len(old)
      BY <1>1
    <2> QED BY <1>1, <2>1, <2>2, <2>3
  <1> QED BY <1>2, <1>3 DEF Stores

----------------------------------------------------------------------------
\* A pool of accounts that have all been in it before, none whitelisted.

PlainPool ==
    /\ whitelist = {} /\ liquidity.whitelist = 0
    /\ NoWhitelistUnits(units)
    /\ \A a \in Accounts : /\ Ordered(investmentsOf[a]) /\ investmentsOf[a] # <<>>
                           /\ accountTradingInfo[a].isNotFirstIncreaseInvestment

PoolInv == IInv /\ LiquidityBacking /\ UnitsInv /\ PlainPool

\* What a step does to the investments of the accounts: nothing, or it
\* stores one in the cycle that a deposit made now would reach.
ListsStep ==
    \A a \in Accounts :
        \/ investmentsOf'[a] = investmentsOf[a]
        \/ \E e \in InvestmentType : /\ e.idChanged = FundingId /\ e.isWhitelist = FALSE
                                     /\ Stores(investmentsOf[a], e, investmentsOf'[a])

\* And to their profit infos: nothing, or an update with the investments,
\* calendar and units after the step.
InfosStep ==
    \A a \in Accounts :
        \/ accountProfitInfo'[a] = accountProfitInfo[a]
        \/ accountProfitInfo'[a] = UpdatedProfitInfo(accountProfitInfo[a],
                                       investmentsOf'[a], tradingCycles', units')

\* A step by which no units become whitelisted keeps such a pool.
LEMMA PlainAfter ==
    ASSUME PlainPool, ListsStep, whitelist' = whitelist, liquidity'.whitelist = 0,
           NoWhitelistUnits(units'),
           \A a \in Accounts : accountTradingInfo'[a].isNotFirstIncreaseInvestment
    PROVE  PlainPool'
  <1>1. ASSUME NEW a \in Accounts
        PROVE  Ordered(investmentsOf'[a]) /\ investmentsOf'[a] # <<>>
    <2>1. Ordered(investmentsOf[a]) /\ investmentsOf[a] # <<>>
      BY DEF PlainPool
    <2>2. ASSUME NEW e \in InvestmentType, e.isWhitelist = FALSE,
                 Stores(investmentsOf[a], e, investmentsOf'[a])
          PROVE  Ordered(investmentsOf'[a]) /\ investmentsOf'[a] # <<>>
      <3>1. PICK new : new = investmentsOf'[a]
        OBVIOUS
      <3>2. Stores(investmentsOf[a], e, new)
        BY <2>2, <3>1
      <3>3. Ordered(new) /\ new # <<>>
        BY <2>1, <2>2, <3>2, StoringKeepsOrder
      <3> QED BY <3>1, <3>3
    <2> QED BY <2>1, <2>2 DEF ListsStep
  <1>2. NoWhitelistUnits(units)'
    BY DEF NoWhitelistUnits, ValueAt
  <1> QED BY <1>1, <1>2 DEF PlainPool, Ordered

\* Opening cycles adds no whitelist units when none is invested.
LEMMA OpeningAddsNoWhitelist ==
    ASSUME NEW u, NoWhitelistUnits(u), NEW cycles, \A c \in cycles : InRow(c, TradingCycle),
           NEW l, l.whitelist = 0
    PROVE  NoWhitelistUnits(UpdateTotalUnitsForFirstTime(u, cycles, l))
  <1> DEFINE new == {c \in cycles : c.id \notin u.updated}
             ids == {c.id : c \in new}
             Earned(id) == Duration(CHOOSE c \in new : c.id = id)
             map == [i \in DOMAIN u.whitelist \union ids |->
                        ValueAt(u.whitelist, i) + IF i \in ids THEN l.whitelist * Earned(i) ELSE 0]
             v == UpdateTotalUnitsForFirstTime(u, cycles, l)
  <1>1. \E q : v = [total |-> q, whitelist |-> map, updated |-> u.updated \union ids]
    BY Zenon DEF UpdateTotalUnitsForFirstTime
  <1>2. \A i \in ids : l.whitelist * Earned(i) = 0
    <2> TAKE i \in ids
    <2>1. \E c \in new : c.id = i
      OBVIOUS
    <2> DEFINE d == CHOOSE c \in new : c.id = i
    <2>2. d \in new
      BY <2>1
    <2>3. InRow(d, TradingCycle)
      BY <2>2
    <2>4. Duration(d) = TradingCycle
      BY <2>3, RowLengths, CycleConstants
    <2>5. Earned(i) = TradingCycle
      BY <2>4
    <2> HIDE DEF Earned
    <2> QED BY <2>5, CycleConstants
  <1>3. \A i \in Nat : ValueAt(map, i) = 0
    <2> TAKE i \in Nat
    <2>1. ValueAt(u.whitelist, i) = 0
      BY DEF NoWhitelistUnits
    <2>2. i \in DOMAIN map => map[i] = 0
      <3> HIDE DEF Earned
      <3> QED BY <1>2, <2>1
    <2> HIDE DEF map
    <2> QED BY <2>2 DEF ValueAt
  <1> HIDE DEF map, v
  <1>4. v.whitelist = map
    BY <1>1
  <1> QED BY <1>3, <1>4 DEF NoWhitelistUnits, v

\* Neither does an account that is not whitelisted.
LEMMA AddNoWhitelist ==
    ASSUME NEW u, HasUnits(u), NoWhitelistUnits(u), NEW id, NEW x
    PROVE  NoWhitelistUnits(AddUnits(u, id, x, 0))
  <1> DEFINE v == AddUnits(u, id, x, 0)
             map == WithValueAt(u.whitelist, id, ValueAt(u.whitelist, id) + 0)
  <1>1. \E q : v = [[u EXCEPT !["total"] = q] EXCEPT !["whitelist"] = map]
    BY Zenon DEF AddUnits
  <1>2. \A i \in Nat : ValueAt(map, i) = 0
    BY DEF WithValueAt, ValueAt, NoWhitelistUnits
  <1> HIDE DEF map, v
  <1>3. v.whitelist = map
    BY <1>1 DEF HasUnits
  <1> QED BY <1>2, <1>3 DEF NoWhitelistUnits, v

\* So an increase or a decrease of a plain account leaves none.
LEMMA ChangeAddsNoWhitelist ==
    ASSUME NEW book, NEW c, InRow(c, TradingCycle), NEW l, l.whitelist = 0, NEW x, NEW t,
           NEW w, w = FALSE,
           NoWhitelistUnits(book.units), \A i \in Nat : ValueAt(book.units.total, i) \in Int,
           book.investments # <<>>, GetLast(book.investments).isWhitelist = FALSE
    PROVE  /\ NoWhitelistUnits(IncreaseInvestment(book, x, t, c, l, w).units)
           /\ NoWhitelistUnits(DecreaseInvestment(book, x, t, c, l, w).units)
  <1> DEFINE u == Touched(book, c, l)
  <1>1. HasUnits(u) /\ NoWhitelistUnits(u)
    <2>1. \A d \in {c} : InRow(d, TradingCycle)
      OBVIOUS
    <2> QED BY <2>1, OpeningAdds, OpeningAddsNoWhitelist, Zenon DEF Touched
  <1>2. \A y, z : WhitelistUnits(FALSE, FALSE, y, z) = 0
    BY DEF WhitelistUnits
  <1>3. \E y : IncreaseInvestment(book, x, t, c, l, w).units = AddUnits(u, c.id, y, 0)
    BY <1>2, Zenon DEF IncreaseInvestment, Touched
  <1>4. \E y : DecreaseInvestment(book, x, t, c, l, w).units = AddUnits(u, c.id, y, 0)
    BY <1>2, Zenon DEF DecreaseInvestment, Touched
  <1> HIDE DEF u
  <1> QED BY <1>1, <1>3, <1>4, AddNoWhitelist

\* The units with the due cycles opened have none either.
LEMMA OpenedPlain ==
    ASSUME PoolInv
    PROVE  /\ NoWhitelistUnits(UnitsAfter(DueCycles))
           /\ \A i \in Nat : ValueAt(UnitsAfter(DueCycles).total, i) \in Int
  <1>1. AccountTypeOK /\ CalendarInv /\ StoredRow
    BY DEF PoolInv, IInv, UnitsInv
  <1>2. DueCycles \in 0 .. DueCycles
    BY <1>1, LastCurrentCycle
  <1>3. \A c \in Range(NewCycles(DueCycles)) : InRow(c, TradingCycle)
    <2>1. PICK cycles : cycles = tradingCycles \o NewCycles(DueCycles)
      OBVIOUS
    <2> QED BY <1>1, <1>2, <2>1, RowGrows
  <1>4. NoWhitelistUnits(UnitsAfter(DueCycles))
    <2>1. PICK cycles : cycles = Range(NewCycles(DueCycles))
      OBVIOUS
    <2>2. NoWhitelistUnits(UpdateTotalUnitsForFirstTime(units, cycles, liquidity))
      BY <1>3, <2>1, OpeningAddsNoWhitelist DEF PoolInv, PlainPool
    <2> QED BY <2>1, <2>2 DEF UnitsAfter
  <1>5. \A i \in Nat : ValueAt(UnitsAfter(DueCycles).total, i) \in Int
    BY <1>1, OpenedNow DEF PoolInv, UnitsInv
  <1> QED BY <1>4, <1>5

\* The investments of such an account.
LEMMA PlainAccount ==
    ASSUME PoolInv, NEW a \in Accounts
    PROVE  /\ investmentsOf[a] \in Seq(InvestmentType) /\ investmentsOf[a] # <<>>
           /\ Ordered(investmentsOf[a])
           /\ GetLast(investmentsOf[a]) \in InvestmentType
           /\ GetLast(investmentsOf[a]).isWhitelist = FALSE
           /\ GetLast(investmentsOf[a]).idChanged <= FundingId
           /\ a \notin whitelist
  <1>1. investmentsOf[a] # <<>> /\ Ordered(investmentsOf[a]) /\ a \notin whitelist
    BY DEF PoolInv, PlainPool
  <1>2. investmentsOf[a] \in Seq(InvestmentType)
    BY <1>1 DEF Ordered
  <1>3. /\ GetLast(investmentsOf[a]) \in InvestmentType
        /\ Len(investmentsOf[a]) \in 1 .. Len(investmentsOf[a])
    BY <1>1, <1>2, LastOfList
  <1>4. GetLast(investmentsOf[a]).isWhitelist = FALSE
    BY <1>1, <1>3 DEF Ordered, GetLast
  <1>5. GetLast(investmentsOf[a]).idChanged <= FundingId
    BY <1>1, ReachedNow DEF PoolInv, IInv
  <1> QED BY <1>1, <1>2, <1>3, <1>4, <1>5

\* A change of one account's list in the cycle that a deposit reaches.
LEMMA OneListChanges ==
    ASSUME AccountTypeOK, NEW a \in Accounts, NEW new,
           investmentsOf' = [investmentsOf EXCEPT ![a] = new],
           NEW e \in InvestmentType, e.idChanged = FundingId, e.isWhitelist = FALSE,
           Stores(investmentsOf[a], e, new)
    PROVE  ListsStep
  BY DEF ListsStep, AccountTypeOK

\* An update of one account's profit info.
LEMMA OneInfoChanges ==
    ASSUME NEW a \in Accounts, accountProfitInfo \in [Accounts -> ProfitRecord],
           accountProfitInfo' = [accountProfitInfo EXCEPT
               ![a] = UpdatedProfitInfo(accountProfitInfo[a], investmentsOf'[a],
                                        tradingCycles', units')]
    PROVE  InfosStep
  BY DEF InfosStep

\* A deposit.
LEMMA DepositIsPlain ==
    ASSUME PoolInv, accountProfitInfo \in [Accounts -> ProfitRecord], NEW a \in Accounts,
           NEW amount \in DepositAmounts, Deposit(a, amount)
    PROVE  PlainPool' /\ ListsStep /\ InfosStep
  <1> DEFINE x == amount - FeeOf(amount, feeConfiguration.depositFee)
             w == a \in whitelist
             old == investmentsOf[a]
             book == [investments |-> old, units |-> UnitsAfter(DueCycles)]
             fresh == IncreaseInvestment(book, x, FundingTime, FutureCycle, liquidity, w)
             done == HandleIncrease(a, x, w)
  <1>1. AccountTypeOK /\ CalendarInv /\ PlainPool
    BY DEF PoolInv, IInv
  <1>2. x \in Nat /\ w = FALSE
    <2>1. amount \in Nat /\ feeConfiguration.depositFee \in 0 .. FeeBase
      BY <1>1, AmountAssumption DEF CalendarInv
    <2>2. FeeOf(amount, feeConfiguration.depositFee) \in 0 .. amount
      BY <2>1, FeeIsPart
    <2>3. x \in Nat
      BY <2>1, <2>2
    <2>4. a \notin whitelist
      BY PlainAccount
    <2>5. w = FALSE
      BY <2>4
    <2> QED BY <2>3, <2>5
  <1>3. /\ FundingTime = NextTime /\ NextTime \in Nat
        /\ InRow(FutureCycle, TradingCycle) /\ FutureCycle.id = FundingId
        /\ FundingId \in Nat
        /\ FutureCycle = CycleAt(CurrentCycles, FundingTime)
    BY <1>1, NextTimeFacts
  <1>4. /\ old \in Seq(InvestmentType) /\ old # <<>> /\ GetLast(old).isWhitelist = FALSE
        /\ GetLast(old).idChanged <= FundingId
        /\ GetLast(old).idChanged \in Nat /\ Investment(a) = GetLast(old)
    BY PlainAccount DEF Investment, InvestmentType
  <1>5. done = [book |-> fresh, register |-> register[a], deposited |-> x]
    BY <1>3, <1>4 DEF HandleIncrease
  <1>6. PICK new, u : new = fresh.investments /\ u = fresh.units
    OBVIOUS
  <1>7. /\ investmentsOf' = [investmentsOf EXCEPT ![a] = new]
        /\ units' = u /\ tradingCycles' = CurrentCycles
        /\ accountTradingInfo' = [accountTradingInfo EXCEPT
               ![a] = UpdatedTradingInfo(a, x, GetLast(new).timestamp)]
        /\ accountProfitInfo' = [accountProfitInfo EXCEPT
               ![a] = UpdatedProfitInfo(FirstTimeProfitInfo(a, new), new, CurrentCycles, u)]
        /\ whitelist' = whitelist
        /\ liquidity' = [total |-> liquidity.total + x,
                         whitelist |-> liquidity.whitelist + IF a \in whitelist THEN x ELSE 0]
    <2>1. /\ investmentsOf' = [investmentsOf EXCEPT ![a] = done.book.investments]
          /\ units' = done.book.units
          /\ tradingCycles' = CurrentCycles
          /\ accountTradingInfo' = [accountTradingInfo EXCEPT
               ![a] = UpdatedTradingInfo(a, done.deposited,
                                         GetLast(done.book.investments).timestamp)]
          /\ accountProfitInfo' = [accountProfitInfo EXCEPT
               ![a] = UpdatedProfitInfo(FirstTimeProfitInfo(a, done.book.investments),
                          done.book.investments, CurrentCycles, done.book.units)]
          /\ whitelist' = whitelist
          /\ liquidity' = [total |-> liquidity.total + x,
                           whitelist |-> liquidity.whitelist + IF a \in whitelist THEN x ELSE 0]
      BY DEF Deposit, UpdateCalendar, CurrentCycles, ChangeLiquidity, settings
    <2>2. done.book.investments = new /\ done.book.units = u /\ done.deposited = x
      BY <1>5, <1>6
    <2> HIDE DEF done, fresh
    <2> QED BY <2>1, <2>2
  <1>8. \E e \in InvestmentType : /\ e.idChanged = FundingId /\ e.isWhitelist = FALSE
                                  /\ Stores(old, e, new)
    <2>1. PICK b, t, c : b = book /\ t = FundingTime /\ c = FutureCycle
      OBVIOUS
    <2>2. /\ new = IncreaseInvestment(b, x, t, c, liquidity, w).investments
          /\ b.investments = old /\ t \in Nat /\ InRow(c, TradingCycle) /\ c.id = FundingId
          /\ GetLast(old).idChanged <= c.id
      BY <1>3, <1>4, <1>6, <2>1
    <2> HIDE DEF x, w, old, book
    <2>3. w \in BOOLEAN
      BY <1>2
    <2>4. PICK e : /\ e \in InvestmentType /\ Stores(old, e, new)
                   /\ e.idChanged = c.id /\ e.isWhitelist = w
      BY <1>2, <1>4, <2>2, <2>3, IncreaseStores
    <2> QED BY <1>2, <2>2, <2>4
  <1>9. ListsStep
    BY <1>1, <1>7, <1>8, OneListChanges
  <1>10. NoWhitelistUnits(units')
    <2>1. PICK b, t, c : b = book /\ t = FundingTime /\ c = FutureCycle
      OBVIOUS
    <2>2. /\ u = IncreaseInvestment(b, x, t, c, liquidity, w).units
          /\ b.investments = old /\ b.units = UnitsAfter(DueCycles) /\ InRow(c, TradingCycle)
      BY <1>3, <1>6, <2>1
    <2> HIDE DEF x, w, old, book
    <2>3. NoWhitelistUnits(b.units) /\ \A i \in Nat : ValueAt(b.units.total, i) \in Int
      BY <2>2, OpenedPlain
    <2>4. liquidity.whitelist = 0
      BY <1>1 DEF PlainPool
    <2>5. NoWhitelistUnits(IncreaseInvestment(b, x, t, c, liquidity, w).units)
      BY <1>2, <1>4, <2>2, <2>3, <2>4, ChangeAddsNoWhitelist
    <2> QED BY <1>7, <2>2, <2>5
  <1>11. \A b \in Accounts : accountTradingInfo'[b].isNotFirstIncreaseInvestment
    <2>1. \A b \in Accounts : accountTradingInfo[b].isNotFirstIncreaseInvestment
      BY <1>1 DEF PlainPool
    <2>2. UpdatedTradingInfo(a, x, GetLast(new).timestamp).isNotFirstIncreaseInvestment
      BY <1>1 DEF UpdatedTradingInfo, AccountTypeOK
    <2> QED BY <1>1, <1>7, <2>1, <2>2 DEF AccountTypeOK
  <1>12. liquidity'.whitelist = 0
    BY <1>1, <1>2, <1>7 DEF PlainPool
  <1>13. PlainPool'
    BY <1>1, <1>7, <1>9, <1>10, <1>11, <1>12, PlainAfter
  <1>14. InfosStep
    <2>1. FirstTimeProfitInfo(a, new) = accountProfitInfo[a]
      BY <1>1 DEF FirstTimeProfitInfo, PlainPool
    <2>2. investmentsOf'[a] = new
      BY <1>1, <1>7 DEF AccountTypeOK
    <2>3. accountProfitInfo' = [accountProfitInfo EXCEPT
               ![a] = UpdatedProfitInfo(accountProfitInfo[a], investmentsOf'[a],
                                        tradingCycles', units')]
      BY <1>7, <2>1, <2>2
    <2> QED BY <2>3, OneInfoChanges
  <1> QED BY <1>9, <1>13, <1>14

\* A request.
LEMMA RequestIsPlain ==
    ASSUME Aligned, PoolInv, accountProfitInfo \in [Accounts -> ProfitRecord],
           NEW a \in Accounts, NEW amount \in WithdrawAmounts, RequestWithdrawal(a, amount)
    PROVE  PlainPool' /\ ListsStep /\ InfosStep
  <1> DEFINE w == a \in whitelist
             old == investmentsOf[a]
             book == [investments |-> old, units |-> UnitsAfter(DueCycles)]
             done == DecreaseInvestment(book, amount, FundingTime, FutureCycle, liquidity, w)
  <1>1. AccountTypeOK /\ CalendarInv /\ PlainPool /\ amount \in Nat
    BY AmountAssumption DEF PoolInv, IInv
  <1>2. w = FALSE
    <2>1. a \notin whitelist
      BY PlainAccount
    <2> QED BY <2>1
  <1>3. /\ FundingTime = NextTime /\ NextTime \in Nat
        /\ InRow(FutureCycle, TradingCycle) /\ FutureCycle.id = FundingId
        /\ FundingId \in Nat
        /\ FutureCycle = CycleAt(CurrentCycles, FundingTime)
    BY <1>1, NextTimeFacts
  <1>4. DefundingTime(a) = FundingTime
    <2>1. isNotFirstWithdrawal[a]
      BY DEF PoolInv, UnitsInv, LateInv
    <2> QED BY <1>1, <2>1, RequestTimes
  <1>5. /\ old \in Seq(InvestmentType) /\ old # <<>> /\ GetLast(old).isWhitelist = FALSE
        /\ GetLast(old).idChanged <= FundingId
    BY PlainAccount
  <1>6. PICK new, u : new = done.investments /\ u = done.units
    OBVIOUS
  <1>7. /\ investmentsOf' = [investmentsOf EXCEPT ![a] = new]
        /\ units' = u /\ tradingCycles' = CurrentCycles
        /\ accountTradingInfo' = accountTradingInfo
        /\ accountProfitInfo' = [accountProfitInfo EXCEPT
               ![a] = UpdatedProfitInfo(accountProfitInfo[a], new, CurrentCycles, u)]
        /\ whitelist' = whitelist
        /\ liquidity' = [total |-> liquidity.total + (-amount),
                         whitelist |-> liquidity.whitelist
                                           + (-(IF a \in whitelist THEN amount ELSE 0))]
        /\ amount <= GetLast(old).amount
    BY <1>3, <1>4, <1>6 DEF RequestWithdrawal, CanDecreaseInvestment, UpdateCalendar,
                            CurrentCycles, ChangeLiquidity, settings
  <1>8. \E e \in InvestmentType : /\ e.idChanged = FundingId /\ e.isWhitelist = FALSE
                                  /\ Stores(old, e, new)
    <2>1. PICK b, t, c : b = book /\ t = FundingTime /\ c = FutureCycle
      OBVIOUS
    <2>2. /\ new = DecreaseInvestment(b, amount, t, c, liquidity, w).investments
          /\ b.investments = old /\ t \in Nat /\ InRow(c, TradingCycle) /\ c.id = FundingId
          /\ GetLast(old).idChanged <= c.id
      BY <1>3, <1>5, <1>6, <2>1
    <2> HIDE DEF w, old, book
    <2>3. w \in BOOLEAN
      BY <1>2
    <2>4. PICK e : /\ e \in InvestmentType /\ Stores(old, e, new)
                   /\ e.idChanged = c.id /\ e.isWhitelist = w
      BY <1>1, <1>5, <1>7, <2>2, <2>3, DecreaseStores
    <2> QED BY <1>2, <2>2, <2>4
  <1>9. ListsStep
    BY <1>1, <1>7, <1>8, OneListChanges
  <1>10. NoWhitelistUnits(units')
    <2>1. PICK b, t, c : b = book /\ t = FundingTime /\ c = FutureCycle
      OBVIOUS
    <2>2. /\ u = DecreaseInvestment(b, amount, t, c, liquidity, w).units
          /\ b.investments = old /\ b.units = UnitsAfter(DueCycles) /\ InRow(c, TradingCycle)
      BY <1>3, <1>6, <2>1
    <2> HIDE DEF w, old, book
    <2>3. NoWhitelistUnits(b.units) /\ \A i \in Nat : ValueAt(b.units.total, i) \in Int
      BY <2>2, OpenedPlain
    <2>4. liquidity.whitelist = 0
      BY <1>1 DEF PlainPool
    <2>5. NoWhitelistUnits(DecreaseInvestment(b, amount, t, c, liquidity, w).units)
      BY <1>2, <1>5, <2>2, <2>3, <2>4, ChangeAddsNoWhitelist
    <2> QED BY <1>7, <2>2, <2>5
  <1>11. liquidity'.whitelist = 0
    BY <1>1, <1>2, <1>7 DEF PlainPool
  <1>12. PlainPool'
    <2>1. \A b \in Accounts : accountTradingInfo'[b].isNotFirstIncreaseInvestment
      BY <1>1, <1>7 DEF PlainPool
    <2> QED BY <1>1, <1>7, <1>9, <1>10, <1>11, <2>1, PlainAfter
  <1>13. InfosStep
    <2>1. investmentsOf'[a] = new
      BY <1>1, <1>7 DEF AccountTypeOK
    <2>2. accountProfitInfo' = [accountProfitInfo EXCEPT
               ![a] = UpdatedProfitInfo(accountProfitInfo[a], investmentsOf'[a],
                                        tradingCycles', units')]
      BY <1>7, <2>1
    <2> QED BY <2>2, OneInfoChanges
  <1> QED BY <1>9, <1>12, <1>13

\* A forced withdrawal.
LEMMA ForceWithdrawIsPlain ==
    ASSUME PoolInv, NEW a \in Accounts, NEW amount \in WithdrawAmounts,
           ForceWithdraw(a, amount)
    PROVE  PlainPool' /\ ListsStep /\ UNCHANGED accountProfitInfo
  <1> DEFINE old == investmentsOf[a]
             last == Investment(a)
             c == CycleAt(tradingCycles, last.timestamp)
             unit == amount * (c.endTime - last.timestamp)
             left == last.amount - amount
             new == [last EXCEPT !.amount = left, !.unit = @ - unit]
             invs == [old EXCEPT ![Len(old)] = new]
  <1>1. AccountTypeOK /\ AccountTypeOK' /\ CalendarInv /\ PlainPool /\ amount \in Nat
        /\ LateInv(a) /\ StoredRow /\ HasUnits(units)
    BY AmountAssumption, ForceWithdrawStep DEF PoolInv, IInv, UnitsInv
  <1>2. /\ old \in Seq(InvestmentType) /\ old # <<>> /\ last = GetLast(old)
        /\ last \in InvestmentType /\ last.isWhitelist = FALSE
        /\ last.amount \in Nat /\ last.unit \in Int /\ last.timestamp \in Nat
        /\ last.idChanged \in Nat /\ last = old[Len(old)] /\ Len(old) \in Nat \ {0}
        /\ AvailableDepositedAmount(a) \in Nat
    BY <1>1, PlainAccount, AccountTypes DEF Investment
  <1>3. /\ amount <= AvailableDepositedAmount(a)
        /\ whitelist' = whitelist /\ UNCHANGED accountProfitInfo
        /\ accountTradingInfo' = [accountTradingInfo EXCEPT ![a].availableAmount = @ - amount]
        /\ units' = AddUnits(units, c.id, -unit, 0)
        /\ liquidity'.whitelist = 0
        /\ investmentsOf' = [investmentsOf EXCEPT ![a] = invs]
    <2>1. /\ AvailableDepositedAmount(a) >= amount
          /\ whitelist' = whitelist /\ UNCHANGED accountProfitInfo
          /\ accountTradingInfo' = [accountTradingInfo EXCEPT ![a].availableAmount = @ - amount]
          /\ units' = AddUnits(units, c.id, -unit, IF last.isWhitelist THEN -unit ELSE 0)
          /\ liquidity' = [total |-> liquidity.total + (-amount),
                 whitelist |-> liquidity.whitelist + IF last.isWhitelist THEN -amount ELSE 0]
      BY DEF ForceWithdraw, ChangeLiquidity, settings
    <2>2. investmentsOf' = [investmentsOf EXCEPT ![a] = invs]
      BY <1>1 DEF ForceWithdraw, AccountTypeOK
    <2>3. liquidity.whitelist = 0
      BY <1>1 DEF PlainPool
    <2> HIDE DEF c, unit, invs, last
    <2> QED BY <1>1, <1>2, <2>1, <2>2, <2>3
  <1>4. amount # 0 => last.idChanged = FundingId
    <2>1. NextTime \in Nat /\ now < NextTime /\ now \in Nat
      BY <1>1, NextTimeFacts
    <2> QED BY <1>1, <1>2, <1>3, <2>1 DEF LateInv
  <1>5. c.endTime \in Nat
    <2> DEFINE stored == GetLast(tradingCycles)
    <2>1. c = CalculateTradingCycleByTimestamp(stored, TradingCycle, TradingCycle, last.timestamp)
      BY <1>1 DEF CycleAt, CalendarInv
    <2>2. InRow(stored, TradingCycle)
      BY <1>1, StoredCycle
    <2> HIDE DEF c, last, stored
    <2>3. InRow(c, TradingCycle)
      BY <1>2, <2>1, <2>2, CycleOfTime, CycleConstants
    <2> QED BY <2>3 DEF InRow, Cycle
  <1>6. unit \in Int /\ (amount = 0 => unit = 0)
    <2>1. c.endTime - last.timestamp \in Int
      BY <1>2, <1>5
    <2> HIDE DEF c, last
    <2> QED BY <1>1, <2>1
  <1>7. new.idChanged = last.idChanged /\ new.isWhitelist = FALSE
    <2> HIDE DEF last, unit
    <2> QED BY <1>2 DEF InvestmentType
  <1>8. investmentsOf'[a] = invs
    <2> HIDE DEF invs
    <2> QED BY <1>1, <1>3 DEF AccountTypeOK
  <1>9. new \in InvestmentType
    <2>1. invs \in Seq(InvestmentType) /\ Len(invs) = Len(old) /\ invs[Len(old)] = new
      <3>1. investmentsOf'[a] \in Seq(InvestmentType)
        BY <1>1 DEF AccountTypeOK
      <3>2. Len(invs) = Len(old) /\ invs[Len(old)] = new
        BY <1>2
      <3> HIDE DEF invs
      <3> QED BY <1>8, <3>1, <3>2
    <2> HIDE DEF invs, new
    <2> QED BY <1>2, <2>1
  <1>10. ASSUME amount # 0 PROVE ListsStep
    <2>1. Stores(old, new, invs) /\ new.idChanged = FundingId
      <3>1. GetLast(old).idChanged = new.idChanged
        BY <1>2, <1>7
      <3> HIDE DEF new
      <3> QED BY <1>2, <1>4, <1>7, <1>10, <3>1 DEF Stores
    <2> HIDE DEF new, invs
    <2>2. ListsStep
      BY <1>1, <1>3, <1>7, <1>9, <2>1, OneListChanges
    <2> QED BY <2>2
  <1>11. ASSUME amount = 0 PROVE ListsStep
    <2>1. new = last
      <3>1. left = last.amount /\ last.unit - unit = last.unit
        <4> HIDE DEF unit, last
        <4> QED BY <1>2, <1>6, <1>11
      <3>2. new = [last EXCEPT !.amount = last.amount, !.unit = last.unit]
        BY <3>1
      <3> HIDE DEF last, new
      <3> QED BY <1>2, <3>2 DEF InvestmentType
    <2>2. invs = old
      <3> HIDE DEF new, last
      <3>1. invs = [old EXCEPT ![Len(old)] = old[Len(old)]]
        BY <1>2, <2>1
      <3> HIDE DEF invs
      <3> QED BY <1>2, <3>1
    <2> HIDE DEF invs
    <2>3. \A b \in Accounts : investmentsOf'[b] = investmentsOf[b]
      BY <1>1, <1>3, <2>2 DEF AccountTypeOK
    <2> QED BY <2>3 DEF ListsStep
  <1> HIDE DEF unit, c, invs
  <1>12. NoWhitelistUnits(units')
    <2>1. PICK v : v = AddUnits(units, c.id, -unit, 0)
      OBVIOUS
    <2>2. NoWhitelistUnits(v)
      BY <1>1, <2>1, AddNoWhitelist DEF PlainPool
    <2> QED BY <1>3, <2>1, <2>2
  <1>13. \A b \in Accounts : accountTradingInfo'[b].isNotFirstIncreaseInvestment
    BY <1>1, <1>3 DEF PlainPool, AccountTypeOK
  <1>14. PlainPool'
    BY <1>1, <1>3, <1>10, <1>11, <1>12, <1>13, PlainAfter
  <1> QED BY <1>3, <1>10, <1>11, <1>14

\* A step that changes neither investments nor whitelist.
LEMMA SameListsArePlain ==
    ASSUME PlainPool, NoWhitelistUnits(units'),
           UNCHANGED <<investmentsOf, accountTradingInfo, liquidity, whitelist>>
    PROVE  PlainPool' /\ ListsStep
  <1>1. ListsStep
    BY DEF ListsStep
  <1> QED BY <1>1, PlainAfter DEF PlainPool

\* An update of the calendar.
LEMMA UpdateIsPlain ==
    ASSUME PoolInv, NEW n \in 0 .. DueCycles, units' = UnitsAfter(n),
           UNCHANGED <<investmentsOf, accountTradingInfo, liquidity, whitelist>>
    PROVE  PlainPool' /\ ListsStep
  <1>1. AccountTypeOK /\ CalendarInv /\ StoredRow /\ PlainPool
    BY DEF PoolInv, IInv, UnitsInv
  <1>2. \A c \in Range(NewCycles(n)) : InRow(c, TradingCycle)
    <2>1. PICK cycles : cycles = tradingCycles \o NewCycles(n)
      OBVIOUS
    <2> QED BY <1>1, <2>1, RowGrows
  <1>3. NoWhitelistUnits(units')
    <2>1. PICK cycles : cycles = Range(NewCycles(n))
      OBVIOUS
    <2>2. NoWhitelistUnits(UpdateTotalUnitsForFirstTime(units, cycles, liquidity))
      BY <1>1, <1>2, <2>1, OpeningAddsNoWhitelist DEF PlainPool
    <2> QED BY <2>1, <2>2 DEF UnitsAfter
  <1> QED BY <1>1, <1>3, SameListsArePlain

\* And the invariant of the accounts.
LEMMA UpdateKeepsIInv ==
    ASSUME IInv, NEW n \in 0 .. DueCycles, UpdateCalendar(n),
           UNCHANGED <<now, settings, investmentsOf, accountTradingInfo, registerVars, ipcog>>
    PROVE  IInv'
  <1>1. AccountTypeOK /\ CalendarInv
    BY DEF IInv
  <1>2. /\ tradingCycles' = tradingCycles \o NewCycles(n)
        /\ cyclesChangedInfo' = cyclesChangedInfo
        /\ UNCHANGED <<cycleConfiguration, feeConfiguration>>
    BY <1>1, ChangedInfoIsKept DEF UpdateCalendar, settings
  <1>3. /\ tradingCycles' \in Seq(Cycle) /\ tradingCycles' # <<>>
        /\ InRow(GetLast(tradingCycles'), TradingCycle)
        /\ GetLast(tradingCycles').startTime <= now
    BY <1>1, <1>2, PartialUpdate
  <1>4. CalendarInv'
    BY <1>1, <1>2, <1>3 DEF CalendarInv, InRow, GetLast
  <1>5. AccountTypeOK'
    BY <1>1, <1>3 DEF AccountTypeOK, Cycle, registerVars
  <1>6. \A a \in Accounts : AccountInv(a)'
    BY SameAccount DEF IInv, registerVars
  <1> QED BY <1>4, <1>5, <1>6 DEF IInv

\* The stored calendar stays or is continued.
CalendarStays ==
    \/ tradingCycles' = tradingCycles
    \/ \E n \in 0 .. DueCycles : tradingCycles' = tradingCycles \o NewCycles(n)

\* Every step of the pool itself.
LEMMA NextIsPlain ==
    ASSUME Aligned, PoolInv, accountProfitInfo \in [Accounts -> ProfitRecord], Next
    PROVE  PlainPool' /\ ListsStep /\ InfosStep /\ CalendarStays /\ UNCHANGED profitVars
  <1>1. NoWhitelistUnits(units) /\ PlainPool
    BY DEF PoolInv, PlainPool
  <1>2. DueCycles \in 0 .. DueCycles
    BY LastCurrentCycle DEF PoolInv, IInv
  <1>3. ASSUME NEW a \in Accounts, UserStep(a)
        PROVE  PlainPool' /\ ListsStep /\ InfosStep /\ CalendarStays /\ UNCHANGED profitVars
    <2>1. CASE \E amount \in DepositAmounts : Deposit(a, amount)
      <3>1. PICK amount \in DepositAmounts : Deposit(a, amount)
        BY <2>1
      <3>2. tradingCycles' = tradingCycles \o NewCycles(DueCycles) /\ UNCHANGED profitVars
        BY <3>1 DEF Deposit, UpdateCalendar, profitVars
      <3> QED BY <1>2, <3>1, <3>2, DepositIsPlain DEF CalendarStays
    <2>2. CASE \E amount \in WithdrawAmounts : RequestWithdrawal(a, amount)
      <3>1. PICK amount \in WithdrawAmounts : RequestWithdrawal(a, amount)
        BY <2>2
      <3>2. tradingCycles' = tradingCycles \o NewCycles(DueCycles) /\ UNCHANGED profitVars
        BY <3>1 DEF RequestWithdrawal, UpdateCalendar, profitVars
      <3> QED BY <1>2, <3>1, <3>2, RequestIsPlain DEF CalendarStays
    <2>3. CASE \E amount \in WithdrawAmounts : Claim(a, amount)
      <3>1. UNCHANGED <<investmentsOf, accountTradingInfo, accountProfitInfo, liquidity,
                        whitelist, units, tradingCycles, profitVars>>
        BY <2>3 DEF Claim, accountVars, calendar, settings
      <3> QED BY <1>1, <3>1, SameListsArePlain DEF InfosStep, CalendarStays
    <2>4. CASE \E amount \in WithdrawAmounts : ForceWithdraw(a, amount)
      <3>1. PICK amount \in WithdrawAmounts : ForceWithdraw(a, amount)
        BY <2>4
      <3>2. UNCHANGED <<tradingCycles, profitVars>>
        BY <3>1 DEF ForceWithdraw, calendar
      <3>3. PlainPool' /\ ListsStep /\ UNCHANGED accountProfitInfo
        BY <3>1, ForceWithdrawIsPlain
      <3> QED BY <3>2, <3>3 DEF InfosStep, CalendarStays
    <2> QED BY <1>3, <2>1, <2>2, <2>3, <2>4 DEF UserStep
  <1>4. ASSUME NEW n \in 0 .. DueCycles, UpdateCurrentTradingCycle(n)
        PROVE  PlainPool' /\ ListsStep /\ InfosStep /\ CalendarStays /\ UNCHANGED profitVars
    <2>1. /\ units' = UnitsAfter(n) /\ tradingCycles' = tradingCycles \o NewCycles(n)
          /\ UNCHANGED <<investmentsOf, accountTradingInfo, accountProfitInfo, liquidity,
                         whitelist, profitVars>>
      BY <1>4 DEF UpdateCurrentTradingCycle, UpdateCalendar, accountVars, settings
    <2> QED BY <2>1, UpdateIsPlain DEF InfosStep, CalendarStays
  <1>5. CASE Tick \/ TakeInvestment \/ \E amount \in TransferAmounts :
                                           SendRequestedWithdrawal(amount)
    <2>1. UNCHANGED <<investmentsOf, accountTradingInfo, accountProfitInfo, liquidity,
                      whitelist, units, tradingCycles, profitVars>>
      BY <1>5 DEF Tick, TakeInvestment, SendRequestedWithdrawal, accountVars, calendar,
                  settings
    <2> QED BY <1>1, <2>1, SameListsArePlain DEF InfosStep, CalendarStays
  <1> QED BY <1>3, <1>4, <1>5 DEF Next

\* A profit that is sent or taken updates the calendar.
LEMMA ProfitUpdates ==
    ASSUME PoolInv, UpdateCalendar(DueCycles), units' = UnitsAfter(DueCycles),
           UNCHANGED <<now, settings, liquidity, investmentsOf, accountTradingInfo,
                       registerVars, shareVars>>
    PROVE  PoolInv' /\ ListsStep /\ CalendarStays
  <1>1. DueCycles \in 0 .. DueCycles
    BY LastCurrentCycle DEF PoolInv, IInv
  <1>2. IInv'
    BY <1>1, UpdateKeepsIInv DEF PoolInv, shareVars
  <1>3. LiquidityBacking'
    BY DEF PoolInv, LiquidityBacking, InvestedAmount, Investment
  <1>4. UnitsInv'
    BY <1>1, UpdateKeepsUnits DEF PoolInv, registerVars
  <1>5. PlainPool' /\ ListsStep
    BY <1>1, UpdateIsPlain DEF settings
  <1>6. CalendarStays
    BY <1>1 DEF CalendarStays, UpdateCalendar
  <1> QED BY <1>2, <1>3, <1>4, <1>5, <1>6 DEF PoolInv

\* Every step of a pool with its profits.
LEMMA StepKeepsPool ==
    ASSUME Aligned, PoolInv, accountProfitInfo \in [Accounts -> ProfitRecord],
           [ProfitNext]_profitVarsAll
    PROVE  PoolInv' /\ ListsStep /\ CalendarStays
  <1>1. IInv /\ LiquidityBacking /\ UnitsInv /\ PlainPool /\ NoWhitelistUnits(units)
    BY DEF PoolInv, PlainPool
  <1>2. CASE Next
    <2>1. IInv' /\ LiquidityBacking' /\ UnitsInv'
      BY <1>1, <1>2, StepKeepsIInv, StepKeepsLiquidity, StepKeepsUnits
    <2>2. PlainPool' /\ ListsStep /\ CalendarStays
      BY <1>2, NextIsPlain
    <2> QED BY <2>1, <2>2 DEF PoolInv
  <1>3. ASSUME NEW amount, NEW bought, SendProfit(amount, bought)
        PROVE  PoolInv' /\ ListsStep /\ CalendarStays
    <2>1. /\ UpdateCalendar(DueCycles) /\ units' = UnitsAfter(DueCycles)
          /\ UNCHANGED <<now, settings, liquidity, investmentsOf, accountTradingInfo,
                         registerVars, shareVars>>
      BY <1>3 DEF SendProfit, accountVars
    <2> QED BY <2>1, ProfitUpdates
  <1>4. ASSUME NEW a, NEW to, TakeProfit(a, to)
        PROVE  PoolInv' /\ ListsStep /\ CalendarStays
    <2>1. /\ UpdateCalendar(DueCycles) /\ units' = UnitsAfter(DueCycles)
          /\ UNCHANGED <<now, settings, liquidity, investmentsOf, accountTradingInfo,
                         registerVars, shareVars>>
      BY <1>4 DEF TakeProfit
    <2> QED BY <2>1, ProfitUpdates
  <1>5. ASSUME UNCHANGED <<now, settings, calendar, units, liquidity, investmentsOf,
                           accountTradingInfo, registerVars, shareVars>>
        PROVE  PoolInv' /\ ListsStep /\ CalendarStays
    <2>1. IInv'
      <3>1. AccountTypeOK' /\ CalendarInv'
        BY <1>1, <1>5 DEF IInv, AccountTypeOK, CalendarInv, settings, calendar, registerVars,
                          shareVars
      <3>2. \A a \in Accounts : AccountInv(a)'
        BY <1>1, <1>5, SameAccount DEF IInv, registerVars, shareVars
      <3> QED BY <3>1, <3>2 DEF IInv
    <2>2. LiquidityBacking'
      BY <1>1, <1>5 DEF LiquidityBacking, InvestedAmount, Investment
    <2>3. UnitsInv'
      BY <1>1, <1>5, OtherKeepsUnits DEF registerVars, calendar
    <2>4. PlainPool' /\ ListsStep
      BY <1>1, <1>5, SameListsArePlain DEF settings
    <2>5. CalendarStays
      BY <1>5 DEF CalendarStays, calendar
    <2> QED BY <2>1, <2>2, <2>3, <2>4, <2>5 DEF PoolInv
  <1>6. CASE \E a \in Accounts : UpdateProfit(a)
    BY <1>5, <1>6 DEF UpdateProfit
  <1>7. CASE UNCHANGED profitVarsAll
    BY <1>5, <1>7 DEF profitVarsAll, vars, accountVars
  <1> QED BY <1>2, <1>3, <1>4, <1>6, <1>7 DEF ProfitNext

----------------------------------------------------------------------------
\* The cycles whose profit was sent.

\* They are in the calendar.
SettledInCalendar ==
    currentProfitId \in Nat /\ currentProfitId <= Len(tradingCycles) - 1

\* Nothing changes any more what is earned in them, or what it is shared by.
LEMMA SettledStays ==
    ASSUME PoolInv, PoolInv', SettledInCalendar, ListsStep, CalendarStays
    PROVE  /\ currentProfitId <= Len(tradingCycles') - 1
           /\ currentProfitId <= FundingId
           /\ \A id \in 0 .. currentProfitId - 1 :
                  /\ ValueAt(units'.total, id) = ValueAt(units.total, id)
                  /\ \A a \in Accounts : Earns(investmentsOf'[a], id) = Earns(investmentsOf[a], id)
  <1>1. /\ AccountTypeOK /\ AccountTypeOK' /\ CalendarInv /\ StoredRow
        /\ CountInv /\ CountInv'
    BY DEF PoolInv, IInv, UnitsInv
  <1>2. PICK c \in Nat : c = currentProfitId
    BY DEF SettledInCalendar
  <1>3. PICK m \in Nat : /\ Len(tradingCycles) - 1 <= m /\ m <= FundingId
                         /\ CountedTo(units, m)
    BY <1>1 DEF CountInv
  <1>4. PICK p \in Nat : Len(tradingCycles') - 1 <= p /\ CountedTo(units, p)'
    BY <1>1 DEF CountInv
  <1>5. /\ Len(tradingCycles) \in Nat /\ Len(tradingCycles') \in Nat
        /\ Len(tradingCycles) <= Len(tradingCycles')
    <2>1. ASSUME NEW n \in 0 .. DueCycles, tradingCycles' = tradingCycles \o NewCycles(n)
          PROVE  Len(tradingCycles') = Len(tradingCycles) + n /\ n \in Nat
      <3>1. PICK cycles : cycles = tradingCycles \o NewCycles(n)
        OBVIOUS
      <3>2. Len(cycles) = Len(tradingCycles) + n
        BY <1>1, <3>1, RowGrows
      <3>3. DueCycles \in Nat
        BY <1>1, LastCurrentCycle
      <3> QED BY <2>1, <3>1, <3>2, <3>3
    <2>2. Len(tradingCycles) \in Nat /\ Len(tradingCycles') \in Nat
      BY <1>1 DEF AccountTypeOK
    <2> QED BY <2>1, <2>2 DEF CalendarStays
  <1>6. FundingId \in Nat
    BY <1>1, NextTimeFacts
  <1>7. c <= FundingId /\ c <= m /\ c <= p /\ c <= Len(tradingCycles') - 1
    BY <1>2, <1>3, <1>4, <1>5, <1>6 DEF SettledInCalendar
  <1>8. ASSUME NEW id \in 0 .. c - 1, NEW a \in Accounts
        PROVE  Earns(investmentsOf'[a], id) = Earns(investmentsOf[a], id)
    <2>1. ASSUME NEW e \in InvestmentType, e.idChanged = FundingId,
                 Stores(investmentsOf[a], e, investmentsOf'[a])
          PROVE  Earns(investmentsOf'[a], id) = Earns(investmentsOf[a], id)
      <3>1. PICK new : new = investmentsOf'[a]
        OBVIOUS
      <3>2. Stores(investmentsOf[a], e, new) /\ investmentsOf[a] \in Seq(InvestmentType)
        BY <1>1, <2>1, <3>1, AccountTypes
      <3>3. id \in Nat /\ id < e.idChanged
        BY <1>6, <1>7, <2>1
      <3>4. Earns(new, id) = Earns(investmentsOf[a], id)
        BY <3>2, <3>3, ChangedListEarns
      <3> QED BY <3>1, <3>4
    <2>2. CASE investmentsOf'[a] = investmentsOf[a]
      <3>1. PICK new : new = investmentsOf'[a] /\ new = investmentsOf[a]
        BY <2>2
      <3> QED BY <3>1
    <2> QED BY <2>1, <2>2 DEF ListsStep
  <1>9. ASSUME NEW id \in 0 .. c - 1
        PROVE  ValueAt(units'.total, id) = ValueAt(units.total, id)
    <2>1. id \in Nat /\ id <= m /\ id <= p
      BY <1>7
    <2>2. ValueAt(units.total, id) = SumFunction(EarnedIn(id))
      BY <1>3, <2>1 DEF CountedTo
    <2>3. ValueAt(units'.total, id)
              = SumFunction([a \in Accounts |-> Earns(investmentsOf'[a], id)])
      BY <1>4, <2>1 DEF CountedTo, EarnedIn
    <2>4. [a \in Accounts |-> Earns(investmentsOf'[a], id)] = EarnedIn(id)
      BY <1>8 DEF EarnedIn
    <2> QED BY <2>2, <2>3, <2>4
  <1> QED BY <1>2, <1>7, <1>8, <1>9

----------------------------------------------------------------------------
\* The balance of an account: what it took and has been credited with, less
\* its shares of the cycles that its profit info has reached.

SharesTo(invs, u, pr, l) == SumFunction([id \in 0 .. l - 1 |-> ShareIn(invs, u, pr, id)])

Balance(info, invs, u, pr) ==
    (info.profit + info.claimedProfit) - SharesTo(invs, u, pr, info.lastProfitId)

\* The calendar and units of a pool are such that shares are numbers.
LEMMA ProfitDataFrom ==
    ASSUME NEW lists \in [Accounts -> Seq(InvestmentType)],
           NEW cycles, \A i \in 1 .. Len(cycles) : cycles[i] = RowCycle(i - 1),
           NEW u, NoWhitelistUnits(u), NEW p \in Nat, CountedIn(u, lists, p),
           NEW n \in Nat, n <= Len(cycles), NEW pr, \A i \in 1 .. n : pr[i] \in Nat
    PROVE  ProfitData(cycles, u, pr, n)
  <1>1. ASSUME NEW i \in Nat PROVE ValueAt(u.total, i) \in Int
    <2> DEFINE f == [b \in Accounts |-> Earns(lists[b], i)]
    <2>1. f \in [Accounts -> Int]
      BY EarnsIsInt
    <2>2. SumFunction(f) \in Int
      <3> HIDE DEF f
      <3> QED BY <2>1, AccountAssumption, SumIsInt
    <2>3. ValueAt(u.total, i) = IF i <= p THEN SumFunction(f) ELSE 0
      BY DEF CountedIn
    <2> HIDE DEF f
    <2> QED BY <2>2, <2>3
  <1> QED BY <1>1 DEF ProfitData

\* Sums of shares are numbers that add up.
LEMMA SharesAddUp ==
    ASSUME NEW invs \in Seq(InvestmentType), NEW cycles, NEW u, NEW pr, NEW n,
           ProfitData(cycles, u, pr, n), NEW l \in 0 .. n
    PROVE  /\ SharesTo(invs, u, pr, l) \in Int
           /\ SharesTo(invs, u, pr, n)
                  = SharesTo(invs, u, pr, l) + SumFrom(Shares(invs, u, pr, n), l, n)
           /\ SumFrom(Shares(invs, u, pr, n), l, n) \in Int
  <1>1. n \in Nat /\ l \in Nat /\ l <= n
    BY DEF ProfitData
  <1>2. PICK e : e = Shares(invs, u, pr, n)
    OBVIOUS
  <1>3. \A i \in 0 .. n - 1 : e[i] = ShareIn(invs, u, pr, i) /\ e[i] \in Int
    BY <1>1, <1>2, ShareIsInt DEF Shares
  <1>4. ASSUME NEW k \in 0 .. n PROVE SharesTo(invs, u, pr, k) = SumFrom(e, 0, k)
    <2>1. \A i \in 0 .. k - 1 : i \in 0 .. n - 1
      BY <1>1
    <2>2. [i \in 0 .. k - 1 |-> ShareIn(invs, u, pr, i)] = [i \in 0 .. k - 1 |-> e[i]]
      BY <1>3, <2>1
    <2> QED BY <2>2 DEF SharesTo, SumFrom
  <1>5. /\ \A i \in 0 .. l - 1 : e[i] \in Int
        /\ \A i \in l .. n - 1 : e[i] \in Int
    BY <1>1, <1>3
  <1>6. SumFrom(e, 0, n) = SumFrom(e, 0, l) + SumFrom(e, l, n)
    <2>1. 0 \in Nat /\ 0 <= l /\ \A i \in 0 .. n - 1 : e[i] \in Int
      BY <1>1, <1>3
    <2> QED BY <1>1, <2>1, SumFromSplits
  <1>7. SumFrom(e, 0, l) \in Int /\ SumFrom(e, l, n) \in Int
    BY <1>1, <1>5, SumFromNext
  <1> QED BY <1>1, <1>2, <1>4, <1>6, <1>7

\* An update of its profit info keeps the balance of an account.
LEMMA UpdateKeepsBalance ==
    ASSUME NEW invs, Ordered(invs), NEW cycles, NEW u, NEW pr, NEW wpr, NEW n,
           ProfitData(cycles, u, pr, n),
           NEW info \in ProfitRecord, Reaches(info, invs, n),
           NEW next, next = CalculateProfit(info, invs, cycles, u, pr, wpr, n)
    PROVE  /\ next \in ProfitRecord
           /\ Reaches(next, invs, n)
           /\ next.lastProfitId = n
           /\ next.claimedProfit = info.claimedProfit
           /\ Balance(next, invs, u, pr) = Balance(info, invs, u, pr)
           /\ Balance(info, invs, u, pr) \in Int
           /\ next.profit + next.claimedProfit
                  = Balance(info, invs, u, pr) + SharesTo(invs, u, pr, n)
           /\ SharesTo(invs, u, pr, n) \in Int
  <1>1. /\ EarnedBetween(info, next, Shares(invs, u, pr, n))
        /\ Reaches(next, invs, n)
        /\ next.lastProfitId = n
    BY CalculateProfitPays
  <1>2. PICK l, s, t, r : /\ l = info.lastProfitId /\ s = SharesTo(invs, u, pr, l)
                          /\ t = SharesTo(invs, u, pr, n)
                          /\ r = SumFrom(Shares(invs, u, pr, n), l, n)
    OBVIOUS
  <1>3. l \in 0 .. n /\ n \in Nat /\ info.profit \in Int /\ info.claimedProfit \in Int
        /\ invs \in Seq(InvestmentType)
    BY <1>2 DEF Reaches, ProfitRecord, ProfitData, Ordered
  <1>4. n \in 0 .. n
    BY <1>3
  <1>5. s \in Int /\ t \in Int /\ r \in Int /\ t = s + r
    BY <1>2, <1>3, <1>4, SharesAddUp
  <1>6. /\ next \in ProfitRecord /\ next.profit = info.profit + r
        /\ next.claimedProfit = info.claimedProfit
    BY <1>1, <1>2 DEF EarnedBetween
  <1>7. /\ Balance(info, invs, u, pr) = (info.profit + info.claimedProfit) - s
        /\ Balance(next, invs, u, pr) = (next.profit + next.claimedProfit) - t
    BY <1>1, <1>2 DEF Balance
  <1>8. PICK x \in Int, y \in Int : x = info.profit /\ y = info.claimedProfit
    BY <1>3
  <1>9. /\ Balance(info, invs, u, pr) = (x + y) - s
        /\ Balance(next, invs, u, pr) = ((x + r) + y) - t
        /\ next.profit + next.claimedProfit = (x + r) + y
    BY <1>6, <1>7, <1>8
  <1>10. ((x + r) + y) - t = (x + y) - s /\ (x + y) - s \in Int
         /\ (x + r) + y = ((x + y) - s) + t
    BY <1>5
  <1> QED BY <1>1, <1>2, <1>5, <1>6, <1>9, <1>10

\* The same shares make the same balance.
LEMMA SameShares ==
    ASSUME NEW p, NEW q, NEW u, NEW v, NEW pr, NEW pr2, NEW n \in Nat,
           \A id \in 0 .. n - 1 : ShareIn(q, v, pr2, id) = ShareIn(p, u, pr, id),
           NEW info, info.lastProfitId \in 0 .. n
    PROVE  Balance(info, q, v, pr2) = Balance(info, p, u, pr)
  <1>1. PICK l \in 0 .. n : l = info.lastProfitId
    OBVIOUS
  <1>2. \A id \in 0 .. l - 1 : id \in 0 .. n - 1
    OBVIOUS
  <1>3. [id \in 0 .. l - 1 |-> ShareIn(q, v, pr2, id)] = [id \in 0 .. l - 1 |-> ShareIn(p, u, pr, id)]
    BY <1>2
  <1> QED BY <1>1, <1>3 DEF Balance, SharesTo

----------------------------------------------------------------------------
\* The invariant of the profits.

SettledInv ==
    /\ SettledInCalendar
    /\ profits \in Seq(Nat) /\ Len(profits) = currentProfitId + 1
    /\ profits[currentProfitId + 1] = 0

Balances ==
    [a \in Accounts |-> Balance(accountProfitInfo[a], investmentsOf[a], units, profits)]

Claimed == [a \in Accounts |-> accountProfitInfo[a].claimedProfit]

\* What the accounts have is exactly what they were due.
InfosInv ==
    /\ accountProfitInfo \in [Accounts -> ProfitRecord]
    /\ \A a \in Accounts : Reaches(accountProfitInfo[a], investmentsOf[a], currentProfitId)
    /\ SumFunction(Balances) = 0

\* What was bought for them is with PrecogProfit or was taken.
PcogInv ==
    /\ pcog \in Int
    /\ SumFunction([id \in 0 .. currentProfitId - 1 |-> profits[id + 1]])
           <= pcog + SumFunction(Claimed)

ProfitInv == PoolInv /\ SettledInv /\ InfosInv /\ PcogInv

\* What the shares of the settled cycles are computed from.
LEMMA SettledData ==
    ASSUME PoolInv, SettledInv
    PROVE  ProfitData(tradingCycles, units, profits, currentProfitId)
  <1>1. PICK c \in Nat : c = currentProfitId
    BY DEF SettledInv, SettledInCalendar
  <1>2. c <= Len(tradingCycles) /\ c < Len(profits)
    <2>1. Len(tradingCycles) \in Nat
      BY DEF PoolInv, IInv, AccountTypeOK
    <2> QED BY <1>1, <2>1 DEF SettledInv, SettledInCalendar
  <1>3. \A i \in 1 .. c : profits[i] \in Nat
    <2>1. \A i \in 1 .. c : i \in 1 .. Len(profits)
      BY <1>1, <1>2 DEF SettledInv
    <2> QED BY <1>1, <2>1 DEF SettledInv
  <1>4. PICK m \in Nat : CountedTo(units, m)
    BY DEF PoolInv, UnitsInv, CountInv
  <1>5. CountedIn(units, investmentsOf, m)
    BY <1>4 DEF CountedTo, CountedIn, EarnedIn
  <1>6. PICK lists, cycles, u, pr : /\ lists = investmentsOf /\ cycles = tradingCycles
                                    /\ u = units /\ pr = profits
    OBVIOUS
  <1>7. /\ lists \in [Accounts -> Seq(InvestmentType)]
        /\ \A i \in 1 .. Len(cycles) : cycles[i] = RowCycle(i - 1)
        /\ NoWhitelistUnits(u) /\ CountedIn(u, lists, m) /\ c <= Len(cycles)
        /\ \A i \in 1 .. c : pr[i] \in Nat
    BY <1>2, <1>3, <1>5, <1>6 DEF PoolInv, IInv, AccountTypeOK, UnitsInv, StoredRow, PlainPool
  <1> QED BY <1>1, <1>6, <1>7, ProfitDataFrom

\* The shares of the settled cycles before and after a step, with what both
\* are computed from.
LEMMA SettledShares ==
    ASSUME PoolInv, PoolInv', SettledInv, ListsStep, CalendarStays,
           \A i \in 1 .. currentProfitId : profits'[i] = profits[i]
    PROVE  /\ ProfitData(tradingCycles, units, profits, currentProfitId)
           /\ ProfitData(tradingCycles', units', profits', currentProfitId)
           /\ \A a \in Accounts, id \in 0 .. currentProfitId - 1 :
                  ShareIn(investmentsOf'[a], units', profits', id)
                      = ShareIn(investmentsOf[a], units, profits, id)
  <1>1. /\ currentProfitId <= Len(tradingCycles') - 1
        /\ \A id \in 0 .. currentProfitId - 1 :
               /\ ValueAt(units'.total, id) = ValueAt(units.total, id)
               /\ \A a \in Accounts : Earns(investmentsOf'[a], id) = Earns(investmentsOf[a], id)
    BY SettledStays DEF SettledInv
  <1>2. PICK c \in Nat : c = currentProfitId
    BY DEF SettledInv, SettledInCalendar
  <1>3. /\ c <= Len(tradingCycles) /\ c <= Len(tradingCycles')
        /\ c < Len(profits)
    <2>1. Len(tradingCycles) \in Nat /\ Len(tradingCycles') \in Nat
      BY DEF PoolInv, IInv, AccountTypeOK
    <2> QED BY <1>1, <1>2, <2>1 DEF SettledInv, SettledInCalendar
  <1>4. \A i \in 1 .. c : profits[i] \in Nat /\ profits'[i] \in Nat
    <2>1. \A i \in 1 .. c : i \in 1 .. Len(profits)
      BY <1>2, <1>3 DEF SettledInv
    <2> QED BY <1>2, <2>1 DEF SettledInv
  <1>5. ProfitData(tradingCycles, units, profits, c)
    BY <1>2, SettledData
  <1>6. ProfitData(tradingCycles', units', profits', c)
    <2>1. PICK m \in Nat : CountedTo(units, m)'
      BY DEF PoolInv, UnitsInv, CountInv
    <2>2. CountedIn(units', investmentsOf', m)
      BY <2>1 DEF CountedTo, CountedIn, EarnedIn
    <2>3. PICK lists, cycles, u, pr : /\ lists = investmentsOf' /\ cycles = tradingCycles'
                                      /\ u = units' /\ pr = profits'
      OBVIOUS
    <2>4. /\ lists \in [Accounts -> Seq(InvestmentType)]
          /\ \A i \in 1 .. Len(cycles) : cycles[i] = RowCycle(i - 1)
          /\ NoWhitelistUnits(u) /\ CountedIn(u, lists, m) /\ c <= Len(cycles)
          /\ \A i \in 1 .. c : pr[i] \in Nat
      <3>1. NoWhitelistUnits(units')
        BY DEF PoolInv, PlainPool, NoWhitelistUnits, ValueAt
      <3>2. \A i \in 1 .. Len(tradingCycles') : tradingCycles'[i] = RowCycle(i - 1)
        BY DEF PoolInv, UnitsInv, StoredRow, RowCycle
      <3> QED BY <1>3, <1>4, <2>2, <2>3, <3>1, <3>2 DEF PoolInv, IInv, AccountTypeOK
    <2> QED BY <2>3, <2>4, ProfitDataFrom
  <1>7. ASSUME NEW a \in Accounts, NEW id \in 0 .. c - 1
        PROVE  ShareIn(investmentsOf'[a], units', profits', id)
                   = ShareIn(investmentsOf[a], units, profits, id)
    <2>1. id + 1 \in 1 .. c
      OBVIOUS
    <2>2. profits'[id + 1] = profits[id + 1]
      BY <1>2, <2>1
    <2> QED BY <1>1, <1>2, <2>2 DEF ShareIn
  <1> QED BY <1>2, <1>5, <1>6, <1>7
\* What a step of the pool leaves of an account whose profit info it does
\* not touch.
LEMMA InfoStays ==
    ASSUME PoolInv, SettledInv, InfosInv, PoolInv', ListsStep, CalendarStays,
           \A i \in 1 .. currentProfitId : profits'[i] = profits[i],
           NEW a \in Accounts
    PROVE  /\ Reaches(accountProfitInfo[a], investmentsOf'[a], currentProfitId)
           /\ Balance(accountProfitInfo[a], investmentsOf'[a], units', profits') = Balances[a]
           /\ Balances[a] \in Int
  <1>1. PICK c \in Nat : c = currentProfitId
    BY DEF SettledInv, SettledInCalendar
  <1>2. PICK info \in ProfitRecord : info = accountProfitInfo[a] /\ Reaches(info, investmentsOf[a], c)
    BY <1>1 DEF InfosInv
  <1>3. PICK old, new : old = investmentsOf[a] /\ new = investmentsOf'[a]
    OBVIOUS
  <1>4. old \in Seq(InvestmentType) /\ c <= FundingId
    BY <1>1, <1>3, SettledStays, AccountTypes DEF SettledInv, PoolInv, IInv
  <1>5. Reaches(info, new, c)
    <2>1. CASE new = old
      BY <1>2, <1>3, <2>1
    <2>2. ASSUME NEW e \in InvestmentType, e.idChanged = FundingId, Stores(old, e, new)
          PROVE  Reaches(info, new, c)
      <3>1. c <= e.idChanged /\ Reaches(info, old, c)
        BY <1>2, <1>3, <1>4, <2>2
      <3> QED BY <1>4, <2>2, <3>1, StoringKeepsReached
    <2> QED BY <1>3, <2>1, <2>2 DEF ListsStep
  <1>6. info.lastProfitId \in 0 .. c
    BY <1>2 DEF ProfitRecord, Reaches
  <1>7. /\ ProfitData(tradingCycles, units, profits, c)
        /\ \A id \in 0 .. c - 1 : ShareIn(new, units', profits', id) = ShareIn(old, units, profits, id)
    BY <1>1, <1>3, SettledShares
  <1>8. PICK u, v, pr, pr2, cycles : /\ u = units /\ v = units' /\ pr = profits /\ pr2 = profits'
                                     /\ cycles = tradingCycles
    OBVIOUS
  <1>9. Balance(info, new, v, pr2) = Balance(info, old, u, pr)
    BY <1>6, <1>7, <1>8, SameShares
  <1>10. Balance(info, old, u, pr) \in Int
    <2>1. SharesTo(old, u, pr, info.lastProfitId) \in Int
      BY <1>4, <1>6, <1>7, <1>8, SharesAddUp
    <2> QED BY <1>2, <2>1 DEF Balance, ProfitRecord
  <1> QED BY <1>1, <1>2, <1>3, <1>5, <1>8, <1>9, <1>10 DEF Balances

\* And of one whose profit info it updates.
LEMMA InfoIsUpdated ==
    ASSUME PoolInv, SettledInv, InfosInv, PoolInv', ListsStep, CalendarStays,
           UNCHANGED profitVars, NEW a \in Accounts,
           NEW next, next = UpdatedProfitInfo(accountProfitInfo[a], investmentsOf'[a],
                                              tradingCycles', units')
    PROVE  /\ next \in ProfitRecord
           /\ Reaches(next, investmentsOf'[a], currentProfitId)
           /\ next.claimedProfit = accountProfitInfo[a].claimedProfit
           /\ Balance(next, investmentsOf'[a], units', profits') = Balances[a]
  <1>1. PICK c \in Nat : c = currentProfitId
    BY DEF SettledInv, SettledInCalendar
  <1>2. PICK info \in ProfitRecord : info = accountProfitInfo[a]
    BY DEF InfosInv
  <1>3. PICK new, v, pr, wpr, cycles :
            /\ new = investmentsOf'[a] /\ v = units' /\ pr = profits /\ wpr = profitsForWhitelist
            /\ cycles = tradingCycles'
    OBVIOUS
  <1>4. profits' = profits
    BY DEF profitVars
  <1>5. Reaches(info, new, c) /\ Balance(info, new, v, pr) = Balances[a]
    BY <1>1, <1>2, <1>3, <1>4, InfoStays
  <1>6. ProfitData(cycles, v, pr, c)
    BY <1>1, <1>3, <1>4, SettledShares
  <1>7. Ordered(new)
    BY <1>3 DEF PoolInv, PlainPool, Ordered
  <1>8. next = CalculateProfit(info, new, cycles, v, pr, wpr, c)
    BY <1>1, <1>2, <1>3 DEF UpdatedProfitInfo
  <1>9. /\ next \in ProfitRecord /\ Reaches(next, new, c)
        /\ next.claimedProfit = info.claimedProfit
        /\ Balance(next, new, v, pr) = Balance(info, new, v, pr)
    BY <1>5, <1>6, <1>7, <1>8, UpdateKeepsBalance
  <1> QED BY <1>1, <1>2, <1>3, <1>4, <1>5, <1>9

\* So a step that only updates profit infos keeps what they add up to.
LEMMA InfosAfter ==
    ASSUME PoolInv, SettledInv, InfosInv, PoolInv', ListsStep, CalendarStays, InfosStep,
           UNCHANGED profitVars,
           DOMAIN accountProfitInfo' = Accounts,
           accountProfitInfo' = [a \in Accounts |-> accountProfitInfo'[a]]
    PROVE  InfosInv' /\ Claimed' = Claimed
  <1>1. currentProfitId' = currentProfitId /\ profits' = profits
    BY DEF profitVars
  <1>2. ASSUME NEW a \in Accounts
        PROVE  /\ accountProfitInfo'[a] \in ProfitRecord
               /\ Reaches(accountProfitInfo'[a], investmentsOf'[a], currentProfitId)
               /\ accountProfitInfo'[a].claimedProfit = accountProfitInfo[a].claimedProfit
               /\ Balance(accountProfitInfo'[a], investmentsOf'[a], units', profits') = Balances[a]
    <2>1. CASE accountProfitInfo'[a] = accountProfitInfo[a]
      <3>1. PICK next : next = accountProfitInfo'[a] /\ next = accountProfitInfo[a]
        BY <2>1
      <3>2. /\ Reaches(next, investmentsOf'[a], currentProfitId)
            /\ Balance(next, investmentsOf'[a], units', profits') = Balances[a]
        BY <1>1, <3>1, InfoStays
      <3>3. next \in ProfitRecord
        BY <3>1 DEF InfosInv
      <3> QED BY <3>1, <3>2, <3>3
    <2>2. CASE accountProfitInfo'[a] = UpdatedProfitInfo(accountProfitInfo[a],
                                           investmentsOf'[a], tradingCycles', units')
      <3>1. PICK next : /\ next = accountProfitInfo'[a]
                        /\ next = UpdatedProfitInfo(accountProfitInfo[a], investmentsOf'[a],
                                                    tradingCycles', units')
        BY <2>2
      <3> QED BY <3>1, InfoIsUpdated
    <2> QED BY <2>1, <2>2 DEF InfosStep
  <1>3. Claimed' = Claimed
    BY <1>2 DEF Claimed
  <1>4. Balances' = Balances
    BY <1>2 DEF Balances
  <1>5. SumFunction(Balances') = 0
    BY <1>4 DEF InfosInv
  <1>6. (SumFunction(Balances) = 0)'
    BY <1>5
  <1> QED BY <1>1, <1>2, <1>3, <1>6 DEF InfosInv, Reaches

\* The steps of the pool keep profit infos a function of the accounts.
LEMMA InfosAreFunction ==
    ASSUME accountProfitInfo \in [Accounts -> ProfitRecord],
           Next \/ (\E a \in Accounts : UpdateProfit(a)) \/ UNCHANGED profitVarsAll
    PROVE  accountProfitInfo' = [a \in Accounts |-> accountProfitInfo'[a]]
  <1>1. ASSUME NEW a, NEW v, accountProfitInfo' = [accountProfitInfo EXCEPT ![a] = v]
        PROVE  accountProfitInfo' = [b \in Accounts |-> accountProfitInfo'[b]]
    BY <1>1
  <1>2. CASE UNCHANGED accountProfitInfo
    BY <1>2
  <1>3. ASSUME NEW a \in Accounts, UserStep(a)
        PROVE  accountProfitInfo' = [b \in Accounts |-> accountProfitInfo'[b]]
    BY <1>1, <1>2, <1>3
    DEF UserStep, Deposit, RequestWithdrawal, Claim, ForceWithdraw, accountVars
  <1>4. CASE \/ Tick \/ TakeInvestment \/ \E amount \in TransferAmounts :
                                              SendRequestedWithdrawal(amount)
             \/ \E n \in 0 .. DueCycles : UpdateCurrentTradingCycle(n)
    BY <1>2, <1>4
    DEF Tick, TakeInvestment, SendRequestedWithdrawal, UpdateCurrentTradingCycle, accountVars
  <1>5. CASE \E a \in Accounts : UpdateProfit(a)
    BY <1>1, <1>5 DEF UpdateProfit
  <1>6. CASE UNCHANGED profitVarsAll
    BY <1>2, <1>6 DEF profitVarsAll, vars, accountVars
  <1> QED BY <1>3, <1>4, <1>5, <1>6 DEF Next

\* A profit is sent for a cycle that the updated calendar has passed.
LEMMA SentCycleHasEnded ==
    ASSUME SettledInv, PoolInv', tradingCycles' = CurrentCycles, HasEnded(currentProfitId)
    PROVE  currentProfitId + 1 <= Len(tradingCycles') - 1
  <1>1. PICK cycles : cycles = tradingCycles'
    OBVIOUS
  <1>2. cycles \in Seq(Cycle) /\ cycles # <<>> /\ Len(cycles) \in Nat \ {0}
    <2>1. cycles \in Seq(Cycle) /\ cycles # <<>>
      BY <1>1 DEF PoolInv, IInv, AccountTypeOK, CalendarInv, Cycle, InRow
    <2> QED BY <2>1
  <1>3. Len(cycles) \in 1 .. Len(cycles) /\ Len(cycles) - 1 \in Nat
    BY <1>2
  <1>4. cycles[Len(cycles)] = RowCycle(Len(cycles) - 1)
    BY <1>1, <1>3 DEF PoolInv, UnitsInv, StoredRow, RowCycle
  <1>5. GetLast(cycles).id = Len(cycles) - 1
    BY <1>3, <1>4, RowCycleFacts DEF GetLast
  <1>6. currentProfitId < GetLast(cycles).id
    BY <1>1 DEF HasEnded
  <1> QED BY <1>1, <1>3, <1>5, <1>6 DEF SettledInv, SettledInCalendar

\* What a profit sent for a cycle adds to the list of profits.
LEMMA SendAppends ==
    ASSUME SettledInv, NEW b \in Nat,
           profits' = Append([profits EXCEPT ![currentProfitId + 1] = b], 0),
           currentProfitId' = currentProfitId + 1
    PROVE  /\ profits' \in Seq(Nat) /\ Len(profits') = currentProfitId' + 1
           /\ profits'[currentProfitId' + 1] = 0
           /\ profits'[currentProfitId + 1] = b
           /\ \A i \in 1 .. currentProfitId : profits'[i] = profits[i]
  <1>1. PICK c \in Nat, p \in Seq(Nat) : c = currentProfitId /\ p = profits /\ Len(p) = c + 1
    BY DEF SettledInv, SettledInCalendar
  <1>2. PICK q : q = [p EXCEPT ![c + 1] = b]
    OBVIOUS
  <1>3. /\ q \in Seq(Nat) /\ Len(q) = c + 1 /\ q[c + 1] = b
        /\ \A i \in 1 .. c : q[i] = p[i]
    BY <1>1, <1>2
  <1>4. PICK r : r = Append(q, 0)
    OBVIOUS
  <1>5. /\ r \in Seq(Nat) /\ Len(r) = c + 2 /\ r[c + 2] = 0 /\ r[c + 1] = b
        /\ \A i \in 1 .. c : r[i] = p[i]
    BY <1>3, <1>4
  <1>6. profits' = r /\ currentProfitId' + 1 = c + 2 /\ currentProfitId + 1 = c + 1
    BY <1>1, <1>2, <1>4
  <1> QED BY <1>1, <1>5, <1>6

\* Sending a profit settles one more cycle.
LEMMA SendKeepsProfits ==
    ASSUME ProfitInv, PoolInv', ListsStep, CalendarStays,
           NEW amount, NEW bought \in PcogAmounts \union {0}, SendProfit(amount, bought)
    PROVE  SettledInv' /\ InfosInv' /\ PcogInv'
  <1>1. SettledInv /\ InfosInv /\ PcogInv /\ PoolInv
    BY DEF ProfitInv
  <1>2. PICK c \in Nat : c = currentProfitId /\ currentProfitId' = c + 1
    BY <1>1 DEF SettledInv, SettledInCalendar, SendProfit
  <1>3. bought \in Nat
    BY ProfitAssumption
  <1>4. profits \in Seq(Nat) /\ Len(profits) = c + 1 /\ profits[c + 1] = 0
    BY <1>1, <1>2 DEF SettledInv
  <1>5. PICK b \in Nat : /\ b <= bought
                         /\ profits' = Append([profits EXCEPT ![currentProfitId + 1] = b], 0)
    <2>1. profits' = Append([profits EXCEPT ![currentProfitId + 1] = bought], 0)
          \/ profits' = Append([profits EXCEPT ![currentProfitId + 1] = profits[c + 1]], 0)
      BY <1>2 DEF SendProfit
    <2>2. 0 \in Nat /\ 0 <= bought /\ bought <= bought
      BY <1>3
    <2> QED BY <1>3, <1>4, <2>1, <2>2
  <1>6. /\ profits' \in Seq(Nat) /\ Len(profits') = currentProfitId' + 1
        /\ profits'[currentProfitId' + 1] = 0 /\ profits'[c + 1] = b
        /\ \A i \in 1 .. c : profits'[i] = profits[i]
    BY <1>1, <1>2, <1>5, SendAppends
  <1>7. /\ accountProfitInfo' = accountProfitInfo /\ pcog' = pcog + bought
        /\ tradingCycles' = CurrentCycles /\ HasEnded(currentProfitId)
    BY DEF SendProfit, UpdateCalendar, CurrentCycles, accountVars
  <1>8. SettledInv'
    <2>1. currentProfitId' <= Len(tradingCycles') - 1
      BY <1>1, <1>2, <1>7, SentCycleHasEnded
    <2> QED BY <1>2, <1>6, <2>1 DEF SettledInv, SettledInCalendar
  <1>9. ASSUME NEW a \in Accounts
        PROVE  /\ Reaches(accountProfitInfo[a], investmentsOf'[a], c + 1)
               /\ Balance(accountProfitInfo[a], investmentsOf'[a], units', profits') = Balances[a]
    <2>1. /\ Reaches(accountProfitInfo[a], investmentsOf'[a], c)
          /\ Balance(accountProfitInfo[a], investmentsOf'[a], units', profits') = Balances[a]
      BY <1>1, <1>2, <1>6, InfoStays
    <2>2. accountProfitInfo[a].lastProfitId \in Nat
      BY <1>1 DEF InfosInv, ProfitRecord
    <2> QED BY <1>2, <2>1, <2>2 DEF Reaches
  <1>10. Balances' = Balances /\ Claimed' = Claimed
    BY <1>7, <1>9 DEF Balances, Claimed
  <1>11. InfosInv'
    <2>1. SumFunction(Balances') = 0
      BY <1>1, <1>10 DEF InfosInv
    <2>2. (SumFunction(Balances) = 0)'
      BY <2>1
    <2>3. accountProfitInfo' \in [Accounts -> ProfitRecord]
      BY <1>1, <1>7 DEF InfosInv
    <2> QED BY <1>2, <1>7, <1>9, <2>2, <2>3 DEF InfosInv, Reaches
  <1>12. PcogInv'
    <2>1. PICK f : f = [id \in 0 .. c - 1 |-> profits[id + 1]]
      OBVIOUS
    <2>2. \A id \in 0 .. c : id + 1 \in 1 .. c + 1
      BY <1>2
    <2>3. f \in [0 .. c - 1 -> Int]
      BY <1>4, <2>1, <2>2
    <2>4. PICK g : g = [id \in 0 .. currentProfitId' - 1 |-> profits'[id + 1]]
      OBVIOUS
    <2>5. /\ g \in [0 .. c -> Int] /\ g[c] = b
          /\ \A id \in 0 .. c - 1 : id \in 0 .. c /\ g[id] = f[id]
      <3>1. currentProfitId' - 1 = c
        BY <1>2
      <3>2. \A id \in 0 .. c - 1 : id + 1 \in 1 .. c
        BY <1>2
      <3>3. \A i \in 1 .. c + 1 : profits'[i] \in Int
        BY <1>2, <1>6
      <3> QED BY <1>2, <1>6, <2>1, <2>2, <2>4, <3>1, <3>2, <3>3
    <2>7. SumFunction(g) = SumFunction(f) + b
      <3>1. /\ 0 \in Nat /\ 0 <= c /\ (c + 1) - 1 = c
            /\ \A id \in 0 .. c - 1 : g[id] \in Int
            /\ g[c] \in Int /\ c \in Nat
        BY <1>2, <2>5
      <3>2. SumFrom(g, 0, c + 1) = SumFrom(g, 0, c) + b
        <4>1. g[c] \in Int => SumFrom(g, 0, c + 1) = SumFrom(g, 0, c) + g[c]
          BY <3>1, SumFromNext
        <4> QED BY <2>5, <3>1, <4>1
      <3>3. SumFrom(g, 0, c) = SumFunction(f)
        <4>1. f = [id \in 0 .. c - 1 |-> g[id]]
          BY <2>3, <2>5
        <4> QED BY <4>1 DEF SumFrom
      <3>4. SumFrom(g, 0, c + 1) = SumFunction(g)
        <4>1. g = [id \in 0 .. (c + 1) - 1 |-> g[id]]
          BY <2>5, <3>1
        <4> QED BY <4>1 DEF SumFrom
      <3> QED BY <3>2, <3>3, <3>4
    <2>8. SumFunction(f) \in Int
      <3>1. IsFiniteSet(0 .. c - 1)
        BY <1>2, FS_Interval
      <3> QED BY <2>3, <3>1, SumIsInt
    <2>9. SumFunction(Claimed) \in Int
      <3>1. Claimed \in [Accounts -> Int]
        BY <1>1 DEF InfosInv, Claimed, ProfitRecord
      <3> QED BY <3>1, AccountAssumption, SumIsInt
    <2>10. pcog \in Int /\ SumFunction(f) <= pcog + SumFunction(Claimed)
      BY <1>1, <1>2, <2>1 DEF PcogInv
    <2>11. pcog' \in Int /\ SumFunction(g) <= pcog' + SumFunction(Claimed)
      BY <1>3, <1>5, <1>7, <2>7, <2>8, <2>9, <2>10
    <2>12. SumFunction(g) <= pcog' + SumFunction(Claimed')
      BY <1>10, <2>11
    <2> QED BY <2>4, <2>11, <2>12 DEF PcogInv
  <1> QED BY <1>8, <1>11, <1>12

\* The profit infos when account a has taken what info says, for another.
PaidBy(paid, a, to, info) ==
    /\ paid \in [Accounts -> ProfitRecord]
    /\ \A b \in Accounts :
           LET old == IF b = a THEN info ELSE accountProfitInfo[b]
           IN /\ paid[b].lastProfitId = old.lastProfitId
              /\ paid[b].lastInvestmentId = old.lastInvestmentId
              /\ paid[b].profit = IF b = a THEN 0 ELSE old.profit
              /\ paid[b].claimedProfit
                     = IF b = to THEN old.claimedProfit + info.profit
                       ELSE old.claimedProfit

\* A payment leaves them so.
LEMMA PaidInfos ==
    ASSUME accountProfitInfo \in [Accounts -> ProfitRecord], NEW a \in Accounts,
           NEW to \in Accounts, NEW info \in ProfitRecord,
           NEW paid, paid = PaidProfitInfo(a, to, info)
    PROVE  PaidBy(paid, a, to, info)
  <1>1. PICK emptied : emptied = [info EXCEPT !.profit = 0, !.profitForWhitelist = 0]
    OBVIOUS
  <1>2. /\ emptied \in ProfitRecord /\ emptied.profit = 0
        /\ emptied.claimedProfit = info.claimedProfit
        /\ emptied.lastProfitId = info.lastProfitId
        /\ emptied.lastInvestmentId = info.lastInvestmentId
    <2>1. PICK one : one = [info EXCEPT !.profit = 0]
      OBVIOUS
    <2>2. /\ one \in ProfitRecord /\ one.profit = 0 /\ one.claimedProfit = info.claimedProfit
          /\ one.lastProfitId = info.lastProfitId /\ one.lastInvestmentId = info.lastInvestmentId
      BY <2>1 DEF ProfitRecord
    <2>3. emptied = [one EXCEPT !.profitForWhitelist = 0]
      BY <1>1, <2>1
    <2> QED BY <2>2, <2>3 DEF ProfitRecord
  <1>3. PICK before : before = [accountProfitInfo EXCEPT ![a] = emptied]
    OBVIOUS
  <1>4. before \in [Accounts -> ProfitRecord]
    BY <1>2, <1>3
  <1>5. PICK credited : credited = [before[to] EXCEPT
                            !.claimedProfit = @ + info.profit,
                            !.claimedProfitForWhitelist = @ + info.profitForWhitelist]
    OBVIOUS
  <1>6. /\ credited \in ProfitRecord
        /\ credited.profit = before[to].profit
        /\ credited.lastProfitId = before[to].lastProfitId
        /\ credited.lastInvestmentId = before[to].lastInvestmentId
        /\ credited.claimedProfit = before[to].claimedProfit + info.profit
    <2>1. PICK old \in ProfitRecord : old = before[to]
      BY <1>4
    <2>2. /\ old.claimedProfit + info.profit \in Int
          /\ old.claimedProfitForWhitelist + info.profitForWhitelist \in Int
      BY DEF ProfitRecord
    <2>3. PICK one : one = [old EXCEPT !.claimedProfit = old.claimedProfit + info.profit]
      OBVIOUS
    <2>4. /\ one \in ProfitRecord /\ one.profit = old.profit
          /\ one.claimedProfitForWhitelist = old.claimedProfitForWhitelist
          /\ one.lastProfitId = old.lastProfitId /\ one.lastInvestmentId = old.lastInvestmentId
          /\ one.claimedProfit = old.claimedProfit + info.profit
      BY <2>2, <2>3 DEF ProfitRecord
    <2>5. credited = [one EXCEPT !.claimedProfitForWhitelist
                          = old.claimedProfitForWhitelist + info.profitForWhitelist]
      BY <1>5, <2>1, <2>3
    <2> QED BY <2>1, <2>2, <2>4, <2>5 DEF ProfitRecord
  <1>7. paid = [before EXCEPT ![to] = credited]
    <2>1. before = [accountProfitInfo EXCEPT
                        ![a] = [info EXCEPT !.profit = 0, !.profitForWhitelist = 0]]
      BY <1>1, <1>3
    <2> QED BY <1>5, <2>1 DEF PaidProfitInfo
  <1>8. paid \in [Accounts -> ProfitRecord]
    BY <1>4, <1>6, <1>7
  <1>9. ASSUME NEW b \in Accounts
        PROVE  /\ before[b] = IF b = a THEN emptied ELSE accountProfitInfo[b]
               /\ paid[b] = IF b = to THEN credited ELSE before[b]
    BY <1>3, <1>4, <1>7
  <1> QED BY <1>2, <1>6, <1>8, <1>9 DEF PaidBy

\* What was bought for the settled cycles is a number.
LEMMA BoughtIsInt ==
    ASSUME SettledInv
    PROVE  SumFunction([id \in 0 .. currentProfitId - 1 |-> profits[id + 1]]) \in Int
  <1>1. PICK c \in Nat, p \in Seq(Nat) : c = currentProfitId /\ p = profits /\ Len(p) = c + 1
    BY DEF SettledInv, SettledInCalendar
  <1>2. PICK f : f = [id \in 0 .. c - 1 |-> p[id + 1]]
    OBVIOUS
  <1>3. \A id \in 0 .. c - 1 : id + 1 \in 1 .. Len(p)
    BY <1>1
  <1>4. f \in [0 .. c - 1 -> Int]
    BY <1>1, <1>2, <1>3
  <1>5. IsFiniteSet(0 .. c - 1)
    BY <1>1, FS_Interval
  <1>6. SumFunction(f) \in Int
    BY <1>4, <1>5, SumIsInt
  <1> QED BY <1>1, <1>2, <1>6

\* Taking a profit moves it from what is held to what was taken.
LEMMA TakeKeepsProfits ==
    ASSUME ProfitInv, PoolInv', ListsStep, CalendarStays,
           NEW a \in Accounts, NEW to \in Accounts, TakeProfit(a, to)
    PROVE  SettledInv' /\ InfosInv' /\ PcogInv'
  <1>1. SettledInv /\ InfosInv /\ PcogInv /\ PoolInv
    BY DEF ProfitInv
  <1>2. PICK info : info = TakeableProfitInfo(a, CurrentCycles, UnitsAfter(DueCycles))
    OBVIOUS
  <1>3. /\ tradingCycles' = CurrentCycles /\ units' = UnitsAfter(DueCycles)
        /\ UNCHANGED <<profitVars, investmentsOf>>
        /\ accountProfitInfo' = PaidProfitInfo(a, to, info) /\ pcog' = pcog - info.profit
    BY <1>2 DEF TakeProfit, UpdateCalendar, CurrentCycles
  <1>4. profits' = profits /\ currentProfitId' = currentProfitId
    BY <1>3 DEF profitVars
  <1>5. PICK c \in Nat : c = currentProfitId
    BY <1>1 DEF SettledInv, SettledInCalendar
  <1>6. SettledInv'
    <2>1. currentProfitId <= Len(tradingCycles') - 1
      BY <1>1, SettledStays DEF SettledInv
    <2> QED BY <1>1, <1>4, <2>1 DEF SettledInv, SettledInCalendar
  <1>7. /\ info \in ProfitRecord
        /\ Reaches(info, investmentsOf'[a], c)
        /\ info.claimedProfit = accountProfitInfo[a].claimedProfit
        /\ Balance(info, investmentsOf'[a], units', profits') = Balances[a]
    <2>1. info = UpdatedProfitInfo(accountProfitInfo[a], investmentsOf'[a], tradingCycles', units')
      BY <1>2, <1>3 DEF TakeableProfitInfo
    <2> QED BY <1>1, <1>3, <1>5, <2>1, InfoIsUpdated
  <1>8. PICK paid : paid = accountProfitInfo' /\ paid = PaidProfitInfo(a, to, info)
    BY <1>3
  <1>9. PaidBy(paid, a, to, info)
    <2>1. accountProfitInfo \in [Accounts -> ProfitRecord] /\ info \in ProfitRecord
      BY <1>1, <1>7 DEF InfosInv
    <2>2. paid = PaidProfitInfo(a, to, info)
      BY <1>8
    <2> QED BY <2>1, <2>2, PaidInfos
  <1>10. /\ paid \in [Accounts -> ProfitRecord]
        /\ \A b \in Accounts :
               LET old == IF b = a THEN info ELSE accountProfitInfo[b]
               IN /\ paid[b].lastProfitId = old.lastProfitId
                  /\ paid[b].lastInvestmentId = old.lastInvestmentId
                  /\ paid[b].profit = IF b = a THEN 0 ELSE old.profit
                  /\ paid[b].claimedProfit
                         = IF b = to THEN old.claimedProfit + info.profit
                           ELSE old.claimedProfit
    BY <1>9 DEF PaidBy
  <1>11. PICK p \in Int : p = info.profit
    BY <1>7 DEF ProfitRecord
  <1>12. Balances \in [Accounts -> Int] /\ Claimed \in [Accounts -> Int]
    <2>1. \A b \in Accounts : Balances[b] \in Int
      BY <1>1, <1>4, InfoStays
    <2> QED BY <1>1, <2>1 DEF InfosInv, Claimed, ProfitRecord, Balances
  <1>13. Balances' = [[Balances EXCEPT ![a] = Balances[a] - p] EXCEPT
                         ![to] = [Balances EXCEPT ![a] = Balances[a] - p][to] + p]
    <2> DEFINE new == [Balances EXCEPT ![a] = Balances[a] - p]
    <2>1. ASSUME NEW b \in Accounts
          PROVE  Balance(paid[b], investmentsOf'[b], units', profits')
                     = IF b = to THEN new[b] + p ELSE new[b]
      <3>1. PICK old : /\ old = (IF b = a THEN info ELSE accountProfitInfo[b])
                       /\ old \in ProfitRecord
        BY <1>1, <1>7 DEF InfosInv
      <3>2. /\ paid[b].lastProfitId = old.lastProfitId
            /\ paid[b].profit = IF b = a THEN 0 ELSE old.profit
            /\ paid[b].claimedProfit
                   = IF b = to THEN old.claimedProfit + p ELSE old.claimedProfit
        BY <1>10, <1>11, <3>1
      <3>3. Balance(old, investmentsOf'[b], units', profits') = Balances[b]
        <4>1. CASE b = a
          BY <1>7, <3>1, <4>1
        <4>2. CASE b # a
          BY <1>1, <1>4, <3>1, <4>2, InfoStays
        <4> QED BY <4>1, <4>2
      <3>4. PICK s : s = SharesTo(investmentsOf'[b], units', profits', old.lastProfitId)
        OBVIOUS
      <3>5. Balances[b] = (old.profit + old.claimedProfit) - s
        BY <3>3, <3>4 DEF Balance
      <3>6. Balance(paid[b], investmentsOf'[b], units', profits')
                = (paid[b].profit + paid[b].claimedProfit) - s
        BY <3>2, <3>4 DEF Balance
      <3>7. new[b] = IF b = a THEN Balances[b] - p ELSE Balances[b]
        BY DEF Balances
      <3>8. s \in Int
        <4>1. old.lastProfitId \in 0 .. c
          BY <1>1, <1>5, <1>7, <3>1 DEF InfosInv, Reaches, ProfitRecord
        <4>2. PICK invs, cycles, u, pr, l : /\ invs = investmentsOf'[b] /\ cycles = tradingCycles'
                                            /\ u = units' /\ pr = profits' /\ l = old.lastProfitId
          OBVIOUS
        <4>3. invs \in Seq(InvestmentType)
          BY <4>2 DEF PoolInv, IInv, AccountTypeOK
        <4>4. ProfitData(cycles, u, pr, c)
          BY <1>1, <1>4, <1>5, <4>2, SettledShares
        <4>5. SharesTo(invs, u, pr, l) \in Int
          BY <4>1, <4>2, <4>3, <4>4, SharesAddUp
        <4> QED BY <3>4, <4>2, <4>5
      <3>9. PICK x \in Int, y \in Int : x = old.profit /\ y = old.claimedProfit
        BY <3>1 DEF ProfitRecord
      <3>10. b = a => old.profit = p
        BY <1>11, <3>1
      <3> QED BY <3>2, <3>5, <3>6, <3>7, <3>8, <3>9, <3>10
    <2>2. Balances' = [b \in Accounts |-> Balance(paid[b], investmentsOf'[b], units', profits')]
      BY <1>8 DEF Balances
    <2>3. DOMAIN new = Accounts
      BY DEF Balances
    <2> HIDE DEF new
    <2>4. Balances' = [new EXCEPT ![to] = new[to] + p]
      BY <2>1, <2>2, <2>3
    <2> QED BY <2>4 DEF new
  <1>14. SumFunction(Balances') = 0
    <2>1. PICK f, one : f = Balances /\ one = [f EXCEPT ![a] = f[a] - p]
      OBVIOUS
    <2>2. f \in [Accounts -> Int] /\ f[a] - p \in Int
      BY <1>12, <2>1
    <2>3. one \in [Accounts -> Int] /\ one[to] + p \in Int
      BY <2>1, <2>2
    <2>4. SumFunction(one) = SumFunction(f) + ((f[a] - p) - f[a])
      BY <2>1, <2>2, AccountAssumption, SumOfChange
    <2>5. SumFunction([one EXCEPT ![to] = one[to] + p])
              = SumFunction(one) + ((one[to] + p) - one[to])
      BY <2>3, AccountAssumption, SumOfChange
    <2>6. Balances' = [one EXCEPT ![to] = one[to] + p]
      BY <1>13, <2>1
    <2>7. SumFunction(f) = 0 /\ f[a] \in Int /\ one[to] \in Int
      BY <1>1, <2>1, <2>3, <2>2 DEF InfosInv
    <2> QED BY <2>4, <2>5, <2>6, <2>7
  <1>15. InfosInv'
    <2>1. (SumFunction(Balances) = 0)'
      BY <1>14
    <2>2. ASSUME NEW b \in Accounts PROVE Reaches(paid[b], investmentsOf'[b], c)
      <3>1. CASE b = a
        BY <1>7, <1>10, <3>1 DEF Reaches
      <3>2. CASE b # a
        <4>1. Reaches(accountProfitInfo[b], investmentsOf'[b], c)
          BY <1>1, <1>4, <1>5, InfoStays
        <4> QED BY <1>10, <3>2, <4>1 DEF Reaches
      <3> QED BY <3>1, <3>2
    <2> QED BY <1>4, <1>5, <1>8, <1>10, <2>1, <2>2 DEF InfosInv, Reaches
  <1>16. SumFunction(Claimed') = SumFunction(Claimed) + p /\ SumFunction(Claimed) \in Int
    <2>1. Claimed' = [Claimed EXCEPT ![to] = Claimed[to] + p]
      <3>1. ASSUME NEW b \in Accounts
            PROVE  paid[b].claimedProfit = IF b = to THEN Claimed[b] + p ELSE Claimed[b]
        BY <1>7, <1>10, <1>11 DEF Claimed
      <3>2. Claimed' = [b \in Accounts |-> paid[b].claimedProfit]
        BY <1>8 DEF Claimed
      <3>3. DOMAIN Claimed = Accounts
        BY <1>12
      <3> QED BY <3>1, <3>2, <3>3
    <2>2. PICK f : f = Claimed /\ f \in [Accounts -> Int] /\ f[to] + p \in Int
      BY <1>12
    <2>3. SumFunction([f EXCEPT ![to] = f[to] + p]) = SumFunction(f) + ((f[to] + p) - f[to])
      BY <2>2, AccountAssumption, SumOfChange
    <2>4. SumFunction(f) \in Int /\ f[to] \in Int
      BY <2>2, AccountAssumption, SumIsInt
    <2> QED BY <2>1, <2>2, <2>3, <2>4
  <1>17. PcogInv'
    <2>1. PICK s : s = SumFunction([id \in 0 .. currentProfitId - 1 |-> profits[id + 1]])
      OBVIOUS
    <2>2. s <= pcog + SumFunction(Claimed) /\ pcog \in Int
      BY <1>1, <2>1 DEF PcogInv
    <2>3. pcog' = pcog - p
      BY <1>3, <1>11
    <2>4. s \in Int
      BY <1>1, <2>1, BoughtIsInt
    <2>5. pcog' \in Int /\ s <= pcog' + SumFunction(Claimed')
      BY <1>11, <1>16, <2>2, <2>3, <2>4
    <2> QED BY <1>4, <2>1, <2>5 DEF PcogInv
  <1> QED BY <1>6, <1>15, <1>17

\* A pool of returning accounts begins without profits.
LEMMA InitProfits == ReturningProfitInit => ProfitInv
  <1> SUFFICES ASSUME ReturningProfitInit PROVE ProfitInv
    OBVIOUS
  <1> DEFINE none == [amount |-> 0, unit |-> 0, timestamp |-> 0,
                      idChanged |-> 0, isWhitelist |-> FALSE]
             nothing == [profit |-> 0, profitForWhitelist |-> 0, claimedProfit |-> 0,
                         claimedProfitForWhitelist |-> 0, lastProfitId |-> 0,
                         lastInvestmentId |-> 0]
  <1>1. PoolInit(TRUE, <<none>>) /\ pcog = 0
    BY DEF ReturningProfitInit, ReturningInit
  <1>2. /\ Ordered(<<none>>) /\ <<none>> # <<>> /\ nothing \in ProfitRecord
        /\ nothing.profit = 0 /\ nothing.claimedProfit = 0 /\ nothing.lastProfitId = 0
    <2>1. none \in InvestmentType /\ none.isWhitelist = FALSE /\ none.idChanged = 0
      BY DEF InvestmentType
    <2> HIDE DEF none
    <2>2. Ordered(<<none>>)
      BY <2>1 DEF Ordered
    <2> QED BY <2>2 DEF ProfitRecord
  <1>3. Reaches(nothing, <<none>>, 0)
    BY DEF Reaches
  <1>4. /\ \A a \in Accounts : /\ investmentsOf[a] = <<none>>
                               /\ accountProfitInfo[a] = nothing
                               /\ accountTradingInfo[a].isNotFirstIncreaseInvestment
        /\ accountProfitInfo = [a \in Accounts |-> nothing]
        /\ whitelist = {} /\ liquidity.whitelist = 0
        /\ units.whitelist = <<>> /\ profits = <<0>> /\ currentProfitId = 0
        /\ tradingCycles = <<[id |-> 0, startTime |-> 0, endTime |-> TradingCycle]>>
    BY <1>1 DEF PoolInit
  <1> HIDE DEF none, nothing
  <1>5. PoolInv
    <2>1. PlainPool
      BY <1>2, <1>4 DEF PlainPool, NoWhitelistUnits, ValueAt
    <2> QED BY <2>1, InitReturning DEF PoolInv, ReturningProfitInit
  <1>6. SettledInv
    BY <1>4 DEF SettledInv, SettledInCalendar
  <1>7. Balances = [a \in Accounts |-> 0]
    <2>1. ASSUME NEW a \in Accounts
          PROVE  Balance(accountProfitInfo[a], investmentsOf[a], units, profits) = 0
      <3>1. PICK f : f = [id \in 0 .. 0 - 1 |-> ShareIn(investmentsOf[a], units, profits, id)]
        OBVIOUS
      <3>2. f = [id \in 0 .. 0 - 1 |-> f[id]]
        BY <3>1
      <3>3. SumFunction(f) = 0
        <4>1. SumFrom(f, 0, 0) = 0
          BY SumFromNone
        <4> QED BY <3>2, <4>1 DEF SumFrom
      <3>4. SharesTo(investmentsOf[a], units, profits, 0) = 0
        BY <3>1, <3>3 DEF SharesTo
      <3> QED BY <1>2, <1>4, <3>4 DEF Balance
    <2> QED BY <2>1 DEF Balances
  <1>8. InfosInv
    <2>1. SumFunction(Balances) = 0
      BY <1>7, AccountAssumption, SumOfZeros
    <2> QED BY <1>2, <1>3, <1>4, <2>1 DEF InfosInv
  <1>9. PcogInv
    <2>1. Claimed = [a \in Accounts |-> 0]
      BY <1>2, <1>4 DEF Claimed
    <2>2. SumFunction(Claimed) = 0
      BY <2>1, AccountAssumption, SumOfZeros
    <2>3. SumFunction([id \in 0 .. currentProfitId - 1 |-> profits[id + 1]]) = 0
      <3>1. PICK f : f = [id \in 0 .. 0 - 1 |-> profits[id + 1]]
        OBVIOUS
      <3>2. f = [id \in 0 .. 0 - 1 |-> f[id]]
        BY <3>1
      <3>3. SumFrom(f, 0, 0) = 0
        BY SumFromNone
      <3> QED BY <1>4, <3>1, <3>2, <3>3 DEF SumFrom
    <2> QED BY <1>1, <2>2, <2>3 DEF PcogInv
  <1> QED BY <1>5, <1>6, <1>8, <1>9 DEF ProfitInv

\* Every step keeps the invariant of the profits.
LEMMA StepKeepsProfits ==
    Aligned /\ ProfitInv /\ [ProfitNext]_profitVarsAll => ProfitInv'
  <1> SUFFICES ASSUME Aligned, ProfitInv, [ProfitNext]_profitVarsAll
               PROVE  ProfitInv'
    OBVIOUS
  <1>1. PoolInv /\ SettledInv /\ InfosInv /\ PcogInv
    BY DEF ProfitInv
  <1>2. accountProfitInfo \in [Accounts -> ProfitRecord]
    BY <1>1 DEF InfosInv
  <1>3. PoolInv' /\ ListsStep /\ CalendarStays
    BY <1>1, <1>2, StepKeepsPool
  <1>4. ASSUME InfosStep, UNCHANGED <<profitVars, pcog>>,
               accountProfitInfo' = [a \in Accounts |-> accountProfitInfo'[a]]
        PROVE  ProfitInv'
    <2>1. currentProfitId' = currentProfitId /\ profits' = profits /\ pcog' = pcog
      BY <1>4 DEF profitVars
    <2>2. SettledInv'
      <3>1. currentProfitId <= Len(tradingCycles') - 1
        BY <1>1, <1>3, SettledStays DEF SettledInv
      <3> QED BY <1>1, <2>1, <3>1 DEF SettledInv, SettledInCalendar
    <2>3. InfosInv' /\ Claimed' = Claimed
      BY <1>1, <1>3, <1>4, InfosAfter
    <2>4. PcogInv'
      <3>1. SumFunction(Claimed') = SumFunction(Claimed)
        BY <2>3
      <3> QED BY <1>1, <2>1, <3>1 DEF PcogInv
    <2> QED BY <1>3, <2>2, <2>3, <2>4 DEF ProfitInv
  <1>5. CASE Next /\ UNCHANGED pcog
    <2>1. InfosStep /\ UNCHANGED <<profitVars, pcog>>
      BY <1>1, <1>2, <1>5, NextIsPlain
    <2> QED BY <1>2, <1>4, <1>5, <2>1, InfosAreFunction
  <1>6. ASSUME NEW amount \in ProfitAmounts, NEW bought \in PcogAmounts \union {0},
               SendProfit(amount, bought)
        PROVE  ProfitInv'
    BY <1>3, <1>6, SendKeepsProfits DEF ProfitInv
  <1>7. ASSUME NEW a \in Accounts, NEW to \in Accounts, TakeProfit(a, to)
        PROVE  ProfitInv'
    BY <1>3, <1>7, TakeKeepsProfits DEF ProfitInv
  <1>8. ASSUME NEW a \in Accounts, UpdateProfit(a)
        PROVE  ProfitInv'
    <2>1. UNCHANGED <<profitVars, pcog>>
      BY <1>8 DEF UpdateProfit
    <2>2. InfosStep
      <3>1. UNCHANGED <<calendar, units, investmentsOf, profitVars>>
        BY <1>8 DEF UpdateProfit
      <3>2. accountProfitInfo'[a] = TakeableProfitInfo(a, tradingCycles, units)
        BY <1>2, <1>8 DEF UpdateProfit
      <3>3. \A b \in Accounts : b # a => accountProfitInfo'[b] = accountProfitInfo[b]
        BY <1>2, <1>8 DEF UpdateProfit
      <3>4. tradingCycles' = tradingCycles
        BY <3>1 DEF calendar
      <3> QED BY <3>1, <3>2, <3>3, <3>4 DEF InfosStep, TakeableProfitInfo
    <2> QED BY <1>2, <1>4, <1>8, <2>1, <2>2, InfosAreFunction
  <1>9. CASE UNCHANGED profitVarsAll
    <2>1. UNCHANGED <<profitVars, pcog, accountProfitInfo>>
      BY <1>9 DEF profitVarsAll, vars, accountVars, profitVars
    <2>2. InfosStep
      BY <2>1 DEF InfosStep
    <2> QED BY <1>2, <1>4, <1>9, <2>1, <2>2, InfosAreFunction
  <1> QED BY <1>5, <1>6, <1>7, <1>8, <1>9 DEF ProfitNext

LEMMA ProfitInvIsInvariant ==
    ASSUME Aligned PROVE ReturningProfitSpec => []ProfitInv
  <1>1. ProfitInv /\ [ProfitNext]_profitVarsAll => ProfitInv'
    BY StepKeepsProfits
  <1> QED BY <1>1, InitProfits, PTL DEF ReturningProfitSpec

\* Two sums over the accounts are one.
LEMMA AccountSums ==
    ASSUME NEW f \in [Accounts -> Int], NEW g \in [Accounts -> Int],
           NEW h, h = [a \in Accounts |-> f[a] + g[a]]
    PROVE  SumFunction(h) = SumFunction(f) + SumFunction(g)
  <1>1. IsFiniteSet(Accounts) /\ DOMAIN h = Accounts /\ \A a \in Accounts : h[a] = f[a] + g[a]
    BY AccountAssumption
  <1> QED BY <1>1, SumOfSums

\* The shares of a cycle are not more than its profit: each is rounded down.
LEMMA SharesOfOneCycle ==
    ASSUME NEW e \in [Accounts -> Int], NEW u \in Int, u > 0 => u = SumFunction(e),
           NEW p \in Nat,
           NEW s, s = [a \in Accounts |-> IF u <= 0 THEN 0 ELSE (p * e[a]) \div u]
    PROVE  s \in [Accounts -> Int] /\ SumFunction(s) <= p
  <1>1. CASE u <= 0
    <2>1. \A a \in Accounts : s[a] = 0
      BY <1>1
    <2>2. DOMAIN s = Accounts /\ s \in [Accounts -> Int]
      BY <2>1
    <2>3. SumFunction(s) = 0
      BY <2>1, <2>2, AccountAssumption, SumOfZeros
    <2> QED BY <2>2, <2>3
  <1>2. CASE u > 0
    <2>1. ASSUME NEW a \in Accounts
          PROVE  s[a] \in Int /\ s[a] * u <= e[a] * p
      <3>1. PICK x \in Int : x = e[a]
        OBVIOUS
      <3>2. PICK y \in Int : y = p * x
        OBVIOUS
      <3>3. s[a] = y \div u
        BY <1>2, <3>1, <3>2
      <3>4. y \div u \in Int /\ (y \div u) * u <= y
        BY <1>2
      <3>5. e[a] * p = y
        BY <3>1, <3>2
      <3> QED BY <3>3, <3>4, <3>5
    <2>2. s \in [Accounts -> Int]
      BY <2>1
    <2>3. PICK h : h = [a \in Accounts |-> s[a] * u]
      OBVIOUS
    <2>4. PICK k : k = [a \in Accounts |-> e[a] * p]
      OBVIOUS
    <2>5. /\ h \in [Accounts -> Int] /\ DOMAIN h = Accounts
          /\ \A a \in Accounts : h[a] = s[a] * u
      BY <2>2, <2>3
    <2>6. /\ k \in [Accounts -> Int] /\ DOMAIN k = Accounts
          /\ \A a \in Accounts : k[a] = e[a] * p
      BY <2>4
    <2>7. SumFunction(h) = SumFunction(s) * u
      BY <2>2, <2>5, AccountAssumption, SumOfMultiples
    <2>8. SumFunction(k) = SumFunction(e) * p
      BY <2>6, AccountAssumption, SumOfMultiples
    <2>9. SumFunction(h) <= SumFunction(k)
      <3>1. \A a \in Accounts : h[a] <= k[a]
        BY <2>1, <2>5, <2>6
      <3> QED BY <2>5, <2>6, <3>1, AccountAssumption, SumIsMonotone
    <2>10. PICK z \in Int : z = SumFunction(s)
      BY <2>2, AccountAssumption, SumIsInt
    <2>11. z * u <= u * p
      BY <1>2, <2>7, <2>8, <2>9, <2>10
    <2>12. z <= p
      <3>1. CASE z >= p + 1
        <4>1. (z - (p + 1)) * u >= 0
          BY <1>2, <3>1
        <4>2. (z - (p + 1)) * u = z * u - (u * p + u)
          OBVIOUS
        <4>3. z * u \in Int /\ u * p \in Int
          OBVIOUS
        <4> QED BY <1>2, <2>11, <4>1, <4>2, <4>3
      <3> QED BY <3>1
    <2> QED BY <2>2, <2>10, <2>12
  <1> QED BY <1>1, <1>2

\* So what all accounts are due is not more than what was bought for them.
LEMMA SharesAreCovered ==
    ASSUME PoolInv, SettledInv
    PROVE  SumFunction([a \in Accounts |->
                    SharesTo(investmentsOf[a], units, profits, currentProfitId)])
               <= SumFunction([id \in 0 .. currentProfitId - 1 |-> profits[id + 1]])
  <1>1. PICK lists, cycles, u, pr, n :
            /\ lists = investmentsOf /\ cycles = tradingCycles /\ u = units
            /\ pr = profits /\ n = currentProfitId
    OBVIOUS
  <1>2. PICK m \in Nat : CountedIn(u, lists, m)
    <2>1. PICK m \in Nat : CountedTo(units, m)
      BY DEF PoolInv, UnitsInv, CountInv
    <2> QED BY <1>1, <2>1 DEF CountedTo, CountedIn, EarnedIn
  <1>3. lists \in [Accounts -> Seq(InvestmentType)] /\ ProfitData(cycles, u, pr, n)
    BY <1>1, SettledData DEF PoolInv, IInv, AccountTypeOK
  <1> DEFINE due(k) == [a \in Accounts |-> SharesTo(lists[a], u, pr, k)]
             q == [id \in Nat |-> pr[id + 1]]
             F == {k \in Nat : k <= n => /\ due(k) \in [Accounts -> Int]
                                         /\ SumFunction(due(k)) <= SumFrom(q, 0, k)}
  <1>4. n \in Nat /\ \A id \in 0 .. n - 1 : id \in Nat /\ id + 1 \in 1 .. n
    BY <1>3 DEF ProfitData
  <1>5. \A id \in 0 .. n - 1 : q[id] \in Nat
    BY <1>4, <1>3 DEF ProfitData
  <1>6. ASSUME NEW k \in 0 .. n PROVE due(k) \in [Accounts -> Int]
    <2>1. ASSUME NEW a \in Accounts PROVE SharesTo(lists[a], u, pr, k) \in Int
      <3>1. PICK invs \in Seq(InvestmentType) : invs = lists[a]
        BY <1>3
      <3>2. SharesTo(invs, u, pr, k) \in Int
        BY <1>3, SharesAddUp
      <3> QED BY <3>1, <3>2
    <2> QED BY <2>1
  <1>7. 0 \in F
    <2>1. ASSUME NEW a \in Accounts PROVE SharesTo(lists[a], u, pr, 0) = 0
      <3>1. PICK f : f = [id \in 0 .. 0 - 1 |-> ShareIn(lists[a], u, pr, id)]
        OBVIOUS
      <3>2. f = [id \in 0 .. 0 - 1 |-> f[id]]
        BY <3>1
      <3>3. SumFrom(f, 0, 0) = 0
        BY SumFromNone
      <3> QED BY <3>1, <3>2, <3>3 DEF SharesTo, SumFrom
    <2>2. SumFunction(due(0)) = 0
      <3>1. PICK f : f = due(0)
        OBVIOUS
      <3>2. DOMAIN f = Accounts /\ \A a \in Accounts : f[a] = 0
        BY <2>1, <3>1
      <3>3. SumFunction(f) = 0
        BY <3>2, AccountAssumption, SumOfZeros
      <3> QED BY <3>1, <3>3
    <2>3. SumFrom(q, 0, 0) = 0
      <3> HIDE DEF q
      <3> QED BY SumFromNone
    <2>4. due(0) \in [Accounts -> Int]
      BY <1>4, <1>6
    <2> QED BY <2>2, <2>3, <2>4
  <1>8. ASSUME NEW k \in Nat, k \in F PROVE k + 1 \in F
    <2> SUFFICES ASSUME k + 1 <= n
                 PROVE  /\ due(k + 1) \in [Accounts -> Int]
                        /\ SumFunction(due(k + 1)) <= SumFrom(q, 0, k + 1)
      OBVIOUS
    <2>1. /\ k \in 0 .. n /\ k + 1 \in 0 .. n /\ k \in 0 .. n - 1 /\ k <= n
          /\ (k + 1) - 1 = k
      BY <1>4
    <2>2. PICK before, after : before = due(k) /\ after = due(k + 1)
      OBVIOUS
    <2>3. /\ before \in [Accounts -> Int] /\ after \in [Accounts -> Int]
          /\ SumFunction(before) <= SumFrom(q, 0, k)
      BY <1>6, <1>8, <2>1, <2>2
    <2>4. PICK t \in Int : t = ValueAt(u.total, k)
      BY <1>3 DEF ProfitData
    <2>5. PICK e : e = [a \in Accounts |-> Earns(lists[a], k)]
      OBVIOUS
    <2>6. PICK s : s = [a \in Accounts |-> ShareIn(lists[a], u, pr, k)]
      OBVIOUS
    <2>7. e \in [Accounts -> Int]
      BY <1>3, <2>5, EarnsIsInt
    <2>8. t > 0 => t = SumFunction(e)
      <3>1. t = IF k <= m THEN SumFunction(e) ELSE 0
        BY <1>2, <2>4, <2>5 DEF CountedIn
      <3> QED BY <3>1
    <2>9. PICK p \in Nat : p = q[k]
      BY <1>5, <2>1
    <2>10. s = [a \in Accounts |-> IF t <= 0 THEN 0 ELSE (p * e[a]) \div t]
      <3>1. p = pr[k + 1]
        BY <2>9
      <3> QED BY <2>4, <2>5, <2>6, <3>1 DEF ShareIn
    <2>11. s \in [Accounts -> Int] /\ SumFunction(s) <= p
      BY <2>7, <2>8, <2>10, SharesOfOneCycle
    <2>12. ASSUME NEW a \in Accounts PROVE after[a] = before[a] + s[a]
      <3>1. PICK f : f = [id \in 0 .. k |-> ShareIn(lists[a], u, pr, id)]
        OBVIOUS
      <3>2. \A id \in 0 .. k : f[id] \in Int
        <4>1. PICK invs \in Seq(InvestmentType) : invs = lists[a]
          BY <1>3
        <4>2. \A id \in 0 .. k : id \in 0 .. n - 1
          BY <1>4, <2>1
        <4>3. \A id \in 0 .. n - 1 : ShareIn(invs, u, pr, id) \in Int
          BY <1>3, ShareIsInt
        <4> QED BY <3>1, <4>1, <4>2, <4>3
      <3>3. SumFrom(f, 0, k + 1) = SumFrom(f, 0, k) + f[k]
        <4>1. /\ 0 \in Nat /\ 0 <= k /\ f[k] \in Int
              /\ \A id \in 0 .. k - 1 : f[id] \in Int
          BY <3>2
        <4>2. f[k] \in Int => SumFrom(f, 0, k + 1) = SumFrom(f, 0, k) + f[k]
          BY <4>1, SumFromNext
        <4> QED BY <4>1, <4>2
      <3>4. SumFrom(f, 0, k + 1) = SharesTo(lists[a], u, pr, k + 1)
        <4>1. [id \in 0 .. (k + 1) - 1 |-> f[id]]
                  = [id \in 0 .. (k + 1) - 1 |-> ShareIn(lists[a], u, pr, id)]
          BY <2>1, <3>1
        <4> QED BY <4>1 DEF SumFrom, SharesTo
      <3>5. SumFrom(f, 0, k) = SharesTo(lists[a], u, pr, k)
        <4>1. [id \in 0 .. k - 1 |-> f[id]] = [id \in 0 .. k - 1 |-> ShareIn(lists[a], u, pr, id)]
          BY <3>1
        <4> QED BY <4>1 DEF SumFrom, SharesTo
      <3>6. f[k] = s[a]
        BY <2>6, <3>1
      <3> QED BY <2>2, <3>3, <3>4, <3>5, <3>6
    <2>13. SumFunction(after) = SumFunction(before) + SumFunction(s)
      <3>1. after = [a \in Accounts |-> before[a] + s[a]]
        BY <2>3, <2>12
      <3> QED BY <2>3, <2>11, <3>1, AccountSums
    <2>14. SumFrom(q, 0, k + 1) = SumFrom(q, 0, k) + p /\ SumFrom(q, 0, k) \in Int
      <3>1. /\ 0 \in Nat /\ 0 <= k /\ q[k] \in Int
            /\ \A id \in 0 .. k - 1 : q[id] \in Int
        <4>1. \A id \in 0 .. k - 1 : id \in 0 .. n - 1
          BY <1>4, <2>1
        <4>2. 0 <= k
          OBVIOUS
        <4> HIDE DEF q
        <4>3. \A id \in 0 .. n - 1 : q[id] \in Int
          BY <1>5
        <4> QED BY <2>1, <4>1, <4>2, <4>3
      <3> HIDE DEF q
      <3>2. /\ SumFrom(q, 0, k) \in Int
            /\ q[k] \in Int => SumFrom(q, 0, k + 1) = SumFrom(q, 0, k) + q[k]
        BY <3>1, SumFromNext
      <3> QED BY <2>9, <3>1, <3>2
    <2>15. SumFunction(before) \in Int /\ SumFunction(s) \in Int
      BY <2>3, <2>11, AccountAssumption, SumIsInt
    <2> HIDE DEF q, due
    <2>16. SumFunction(after) <= SumFrom(q, 0, k + 1)
      BY <2>3, <2>9, <2>11, <2>13, <2>14, <2>15
    <2> QED BY <2>2, <2>3, <2>16
  <1>9. n \in F
    <2> HIDE DEF F
    <2> QED BY <1>4, <1>7, <1>8, NatSetInduction
  <1>10. SumFrom(q, 0, n) = SumFunction([id \in 0 .. n - 1 |-> pr[id + 1]])
    <2>1. [id \in 0 .. n - 1 |-> q[id]] = [id \in 0 .. n - 1 |-> pr[id + 1]]
      BY <1>4
    <2> QED BY <2>1 DEF SumFrom
  <1>11. due(n) = [a \in Accounts |->
                     SharesTo(investmentsOf[a], units, profits, currentProfitId)]
    BY <1>1
  <1> QED BY <1>4, <1>9, <1>10, <1>1, <1>11

\* What the views answer an account, from its balance.
LEMMA TakeableIsDue ==
    ASSUME ProfitInv, NEW a \in Accounts
    PROVE  /\ Takeable(a) + accountProfitInfo[a].claimedProfit
                  = Balances[a] + SharesTo(investmentsOf[a], units, profits, currentProfitId)
           /\ Takeable(a) \in Int /\ Balances[a] \in Int
           /\ SharesTo(investmentsOf[a], units, profits, currentProfitId) \in Int
  <1>1. PICK c \in Nat : c = currentProfitId
    BY DEF ProfitInv, SettledInv, SettledInCalendar
  <1>2. ProfitData(tradingCycles, units, profits, c)
    BY <1>1, SettledData DEF ProfitInv
  <1>3. PICK info \in ProfitRecord : info = accountProfitInfo[a] /\ Reaches(info, investmentsOf[a], c)
    BY <1>1 DEF ProfitInv, InfosInv
  <1>4. PICK invs, cycles, u, pr, wpr :
            /\ invs = investmentsOf[a] /\ cycles = tradingCycles /\ u = units
            /\ pr = profits /\ wpr = profitsForWhitelist
    OBVIOUS
  <1>5. Ordered(invs)
    BY <1>4 DEF ProfitInv, PoolInv, PlainPool
  <1>6. PICK next : next = CalculateProfit(info, invs, cycles, u, pr, wpr, c)
    OBVIOUS
  <1>7. /\ next \in ProfitRecord
        /\ next.claimedProfit = info.claimedProfit
        /\ Balance(info, invs, u, pr) \in Int
        /\ next.profit + next.claimedProfit
               = Balance(info, invs, u, pr) + SharesTo(invs, u, pr, c)
        /\ SharesTo(invs, u, pr, c) \in Int
    <2>1. Reaches(info, invs, c) /\ ProfitData(cycles, u, pr, c)
      BY <1>2, <1>3, <1>4
    <2> QED BY <1>5, <1>6, <2>1, UpdateKeepsBalance
  <1>8. Takeable(a) = next.profit
    BY <1>1, <1>3, <1>4, <1>6 DEF Takeable, TakeableProfitInfo, UpdatedProfitInfo
  <1>9. Balances[a] = Balance(info, invs, u, pr)
    BY <1>3, <1>4 DEF Balances
  <1>10. next.profit \in Int
    BY <1>7 DEF ProfitRecord
  <1> QED BY <1>1, <1>3, <1>4, <1>7, <1>8, <1>9, <1>10

\* All accounts together have what they were due.
LEMMA AllIsDue ==
    ASSUME ProfitInv
    PROVE  SumFunction([a \in Accounts |-> Takeable(a) + accountProfitInfo[a].claimedProfit])
               = SumFunction([a \in Accounts |->
                     SharesTo(investmentsOf[a], units, profits, currentProfitId)])
  <1>1. PICK due : due = [a \in Accounts |->
                              SharesTo(investmentsOf[a], units, profits, currentProfitId)]
    OBVIOUS
  <1>2. PICK b : b = Balances
    OBVIOUS
  <1>3. due \in [Accounts -> Int] /\ b \in [Accounts -> Int]
    BY <1>1, <1>2, TakeableIsDue DEF Balances
  <1>4. PICK has : has = [a \in Accounts |-> Takeable(a) + accountProfitInfo[a].claimedProfit]
    OBVIOUS
  <1>5. has = [a \in Accounts |-> b[a] + due[a]]
    BY <1>1, <1>2, <1>4, TakeableIsDue
  <1>6. SumFunction(has) = SumFunction(b) + SumFunction(due)
    BY <1>3, <1>5, AccountSums
  <1>7. SumFunction(b) = 0
    BY <1>2 DEF ProfitInv, InfosInv
  <1>8. SumFunction(due) \in Int
    BY <1>3, AccountAssumption, SumIsInt
  <1> QED BY <1>1, <1>4, <1>6, <1>7, <1>8

\* In a pool whose accounts have all been in it before, what the accounts took
\* and can take is their share of every cycle that was settled, however often
\* and whenever they are updated, take their profit, pay it to each other or
\* change their investments (_calculateProfit, _updateProfit and
\* PrecogProfit.takeProfit).
THEOREM ProfitMatchesShares_Safe ==
    ASSUME Aligned PROVE ReturningProfitSpec => []ProfitMatchesShares
  <1>1. ProfitInv => ProfitMatchesShares
    <2> SUFFICES ASSUME ProfitInv PROVE ProfitMatchesShares
      OBVIOUS
    <2>1. PICK c \in Nat : c = currentProfitId /\ c <= Len(tradingCycles) - 1
      BY DEF ProfitInv, SettledInv, SettledInCalendar
    <2>2. ASSUME NEW id \in 0 .. c - 1 PROVE tradingCycles[id + 1] = RowCycle(id)
      <3>1. Len(tradingCycles) \in Nat
        BY DEF ProfitInv, PoolInv, IInv, AccountTypeOK
      <3>2. id + 1 \in 1 .. Len(tradingCycles) /\ (id + 1) - 1 = id
        BY <2>1, <3>1
      <3> QED BY <3>2 DEF ProfitInv, PoolInv, UnitsInv, StoredRow
    <2>3. ASSUME NEW a \in Accounts
          PROVE  SharesTo(investmentsOf[a], units, profits, currentProfitId)
                     = SumFunction([id \in 0 .. currentProfitId - 1 |-> ShareOfCycle(a, id)])
      <3>1. [id \in 0 .. c - 1 |-> ShareIn(investmentsOf[a], units, profits, id)]
                = [id \in 0 .. c - 1 |-> ShareOfCycle(a, id)]
        BY <2>2 DEF ShareIn, ShareOfCycle, Earns
      <3> QED BY <2>1, <3>1 DEF SharesTo
    <2>4. [a \in Accounts |-> SharesTo(investmentsOf[a], units, profits, currentProfitId)]
              = [a \in Accounts |->
                    SumFunction([id \in 0 .. currentProfitId - 1 |-> ShareOfCycle(a, id)])]
      BY <2>3
    <2> QED BY <2>4, AllIsDue DEF ProfitMatchesShares
  <1> QED BY <1>1, ProfitInvIsInvariant, PTL

\* In such a pool PrecogProfit always holds the PCOG for what all accounts
\* can take: the shares of a cycle are rounded down and its total units are
\* those of its accounts (PrecogProfit.sendProfit and takeProfit).
THEOREM ProfitIsCovered_Safe ==
    ASSUME Aligned PROVE ReturningProfitSpec => []ProfitIsCovered
  <1>1. ProfitInv => ProfitIsCovered
    <2> SUFFICES ASSUME ProfitInv PROVE ProfitIsCovered
      OBVIOUS
    <2>1. PICK c \in Nat : c = currentProfitId
      BY DEF ProfitInv, SettledInv, SettledInCalendar
    <2>2. PICK take, claimed :
              /\ take = [a \in Accounts |-> Takeable(a)] /\ claimed = Claimed
      OBVIOUS
    <2>3. take \in [Accounts -> Int] /\ claimed \in [Accounts -> Int]
      <3>1. claimed \in [Accounts -> Int]
        BY <2>2 DEF ProfitInv, InfosInv, Claimed, ProfitRecord
      <3> QED BY <2>2, <3>1, TakeableIsDue
    <2>4. SumFunction(take) + SumFunction(claimed)
              = SumFunction([a \in Accounts |->
                    SharesTo(investmentsOf[a], units, profits, currentProfitId)])
      <3>1. PICK has : has = [a \in Accounts |->
                                  Takeable(a) + accountProfitInfo[a].claimedProfit]
        OBVIOUS
      <3>2. has = [a \in Accounts |-> take[a] + claimed[a]]
        BY <2>2, <3>1 DEF Claimed
      <3>3. SumFunction(has) = SumFunction(take) + SumFunction(claimed)
        BY <2>3, <3>2, AccountSums
      <3> QED BY <3>1, <3>3, AllIsDue
    <2>5. SumFunction([a \in Accounts |->
                    SharesTo(investmentsOf[a], units, profits, currentProfitId)])
              <= SumFunction([id \in 0 .. currentProfitId - 1 |-> profits[id + 1]])
      BY SharesAreCovered DEF ProfitInv
    <2>6. /\ SumFunction([id \in 0 .. currentProfitId - 1 |-> profits[id + 1]])
                 <= pcog + SumFunction(claimed)
          /\ pcog \in Int
          /\ SumFunction([id \in 0 .. currentProfitId - 1 |-> profits[id + 1]]) \in Int
      BY <2>2, BoughtIsInt DEF ProfitInv, PcogInv
    <2>7. SumFunction(take) \in Int /\ SumFunction(claimed) \in Int
      BY <2>3, AccountAssumption, SumIsInt
    <2>8. SumFunction(take) <= pcog
      BY <2>4, <2>5, <2>6, <2>7
    <2> QED BY <2>2, <2>8 DEF ProfitIsCovered
  <1> QED BY <1>1, ProfitInvIsInvariant, PTL

\* In such a pool nothing changes the units by which the profit of a settled
\* cycle is shared, neither the total nor those of an account: not a deposit,
\* a request, a forced withdrawal or a late update of the calendar
\* (_increaseInvestment, _decreaseInvestment, _updateTotalUnitsForFirstTime).
THEOREM SettledUnitsAreFinal_Safe ==
    ASSUME Aligned PROVE ReturningProfitSpec => SettledUnitsAreFinal
  <1> DEFINE Final == \A id \in 0 .. currentProfitId - 1 :
                 /\ ValueAt(units'.total, id) = ValueAt(units.total, id)
                 /\ \A a \in Accounts :
                        UnitInCycle(investmentsOf'[a], tradingCycles[id + 1])
                            = UnitInCycle(investmentsOf[a], tradingCycles[id + 1])
  <1>1. ProfitInv /\ [ProfitNext]_profitVarsAll => [Final]_profitVarsAll
    <2> SUFFICES ASSUME ProfitInv, [ProfitNext]_profitVarsAll PROVE Final
      OBVIOUS
    <2>1. PoolInv /\ SettledInCalendar /\ accountProfitInfo \in [Accounts -> ProfitRecord]
      BY DEF ProfitInv, SettledInv, InfosInv
    <2>2. PoolInv' /\ ListsStep /\ CalendarStays
      BY <2>1, StepKeepsPool
    <2>3. \A id \in 0 .. currentProfitId - 1 :
              /\ ValueAt(units'.total, id) = ValueAt(units.total, id)
              /\ \A a \in Accounts : Earns(investmentsOf'[a], id) = Earns(investmentsOf[a], id)
      BY <2>1, <2>2, SettledStays
    <2>4. \A id \in 0 .. currentProfitId - 1 : tradingCycles[id + 1] = RowCycle(id)
      <3> TAKE id \in 0 .. currentProfitId - 1
      <3>1. Len(tradingCycles) \in Nat
        BY <2>1 DEF PoolInv, IInv, AccountTypeOK
      <3>2. id + 1 \in 1 .. Len(tradingCycles) /\ (id + 1) - 1 = id
        BY <2>1, <3>1 DEF SettledInCalendar
      <3> QED BY <2>1, <3>2 DEF PoolInv, UnitsInv, StoredRow
    <2> QED BY <2>3, <2>4 DEF Earns
  <1>2. ProfitInv /\ [ProfitNext]_profitVarsAll => ProfitInv'
    BY StepKeepsProfits
  <1> QED BY <1>1, <1>2, InitProfits, PTL DEF ReturningProfitSpec, SettledUnitsAreFinal
=============================================================================
