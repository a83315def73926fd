---------------------------- MODULE SumTheorems ----------------------------
(***************************************************************************)
(* Facts about SumFunction, the sum of the values of a function with a     *)
(* finite domain, by which balances of accounts are added up.  The         *)
(* induction principles of the library take the formula to prove as an     *)
(* operator; here they are stated for the set of the arguments that        *)
(* satisfy it, which is all that the proofs need.                          *)
(***************************************************************************)
EXTENDS Functions, FiniteSetTheorems, WellFoundedInduction, TLAPS

----------------------------------------------------------------------------
\* Induction.

\* A set that holds 0 and the successor of what it holds has all of Nat.
LEMMA NatSetInduction ==
    ASSUME NEW F, 0 \in F, \A n \in Nat : n \in F => n + 1 \in F
    PROVE  Nat \subseteq F
  <1> DEFINE T == Nat \ F
  <1>1. SUFFICES ASSUME T # {} PROVE FALSE
    OBVIOUS
  <1>2. PICK n \in T : \A m \in T : ~ (<<m, n>> \in OpToRel(<, Nat))
    <2> HIDE DEF T
    <2>1. T \subseteq Nat
      BY DEF T
    <2> QED BY <1>1, <2>1, WFMin, NatLessThanWellFounded
  <1>3. n \in Nat /\ n # 0 /\ n - 1 \in Nat
    OBVIOUS
  <1>4. <<n - 1, n>> \in OpToRel(<, Nat)
    BY <1>3 DEF OpToRel
  <1>5. n - 1 \in F
    BY <1>2, <1>3, <1>4
  <1>6. n - 1 + 1 = n
    BY <1>3
  <1> QED BY <1>3, <1>5, <1>6

\* Of the subsets of a finite set a family that holds each one whose smaller
\* subsets it holds has them all.
LEMMA SubsetInduction ==
    ASSUME NEW D, IsFiniteSet(D), NEW F,
           \A s \in SUBSET D : (\A r \in SUBSET s : r # s => r \in F) => s \in F
    PROVE  SUBSET D \subseteq F
  <1> DEFINE T == (SUBSET D) \ F
  <1>1. SUFFICES ASSUME T # {} PROVE FALSE
    OBVIOUS
  <1>2. IsWellFoundedOn(StrictSubsetOrdering(D), SUBSET D)
    BY FS_StrictSubsetOrderingWellFounded, FS_FiniteSubsetsOfFinite
  <1>3. PICK s \in T : \A r \in T : ~ (<<r, s>> \in StrictSubsetOrdering(D))
    <2> HIDE DEF T
    <2>1. T \subseteq SUBSET D
      BY DEF T
    <2> QED BY <1>1, <1>2, <2>1, WFMin
  <1>4. ASSUME NEW r \in SUBSET s, r # s
        PROVE  r \in F
    BY <1>3, <1>4 DEF StrictSubsetOrdering
  <1> QED BY <1>3, <1>4

----------------------------------------------------------------------------
\* The recursion of SumFunction.

Chosen(s) == CHOOSE x \in s : TRUE

SumStep(f, g, s) == IF s = {} THEN 0 ELSE f[Chosen(s)] + g[s \ {Chosen(s)}]

\* A chosen element is one, and without it a set is smaller.
LEMMA ChosenIsElement ==
    ASSUME NEW s, s # {}
    PROVE  Chosen(s) \in s /\ s \ {Chosen(s)} \in SUBSET s /\ s \ {Chosen(s)} # s
  BY DEF Chosen

\* The function on sets by which a sum is defined exists.
LEMMA SumIsDefined ==
    ASSUME NEW f, IsFiniteSet(DOMAIN f)
    PROVE  \E g : g = [s \in SUBSET DOMAIN f |-> SumStep(f, g, s)]
  <1> DEFINE D == DOMAIN f
             Small(n) == {s \in SUBSET D : Cardinality(s) <= n}
             F == {n \in Nat : \E g : g = [s \in Small(n) |-> SumStep(f, g, s)]}
  <1>1. 0 \in F
    <2> DEFINE g == [s \in Small(0) |-> 0]
    <2>1. ASSUME NEW s \in Small(0) PROVE s = {}
      <3>1. IsFiniteSet(s) /\ Cardinality(s) \in Nat
        BY FS_Subset, FS_CardinalityType
      <3> QED BY <3>1, FS_EmptySet
    <2>2. g = [s \in Small(0) |-> SumStep(f, g, s)]
      BY <2>1 DEF SumStep
    <2> QED BY <2>2
  <1>2. ASSUME NEW n \in Nat, n \in F PROVE n + 1 \in F
    <2>1. PICK g : g = [s \in Small(n) |-> SumStep(f, g, s)]
      BY <1>2
    <2> DEFINE h == [s \in Small(n + 1) |-> SumStep(f, g, s)]
    <2>2. ASSUME NEW s \in Small(n + 1), s # {}
          PROVE  s \ {Chosen(s)} \in Small(n) /\ s \ {Chosen(s)} \in Small(n + 1)
      <3>1. IsFiniteSet(s) /\ Cardinality(s) \in Nat
        BY FS_Subset, FS_CardinalityType
      <3>2. /\ Cardinality(s \ {Chosen(s)}) = Cardinality(s) - 1
        BY <2>2, <3>1, ChosenIsElement, FS_RemoveElement
      <3> QED BY <3>1, <3>2
    <2>3. ASSUME NEW s \in Small(n) PROVE s \in Small(n + 1) /\ h[s] = g[s]
      <3>1. Cardinality(s) \in Nat
        BY FS_Subset, FS_CardinalityType
      <3>2. s \in Small(n + 1)
        BY <3>1
      <3> QED BY <2>1, <3>2
    <2>4. ASSUME NEW s \in Small(n + 1) PROVE SumStep(f, g, s) = SumStep(f, h, s)
      <3> HIDE DEF Small, h
      <3> QED BY <2>2, <2>3 DEF SumStep
    <2>5. h = [s \in Small(n + 1) |-> SumStep(f, h, s)]
      <3> HIDE DEF Small
      <3> QED BY <2>4
    <2> HIDE DEF Small, h
    <2> QED BY <2>5
  <1>3. Cardinality(D) \in F
    <2>1. Cardinality(D) \in Nat
      BY FS_CardinalityType
    <2> HIDE DEF F
    <2> QED BY <1>1, <1>2, <2>1, NatSetInduction
  <1>4. Small(Cardinality(D)) = SUBSET D
    BY FS_Subset
  <1> QED BY <1>3, <1>4

\* A sum is the value of such a function, a partial sum of it.
LEMMA PartialSums ==
    ASSUME NEW f, IsFiniteSet(DOMAIN f)
    PROVE  \E g : /\ g = [s \in SUBSET DOMAIN f |-> SumStep(f, g, s)]
                  /\ SumFunction(f) = g[DOMAIN f]
  <1> DEFINE D == DOMAIN f
             g == CHOOSE h : h = [s \in SUBSET D |-> SumStep(f, h, s)]
  <1>1. g = [s \in SUBSET D |-> SumStep(f, g, s)]
    BY SumIsDefined
  <1>2. SumFunction(f) = g[D]
    BY DEF SumFunction, SumFunctionOnSet, FoldFunctionOnSet, MapThenFoldSet, SumStep, Chosen
  <1> QED BY <1>1, <1>2

----------------------------------------------------------------------------
\* Sums.

\* A sum of integers is an integer.
LEMMA SumIsInt ==
    ASSUME NEW D, IsFiniteSet(D), NEW f \in [D -> Int]
    PROVE  SumFunction(f) \in Int
  <1>1. PICK g : /\ g = [s \in SUBSET D |-> SumStep(f, g, s)]
                 /\ SumFunction(f) = g[D]
    BY PartialSums
  <1> DEFINE F == {s \in SUBSET D : g[s] \in Int}
  <1>2. ASSUME NEW s \in SUBSET D, \A r \in SUBSET s : r # s => r \in F
        PROVE  s \in F
    <2>1. g[s] = SumStep(f, g, s)
      BY <1>1
    <2>2. CASE s = {}
      BY <2>1, <2>2 DEF SumStep
    <2>3. CASE s # {}
      <3>1. Chosen(s) \in D /\ s \ {Chosen(s)} \in F
        BY <1>2, <2>3, ChosenIsElement
      <3>2. g[s] = f[Chosen(s)] + g[s \ {Chosen(s)}]
        BY <2>1, <2>3 DEF SumStep
      <3> QED BY <3>1, <3>2
    <2> QED BY <2>2, <2>3
  <1>3. SUBSET D \subseteq F
    <2> HIDE DEF F
    <2> QED BY <1>2, SubsetInduction
  <1> QED BY <1>1, <1>3

\* A sum of natural numbers is one, and none of them exceeds it.
LEMMA SumIsNat ==
    ASSUME NEW D, IsFiniteSet(D), NEW f \in [D -> Nat]
    PROVE  /\ SumFunction(f) \in Nat
           /\ \A x \in D : f[x] <= SumFunction(f)
  <1>1. PICK g : /\ g = [s \in SUBSET D |-> SumStep(f, g, s)]
                 /\ SumFunction(f) = g[D]
    BY PartialSums
  <1> DEFINE F == {s \in SUBSET D : g[s] \in Nat /\ \A x \in s : f[x] <= g[s]}
  <1>2. ASSUME NEW s \in SUBSET D, \A r \in SUBSET s : r # s => r \in F
        PROVE  s \in F
    <2>1. g[s] = SumStep(f, g, s)
      BY <1>1
    <2>2. CASE s = {}
      BY <2>1, <2>2 DEF SumStep
    <2>3. CASE s # {}
      <3>1. Chosen(s) \in D /\ s \ {Chosen(s)} \in F
        BY <1>2, <2>3, ChosenIsElement
      <3>2. g[s] = f[Chosen(s)] + g[s \ {Chosen(s)}]
        BY <2>1, <2>3 DEF SumStep
      <3>3. f[Chosen(s)] \in Nat /\ g[s \ {Chosen(s)}] \in Nat
        BY <3>1
      <3>4. \A x \in s : f[x] <= g[s]
        <4> TAKE x \in s
        <4>1. f[x] \in Nat
          OBVIOUS
        <4>2. CASE x = Chosen(s)
          BY <3>2, <3>3, <4>2
        <4>3. CASE x # Chosen(s)
          <5>1. f[x] <= g[s \ {Chosen(s)}]
            BY <3>1, <4>3
          <5> QED BY <3>2, <3>3, <4>1, <5>1
        <4> QED BY <4>2, <4>3
      <3> QED BY <3>2, <3>3, <3>4
    <2> QED BY <2>2, <2>3
  <1>3. SUBSET D \subseteq F
    <2> HIDE DEF F
    <2> QED BY <1>2, SubsetInduction
  <1> QED BY <1>1, <1>3

\* Nothing adds up to nothing.
LEMMA SumOfZeros ==
    ASSUME NEW D, IsFiniteSet(D), NEW f, DOMAIN f = D, \A x \in D : f[x] = 0
    PROVE  SumFunction(f) = 0
  <1>1. PICK g : /\ g = [s \in SUBSET D |-> SumStep(f, g, s)]
                 /\ SumFunction(f) = g[D]
    BY PartialSums
  <1> DEFINE F == {s \in SUBSET D : g[s] = 0}
  <1>2. ASSUME NEW s \in SUBSET D, \A r \in SUBSET s : r # s => r \in F
        PROVE  s \in F
    <2>1. g[s] = SumStep(f, g, s)
      BY <1>1
    <2>2. s # {} => Chosen(s) \in D /\ s \ {Chosen(s)} \in F
      BY <1>2, ChosenIsElement
    <2> QED BY <2>1, <2>2 DEF SumStep
  <1>3. SUBSET D \subseteq F
    <2> HIDE DEF F
    <2> QED BY <1>2, SubsetInduction
  <1> QED BY <1>1, <1>3

\* A sum of multiples is a multiple of the sum.
LEMMA SumOfMultiples ==
    ASSUME NEW D, IsFiniteSet(D), NEW f \in [D -> Int], NEW q \in Int,
           NEW h, DOMAIN h = D, \A x \in D : h[x] = f[x] * q
    PROVE  SumFunction(h) = SumFunction(f) * q
  <1>1. PICK g : /\ g = [s \in SUBSET D |-> SumStep(f, g, s)]
                 /\ SumFunction(f) = g[D]
    BY PartialSums
  <1>2. PICK k : /\ k = [s \in SUBSET D |-> SumStep(h, k, s)]
                 /\ SumFunction(h) = k[D]
    BY PartialSums
  <1> DEFINE F == {s \in SUBSET D : g[s] \in Int /\ k[s] = g[s] * q}
  <1>3. ASSUME NEW s \in SUBSET D, \A r \in SUBSET s : r # s => r \in F
        PROVE  s \in F
    <2> DEFINE c == Chosen(s)
    <2>1. g[s] = SumStep(f, g, s) /\ k[s] = SumStep(h, k, s)
      BY <1>1, <1>2
    <2>2. CASE s = {}
      BY <2>1, <2>2 DEF SumStep
    <2>3. CASE s # {}
      <3>1. c \in D /\ s \ {c} \in F
        BY <1>3, <2>3, ChosenIsElement
      <3>2. g[s] = f[c] + g[s \ {c}] /\ k[s] = h[c] + k[s \ {c}]
        BY <2>1, <2>3 DEF SumStep
      <3> HIDE DEF c
      <3>3. f[c] \in Int /\ h[c] = f[c] * q /\ g[s \ {c}] \in Int /\ k[s \ {c}] = g[s \ {c}] * q
        BY <3>1
      <3>4. \A x, y \in Int : (x + y) * q = x * q + y * q
        OBVIOUS
      <3> HIDE DEF F
      <3>5. g[s] \in Int /\ k[s] = g[s] * q
        BY <3>2, <3>3, <3>4
      <3> QED BY <3>5 DEF F
    <2> QED BY <2>2, <2>3
  <1>4. SUBSET D \subseteq F
    <2> HIDE DEF F
    <2> QED BY <1>3, SubsetInduction
  <1> QED BY <1>1, <1>2, <1>4

\* When one value changes the sum changes by as much.
LEMMA SumOfChange ==
    ASSUME NEW D, IsFiniteSet(D), NEW f \in [D -> Int], NEW x \in D, NEW v \in Int
    PROVE  SumFunction([f EXCEPT ![x] = v]) = SumFunction(f) + (v - f[x])
  <1> DEFINE h == [f EXCEPT ![x] = v]
  <1>1. PICK g : /\ g = [s \in SUBSET D |-> SumStep(f, g, s)]
                 /\ SumFunction(f) = g[D]
    BY PartialSums
  <1>2. PICK k : /\ k = [s \in SUBSET D |-> SumStep(h, k, s)]
                 /\ SumFunction(h) = k[D]
    <2>1. DOMAIN h = D
      OBVIOUS
    <2> HIDE DEF h
    <2> QED BY <2>1, PartialSums
  <1> DEFINE F == {s \in SUBSET D : /\ g[s] \in Int
                                    /\ k[s] = g[s] + IF x \in s THEN v - f[x] ELSE 0}
  <1>3. ASSUME NEW s \in SUBSET D, \A r \in SUBSET s : r # s => r \in F
        PROVE  s \in F
    <2> DEFINE c == Chosen(s)
    <2>1. g[s] = SumStep(f, g, s) /\ k[s] = SumStep(h, k, s)
      <3> HIDE DEF h
      <3> QED BY <1>1, <1>2
    <2>2. CASE s = {}
      BY <2>1, <2>2 DEF SumStep
    <2>3. CASE s # {}
      <3>1. c \in s /\ c \in D /\ s \ {c} \in F
        BY <1>3, <2>3, ChosenIsElement
      <3>2. g[s] = f[c] + g[s \ {c}] /\ k[s] = h[c] + k[s \ {c}]
        BY <2>1, <2>3 DEF SumStep
      <3> HIDE DEF c
      <3>3. /\ f[c] \in Int /\ f[x] \in Int
            /\ h[c] = IF c = x THEN v ELSE f[c]
        BY <3>1
      <3>4. /\ g[s \ {c}] \in Int
            /\ k[s \ {c}] = g[s \ {c}] + IF x \in s \ {c} THEN v - f[x] ELSE 0
        BY <3>1
      <3> HIDE DEF h, F
      <3>5. g[s] \in Int
        BY <3>2, <3>3, <3>4
      <3>6. k[s] = g[s] + IF x \in s THEN v - f[x] ELSE 0
        <4>1. CASE c = x
          BY <3>1, <3>2, <3>3, <3>4, <4>1
        <4>2. CASE c # x
          BY <3>1, <3>2, <3>3, <3>4, <4>2
        <4> QED BY <4>1, <4>2
      <3> QED BY <3>5, <3>6 DEF F
    <2> QED BY <2>2, <2>3
  <1>4. SUBSET D \subseteq F
    <2> HIDE DEF F
    <2> QED BY <1>3, SubsetInduction
  <1> QED BY <1>1, <1>2, <1>4
----------------------------------------------------------------------------
\* Sums of two functions, and sums of parts.

\* The sum of the sums of two functions.
LEMMA SumOfSums ==
    ASSUME NEW D, IsFiniteSet(D), NEW f \in [D -> Int], NEW g \in [D -> Int],
           NEW h, DOMAIN h = D, \A x \in D : h[x] = f[x] + g[x]
    PROVE  SumFunction(h) = SumFunction(f) + SumFunction(g)
  <1>1. PICK p : /\ p = [s \in SUBSET D |-> SumStep(f, p, s)]
                 /\ SumFunction(f) = p[D]
    BY PartialSums
  <1>2. PICK q : /\ q = [s \in SUBSET D |-> SumStep(g, q, s)]
                 /\ SumFunction(g) = q[D]
    BY PartialSums
  <1>3. PICK k : /\ k = [s \in SUBSET D |-> SumStep(h, k, s)]
                 /\ SumFunction(h) = k[D]
    BY PartialSums
  <1> DEFINE F == {s \in SUBSET D : p[s] \in Int /\ q[s] \in Int /\ k[s] = p[s] + q[s]}
  <1>4. ASSUME NEW s \in SUBSET D, \A r \in SUBSET s : r # s => r \in F
        PROVE  s \in F
    <2> DEFINE c == Chosen(s)
    <2>1. p[s] = SumStep(f, p, s) /\ q[s] = SumStep(g, q, s) /\ k[s] = SumStep(h, k, s)
      BY <1>1, <1>2, <1>3
    <2>2. CASE s = {}
      BY <2>1, <2>2 DEF SumStep
    <2>3. CASE s # {}
      <3>1. c \in D /\ s \ {c} \in F
        BY <1>4, <2>3, ChosenIsElement
      <3>2. /\ p[s] = f[c] + p[s \ {c}] /\ q[s] = g[c] + q[s \ {c}]
            /\ k[s] = h[c] + k[s \ {c}]
        BY <2>1, <2>3 DEF SumStep
      <3> HIDE DEF c
      <3>3. /\ f[c] \in Int /\ g[c] \in Int /\ h[c] = f[c] + g[c]
            /\ p[s \ {c}] \in Int /\ q[s \ {c}] \in Int
            /\ k[s \ {c}] = p[s \ {c}] + q[s \ {c}]
        BY <3>1
      <3> HIDE DEF F
      <3>4. p[s] \in Int /\ q[s] \in Int /\ k[s] = p[s] + q[s]
        BY <3>2, <3>3
      <3> QED BY <3>4 DEF F
    <2> QED BY <2>2, <2>3
  <1>5. SUBSET D \subseteq F
    <2> HIDE DEF F
    <2> QED BY <1>4, SubsetInduction
  <1> QED BY <1>1, <1>2, <1>3, <1>5

\* Smaller values add up to a smaller sum.
LEMMA SumIsMonotone ==
    ASSUME NEW D, IsFiniteSet(D), NEW f \in [D -> Int], NEW g \in [D -> Int],
           \A x \in D : f[x] <= g[x]
    PROVE  SumFunction(f) <= SumFunction(g)
  <1>1. PICK p : /\ p = [s \in SUBSET D |-> SumStep(f, p, s)]
                 /\ SumFunction(f) = p[D]
    BY PartialSums
  <1>2. PICK q : /\ q = [s \in SUBSET D |-> SumStep(g, q, s)]
                 /\ SumFunction(g) = q[D]
    BY PartialSums
  <1> DEFINE F == {s \in SUBSET D : p[s] \in Int /\ q[s] \in Int /\ p[s] <= q[s]}
  <1>3. ASSUME NEW s \in SUBSET D, \A r \in SUBSET s : r # s => r \in F
        PROVE  s \in F
    <2> DEFINE c == Chosen(s)
    <2>1. p[s] = SumStep(f, p, s) /\ q[s] = SumStep(g, q, s)
      BY <1>1, <1>2
    <2>2. CASE s = {}
      BY <2>1, <2>2 DEF SumStep
    <2>3. CASE s # {}
      <3>1. c \in D /\ s \ {c} \in F
        BY <1>3, <2>3, ChosenIsElement
      <3>2. p[s] = f[c] + p[s \ {c}] /\ q[s] = g[c] + q[s \ {c}]
        BY <2>1, <2>3 DEF SumStep
      <3> HIDE DEF c
      <3>3. /\ f[c] \in Int /\ g[c] \in Int /\ f[c] <= g[c]
            /\ p[s \ {c}] \in Int /\ q[s \ {c}] \in Int
            /\ p[s \ {c}] <= q[s \ {c}]
        BY <3>1
      <3> HIDE DEF F
      <3>4. p[s] \in Int /\ q[s] \in Int /\ p[s] <= q[s]
        BY <3>2, <3>3
      <3> QED BY <3>4 DEF F
    <2> QED BY <2>2, <2>3
  <1>4. SUBSET D \subseteq F
    <2> HIDE DEF F
    <2> QED BY <1>3, SubsetInduction
  <1> QED BY <1>1, <1>2, <1>4

\* A function that has the partial sums of another one.
SumsUp(f, g) == \A s \in SUBSET DOMAIN f : g[s] = SumStep(f, g, s)

\* A sum does not depend on the element that is taken first.
LEMMA AnyElementFirst ==
    ASSUME NEW D, IsFiniteSet(D), NEW f \in [D -> Int], NEW g, SumsUp(f, g)
    PROVE  \A s \in SUBSET D : g[s] \in Int /\ \A y \in s : g[s] = f[y] + g[s \ {y}]
  <1> DEFINE F == {s \in SUBSET D : g[s] \in Int /\ \A y \in s : g[s] = f[y] + g[s \ {y}]}
  <1>1. ASSUME NEW s \in SUBSET D, \A r \in SUBSET s : r # s => r \in F
        PROVE  s \in F
    <2> DEFINE c == Chosen(s)
    <2>1. g[s] = SumStep(f, g, s)
      BY DEF SumsUp
    <2>2. CASE s = {}
      BY <2>1, <2>2 DEF SumStep
    <2>3. CASE s # {}
      <3>1. c \in s /\ c \in D /\ s \ {c} \in F
        BY <1>1, <2>3, ChosenIsElement
      <3>2. g[s] = f[c] + g[s \ {c}]
        BY <2>1, <2>3 DEF SumStep
      <3> HIDE DEF c
      <3>3. f[c] \in Int /\ g[s \ {c}] \in Int
        BY <3>1
      <3>4. ASSUME NEW y \in s PROVE g[s] = f[y] + g[s \ {y}]
        <4>1. CASE y = c
          BY <3>2, <4>1
        <4>2. CASE y # c
          <5> DEFINE r == s \ {c, y}
          <5>1. s \ {y} \in F /\ c \in s \ {y} /\ y \in s \ {c}
            BY <1>1, <3>1, <4>2
          <5>2. (s \ {c}) \ {y} = r /\ (s \ {y}) \ {c} = r
            OBVIOUS
          <5>3. r \in F
            <6>1. r \in SUBSET s /\ r # s
              OBVIOUS
            <6> HIDE DEF r
            <6> QED BY <1>1, <6>1
          <5> HIDE DEF r
          <5>4. g[s \ {c}] = f[y] + g[r] /\ g[s \ {y}] = f[c] + g[r]
            BY <3>1, <5>1, <5>2
          <5>5. f[y] \in Int /\ g[r] \in Int
            BY <5>3
          <5> QED BY <3>2, <3>3, <5>4, <5>5
        <4> QED BY <4>1, <4>2
      <3>5. g[s] \in Int
        BY <3>2, <3>3
      <3> QED BY <3>4, <3>5
    <2> QED BY <2>2, <2>3
  <1>2. SUBSET D \subseteq F
    <2> HIDE DEF F
    <2> QED BY <1>1, SubsetInduction
  <1> QED BY <1>2

\* The sum over a part of the domain is the partial sum of that part.
LEMMA SumOfPart ==
    ASSUME NEW f, NEW g, SumsUp(f, g), NEW R, IsFiniteSet(R), R \subseteq DOMAIN f,
           NEW h, DOMAIN h = R, \A x \in R : h[x] = f[x]
    PROVE  SumFunction(h) = g[R]
  <1>2. PICK k : /\ k = [s \in SUBSET R |-> SumStep(h, k, s)]
                 /\ SumFunction(h) = k[R]
    BY PartialSums
  <1> DEFINE F == {s \in SUBSET R : k[s] = g[s]}
  <1>3. ASSUME NEW s \in SUBSET R, \A r \in SUBSET s : r # s => r \in F
        PROVE  s \in F
    <2>1. k[s] = SumStep(h, k, s) /\ g[s] = SumStep(f, g, s)
      BY <1>2 DEF SumsUp
    <2>2. s # {} => Chosen(s) \in R /\ s \ {Chosen(s)} \in F
      BY <1>3, ChosenIsElement
    <2> QED BY <2>1, <2>2 DEF SumStep
  <1>4. SUBSET R \subseteq F
    <2> HIDE DEF F
    <2> QED BY <1>3, SubsetInduction
  <1> QED BY <1>2, <1>4

\* Any element can be left out and added at the end.
LEMMA SumWithout ==
    ASSUME NEW D, IsFiniteSet(D), NEW f \in [D -> Int], NEW x \in D,
           NEW h, DOMAIN h = D \ {x}, \A y \in D \ {x} : h[y] = f[y]
    PROVE  SumFunction(f) = SumFunction(h) + f[x]
  <1>1. PICK g : /\ g = [s \in SUBSET D |-> SumStep(f, g, s)]
                 /\ SumFunction(f) = g[D]
    BY PartialSums
  <1>2. SumsUp(f, g)
    BY <1>1 DEF SumsUp
  <1>3. g[D] = f[x] + g[D \ {x}] /\ g[D \ {x}] \in Int /\ f[x] \in Int
    BY <1>2, AnyElementFirst
  <1>4. SumFunction(h) = g[D \ {x}]
    <2>1. PICK R : R = D \ {x}
      OBVIOUS
    <2>2. /\ IsFiniteSet(R) /\ R \subseteq DOMAIN f /\ DOMAIN h = R
          /\ \A y \in R : h[y] = f[y]
      BY <2>1, FS_Subset
    <2>3. SumFunction(h) = g[R]
      BY <1>2, <2>2, SumOfPart
    <2> QED BY <2>1, <2>3
  <1> QED BY <1>1, <1>3, <1>4

----------------------------------------------------------------------------
\* Sums over intervals of numbers.

\* The sum of e over the numbers from a on that are below b.
SumFrom(e, a, b) == SumFunction([i \in a .. b - 1 |-> e[i]])

\* It is a number, and the next number adds its value.
LEMMA SumFromNext ==
    ASSUME NEW e, NEW a \in Nat, NEW b \in Nat, a <= b,
           \A i \in a .. b - 1 : e[i] \in Int
    PROVE  /\ SumFrom(e, a, b) \in Int
           /\ e[b] \in Int => SumFrom(e, a, b + 1) = SumFrom(e, a, b) + e[b]
  <1> DEFINE all == a .. b
             below == a .. b - 1
             u == [i \in all |-> e[i]]
             v == [i \in below |-> e[i]]
  <1>1. IsFiniteSet(below) /\ IsFiniteSet(all)
    <2>1. a \in Int /\ b \in Int /\ b - 1 \in Int
      OBVIOUS
    <2> QED BY <2>1, FS_Interval
  <1>2. v \in [below -> Int] /\ SumFrom(e, a, b) = SumFunction(v)
    BY DEF SumFrom
  <1>3. SumFrom(e, a, b) \in Int
    <2> HIDE DEF v, below
    <2> QED BY <1>1, <1>2, SumIsInt
  <1>4. ASSUME e[b] \in Int PROVE SumFrom(e, a, b + 1) = SumFrom(e, a, b) + e[b]
    <2>1. b + 1 - 1 = b
      OBVIOUS
    <2>2. SumFrom(e, a, b + 1) = SumFunction(u)
      BY <2>1 DEF SumFrom
    <2>3. u \in [all -> Int]
      <3>1. \A i \in all : i = b \/ i \in below
        OBVIOUS
      <3> QED BY <1>4, <3>1
    <2>4. /\ b \in all /\ u[b] = e[b] /\ all \ {b} = below /\ below \in SUBSET all
          /\ DOMAIN u = all /\ DOMAIN v = below /\ \A i \in below : v[i] = u[i]
      OBVIOUS
    <2> HIDE DEF u, v, all, below
    <2>5. SumFunction(u) = SumFunction(v) + u[b]
      <3>1. PICK n, y, p, q : n = all /\ y = b /\ p = u /\ q = v
        OBVIOUS
      <3>2. /\ IsFiniteSet(n) /\ p \in [n -> Int] /\ y \in n
            /\ DOMAIN q = n \ {y} /\ \A i \in n \ {y} : q[i] = p[i]
        BY <1>1, <2>3, <2>4, <3>1
      <3>3. SumFunction(p) = SumFunction(q) + p[y]
        BY <3>2, SumWithout, Z3
      <3> QED BY <3>1, <3>3
    <2> QED BY <1>2, <2>2, <2>4, <2>5
  <1> QED BY <1>3, <1>4

\* Nothing is below where it starts.
LEMMA SumFromNone ==
    ASSUME NEW e, NEW a \in Nat
    PROVE  SumFrom(e, a, a) = 0
  <1> DEFINE D == a .. a - 1
             f == [i \in D |-> e[i]]
  <1>1. D = {}
    OBVIOUS
  <1>2. IsFiniteSet(D) /\ DOMAIN f = D /\ \A i \in D : f[i] = 0
    BY <1>1, FS_EmptySet
  <1> HIDE DEF D, f
  <1>3. SumFunction(f) = 0
    BY <1>2, SumOfZeros
  <1> QED BY <1>3 DEF SumFrom, f, D

\* The sum up to a number and the sum from there on.
LEMMA SumFromSplits ==
    ASSUME NEW e, NEW a \in Nat, NEW b \in Nat, NEW c \in Nat, a <= b, b <= c,
           \A i \in a .. c - 1 : e[i] \in Int
    PROVE  SumFrom(e, a, c) = SumFrom(e, a, b) + SumFrom(e, b, c)
  <1> DEFINE F == {n \in Nat : b + n <= c =>
                      /\ SumFrom(e, a, b + n) = SumFrom(e, a, b) + SumFrom(e, b, b + n)
                      /\ SumFrom(e, a, b) \in Int /\ SumFrom(e, b, b + n) \in Int}
  <1>1. 0 \in F
    <2>1. b + 0 = b /\ SumFrom(e, b, b) = 0
      BY SumFromNone
    <2>2. SumFrom(e, a, b) \in Int
      <3>1. \A i \in a .. b - 1 : e[i] \in Int
        OBVIOUS
      <3> QED BY <3>1, SumFromNext
    <2> QED BY <2>1, <2>2
  <1>2. ASSUME NEW n \in Nat, n \in F PROVE n + 1 \in F
    <2> SUFFICES ASSUME b + (n + 1) <= c
                 PROVE  /\ SumFrom(e, a, b + (n + 1))
                               = SumFrom(e, a, b) + SumFrom(e, b, b + (n + 1))
                        /\ SumFrom(e, a, b) \in Int /\ SumFrom(e, b, b + (n + 1)) \in Int
      OBVIOUS
    <2> DEFINE k == b + n
    <2>1. /\ k \in Nat /\ b + (n + 1) = k + 1 /\ a <= k /\ b <= k /\ k <= c /\ e[k] \in Int
          /\ \A i \in a .. k - 1 : e[i] \in Int
          /\ \A i \in b .. k - 1 : e[i] \in Int
      OBVIOUS
    <2>2. /\ SumFrom(e, a, k) = SumFrom(e, a, b) + SumFrom(e, b, k)
          /\ SumFrom(e, a, b) \in Int /\ SumFrom(e, b, k) \in Int
      BY <1>2, <2>1
    <2> HIDE DEF k
    <2>3. SumFrom(e, a, k + 1) = SumFrom(e, a, k) + e[k]
      BY <2>1, SumFromNext
    <2>4. SumFrom(e, b, k + 1) = SumFrom(e, b, k) + e[k]
      BY <2>1, SumFromNext
    <2>5. /\ SumFrom(e, a, k + 1) = SumFrom(e, a, b) + SumFrom(e, b, k + 1)
          /\ SumFrom(e, b, k + 1) \in Int
      BY <2>1, <2>2, <2>3, <2>4
    <2> QED BY <2>1, <2>2, <2>5
  <1>3. c - b \in F
    <2>1. c - b \in Nat
      OBVIOUS
    <2> HIDE DEF F
    <2> QED BY <1>1, <1>2, <2>1, NatSetInduction
  <1>4. b + (c - b) = c
    OBVIOUS
  <1> QED BY <1>3, <1>4

\* Equal values have equal sums.
LEMMA SumFromSame ==
    ASSUME NEW e, NEW f, NEW a, NEW b, \A i \in a .. b - 1 : e[i] = f[i]
    PROVE  SumFrom(e, a, b) = SumFrom(f, a, b)
  BY DEF SumFrom
=============================================================================
