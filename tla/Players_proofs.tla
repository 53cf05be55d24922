---------------------------- MODULE Players_proofs ----------------------------
(***************************************************************************)
(* Proofs about Players, Status, Battle and Fights for every character and  *)
(* any number of fighters: the points of a character agree with its level,  *)
(* the last calculation knew everything, and the death of a mob is paid to  *)
(* those who killed it.                                                     *)
(***************************************************************************)
EXTENDS Fights, FiniteSetTheorems, WellFoundedInduction, TLAPS

(***************************************************************************)
(* Induction over a set of numbers.                                        *)
(***************************************************************************)

\* A set of numbers with 0 and with the successor of each of its elements has
\* them all.
LEMMA Induction ==
    ASSUME NEW S, 0 \in S, \A n \in Nat : n \in S => n + 1 \in S
    PROVE  Nat \subseteq S
<1> DEFINE Below == OpToRel(<, Nat)
           Rest == Nat \ S
<1>1. SUFFICES ASSUME Rest # {} PROVE FALSE
      OBVIOUS
<1>2. PICK x \in Rest : \A y \in Rest : << y, x >> \notin Below
  <2> HIDE DEF Below, Rest
  <2>1. IsWellFoundedOn(Below, Nat)
        BY NatLessThanWellFounded, Zenon DEF Below
  <2>2. Rest \subseteq Nat
        BY DEF Rest
  <2> QED BY <1>1, <2>1, <2>2, WFMin
<1>3. x \in Nat /\ x # 0 /\ x - 1 \in Nat
      OBVIOUS
<1>4. << x - 1, x >> \in Below
      BY <1>3 DEF OpToRel
<1>5. x - 1 \notin Rest
  <2> HIDE DEF Below, Rest
  <2> QED BY <1>2, <1>4
<1>6. x - 1 \in S
      BY <1>3, <1>5
<1>7. (x - 1) + 1 = x
      BY <1>3
<1> QED BY <1>3, <1>6, <1>7

-----------------------------------------------------------------------------
(* The table of status points. *)

\* What a level brings is the difference to the level before.
LEMMA StatPoints ==
    /\ Len(stat_p) = 255
    /\ stat_p[1] = 48
    /\ \A n \in 1 .. 255 : stat_p[n] \in Nat
    /\ \A n \in 1 .. 254 : stat_p[n + 1] = stat_p[n] + (n + 15) \div 4
BY DEF stat_p

\* What the levels between two bring together is the difference of what the table
\* says of them, for the halves of OfLevels, too.
LEMMA PointsOfLevelsAgree ==
    ASSUME NEW from \in 1 .. 255, NEW to \in 1 .. 255, from <= to
    PROVE  PointsOfLevels(from, to) = stat_p[to] - stat_p[from]
<1> DEFINE Pairs == (from .. to) \X (from .. to)
           F(g) == [i \in Pairs |->
                      LET mid == (i[1] + i[2]) \div 2
                      IN  IF i[1] = i[2] THEN 0
                          ELSE IF i[1] + 1 = i[2] THEN (i[2] + 14) \div 4
                          ELSE g[<< i[1], mid >>] + g[<< mid, i[2] >>]]
           w == [i \in Pairs |-> IF i[1] >= i[2] THEN 0 ELSE stat_p[i[2]] - stat_p[i[1]]]
           sum == CHOOSE g : g = F(g)
<1>1. \A n \in from .. to : stat_p[n] \in Nat
      BY StatPoints
<1>2. ASSUME NEW lo \in from .. to, NEW hi \in from .. to, lo + 1 = hi
      PROVE  stat_p[hi] - stat_p[lo] = (hi + 14) \div 4
  <2>1. lo \in 1 .. 254 /\ hi + 14 = lo + 15
        BY <1>2
  <2>2. stat_p[hi] = stat_p[lo] + (hi + 14) \div 4
    <3>1. stat_p[lo + 1] = stat_p[lo] + (lo + 15) \div 4
          BY <2>1, StatPoints
    <3> QED BY <3>1, <2>1, <1>2
  <2>3. stat_p[lo] \in Int /\ (hi + 14) \div 4 \in Int
        BY <1>1
  <2> QED BY <2>2, <2>3
<1>3. ASSUME NEW lo \in from .. to, NEW hi \in from .. to
      PROVE  w[<< lo, hi >>] = F(w)[<< lo, hi >>]
  <2>1. CASE lo = hi
        BY <2>1
  <2>2. CASE lo # hi /\ lo + 1 = hi
    <3>1. stat_p[hi] - stat_p[lo] = (hi + 14) \div 4
          BY <2>2, <1>2
    <3>2. F(w)[<< lo, hi >>] = (hi + 14) \div 4
          BY <2>2
    <3>3. w[<< lo, hi >>] = stat_p[hi] - stat_p[lo]
          BY <2>2
    <3> QED BY <3>1, <3>2, <3>3
  <2>3. CASE lo # hi /\ lo + 1 # hi
    <3> DEFINE mid == (lo + hi) \div 2
    <3>1. mid \in from .. to
          OBVIOUS
    <3>2. F(w)[<< lo, hi >>] = w[<< lo, mid >>] + w[<< mid, hi >>]
          BY <2>3, <3>1
    <3>3. CASE lo < hi
      <4>1. lo < mid /\ mid < hi
            BY <3>3, <2>3
      <4> HIDE DEF mid
      <4>2. /\ w[<< lo, mid >>] = stat_p[mid] - stat_p[lo]
            /\ w[<< mid, hi >>] = stat_p[hi] - stat_p[mid]
            /\ w[<< lo, hi >>] = stat_p[hi] - stat_p[lo]
        <5>1. ~(lo >= mid) /\ ~(mid >= hi) /\ ~(lo >= hi)
              BY <3>1, <3>3, <4>1
        <5> QED BY <3>1, <5>1
      <4>3. stat_p[lo] \in Nat /\ stat_p[mid] \in Nat /\ stat_p[hi] \in Nat
            BY <3>1, <1>1
      <4> HIDE DEF w, F
      <4> QED BY <3>2, <4>2, <4>3
    <3>4. CASE lo > hi
      <4>1. lo >= mid /\ mid >= hi /\ lo >= hi
            BY <3>4
      <4> HIDE DEF mid
      <4>2. w[<< lo, mid >>] = 0 /\ w[<< mid, hi >>] = 0 /\ w[<< lo, hi >>] = 0
            BY <3>1, <4>1
      <4> HIDE DEF w, F
      <4> QED BY <3>2, <4>2
    <3> QED BY <3>3, <3>4, <2>3
  <2> QED BY <2>1, <2>2, <2>3
<1>4. w = F(w)
  <2>1. ASSUME NEW i \in Pairs PROVE w[i] = F(w)[i]
    <3>1. PICK lo \in from .. to, hi \in from .. to : i = << lo, hi >>
          OBVIOUS
    <3> HIDE DEF w, F
    <3> QED BY <3>1, <1>3
  <2>2. w = [i \in Pairs |-> w[i]] /\ F(w) = [i \in Pairs |-> F(w)[i]]
        OBVIOUS
  <2> HIDE DEF w, F
  <2> QED BY <2>1, <2>2
<1>5. sum = F(sum)
  <2> HIDE DEF w, F
  <2> QED BY <1>4
<1> DEFINE S == {d \in Nat : \A lo, hi \in from .. to :
                                hi - lo \in 0 .. d => sum[<< lo, hi >>] = stat_p[hi] - stat_p[lo]}
<1>6. \A lo, hi \in from .. to :
         LET mid == (lo + hi) \div 2
         IN  sum[<< lo, hi >>] = IF lo = hi THEN 0
                                 ELSE IF lo + 1 = hi THEN (hi + 14) \div 4
                                 ELSE sum[<< lo, mid >>] + sum[<< mid, hi >>]
  <2> TAKE lo, hi \in from .. to
  <2>1. << lo, hi >> \in Pairs
        OBVIOUS
  <2>2. sum[<< lo, hi >>] = F(sum)[<< lo, hi >>]
    <3> HIDE DEF F, sum
    <3> QED BY <1>5
  <2> HIDE DEF sum
  <2> QED BY <2>1, <2>2
<1> HIDE DEF sum
<1>7. 0 \in S
      BY <1>6, <1>1
<1>8. ASSUME NEW d \in Nat, d \in S PROVE d + 1 \in S
  <2> SUFFICES ASSUME NEW lo \in from .. to, NEW hi \in from .. to, hi - lo = d + 1
               PROVE  sum[<< lo, hi >>] = stat_p[hi] - stat_p[lo]
        BY <1>8
  <2>1. CASE d = 0
    <3>1. lo # hi /\ lo + 1 = hi
          BY <2>1
    <3>2. sum[<< lo, hi >>] = (hi + 14) \div 4
          BY <3>1, <1>6
    <3> QED BY <3>1, <3>2, <1>2
  <2>2. CASE d # 0
    <3> DEFINE mid == (lo + hi) \div 2
    <3>1. mid \in from .. to /\ mid - lo \in 0 .. d /\ hi - mid \in 0 .. d
          BY <2>2
    <3>2. sum[<< lo, hi >>] = sum[<< lo, mid >>] + sum[<< mid, hi >>]
          BY <2>2, <1>6
    <3> HIDE DEF mid
    <3>3. sum[<< lo, mid >>] = stat_p[mid] - stat_p[lo] /\ sum[<< mid, hi >>] = stat_p[hi] - stat_p[mid]
          BY <1>8, <3>1
    <3> QED BY <3>1, <3>2, <3>3, <1>1
  <2> QED BY <2>1, <2>2
<1>9. to - from \in S
  <2>1. to - from \in Nat
        OBVIOUS
  <2> HIDE DEF S
  <2> QED BY <2>1, <1>7, <1>8, Induction
<1>10. sum[<< from, to >>] = stat_p[to] - stat_p[from]
  <2>1. from \in from .. to /\ to \in from .. to /\ to - from \in 0 .. to - from
        OBVIOUS
  <2> QED BY <1>9, <2>1
<1> QED BY <1>10 DEF PointsOfLevels, OfLevels, sum

-----------------------------------------------------------------------------
(* The costs of parameters. *)

\* The recursive definition of Cost is one: there is such a function.
LEMMA CostDef ==
    Cost = [val \in 1 .. MaxParameter |->
              IF val = 1 THEN 0 ELSE Cost[val - 1] + NeedStatusPoint(val - 1)]
<1> DEFINE F(g, m) == [val \in 1 .. m |->
                         IF val = 1 THEN 0 ELSE g[val - 1] + NeedStatusPoint(val - 1)]
           S == {m \in Nat : \E g : g = F(g, m)}
<1>1. 0 \in S
  <2>1. [val \in 1 .. 0 |-> 0] = F([val \in 1 .. 0 |-> 0], 0)
        OBVIOUS
  <2> QED BY <2>1
<1>2. ASSUME NEW m \in Nat, m \in S PROVE m + 1 \in S
  <2>1. PICK g : g = F(g, m)
        BY <1>2
  <2> DEFINE h == [val \in 1 .. m + 1 |->
                     IF val = 1 THEN 0 ELSE g[val - 1] + NeedStatusPoint(val - 1)]
  <2>2. \A val \in 1 .. m : h[val] = g[val]
        BY <2>1
  <2>3. h = F(h, m + 1)
    <3>1. \A val \in 1 .. m + 1 : val # 1 => val - 1 \in 1 .. m
          OBVIOUS
    <3> QED BY <2>2, <3>1
  <2> HIDE DEF h
  <2> QED BY <2>3
<1>3. MaxParameter \in S
  <2> HIDE DEF S
  <2> QED BY <1>1, <1>2, Induction, PlayersAssumption
<1>4. PICK g : g = F(g, MaxParameter)
      BY <1>3
<1> QED BY <1>4 DEF Cost

LEMMA CostNext ==
    /\ Cost[1] = 0
    /\ \A val \in 1 .. MaxParameter - 1 : Cost[val + 1] = Cost[val] + NeedStatusPoint(val)
<1>1. Cost[1] = 0
      BY CostDef, PlayersAssumption
<1>2. ASSUME NEW val \in 1 .. MaxParameter - 1
      PROVE  Cost[val + 1] = Cost[val] + NeedStatusPoint(val)
  <2>1. val + 1 \in 1 .. MaxParameter /\ val + 1 # 1 /\ (val + 1) - 1 = val
        BY PlayersAssumption
  <2> QED BY CostDef, <2>1
<1> QED BY <1>1, <1>2

LEMMA CostType == \A val \in 1 .. MaxParameter : Cost[val] \in Nat
<1> DEFINE S == {n \in Nat : n + 1 \in 1 .. MaxParameter => Cost[n + 1] \in Nat}
<1>1. 0 \in S
      BY CostNext
<1>2. ASSUME NEW n \in Nat, n \in S PROVE n + 1 \in S
  <2> SUFFICES ASSUME (n + 1) + 1 \in 1 .. MaxParameter PROVE Cost[(n + 1) + 1] \in Nat
        OBVIOUS
  <2>1. n + 1 \in 1 .. MaxParameter /\ n + 1 \in 1 .. MaxParameter - 1
        BY PlayersAssumption
  <2>2. NeedStatusPoint(n + 1) \in Nat
        BY DEF NeedStatusPoint
  <2> QED BY <1>2, <2>1, <2>2, CostNext
<1>3. Nat \subseteq S
  <2> HIDE DEF S
  <2> QED BY <1>1, <1>2, Induction
<1> QED
  <2> TAKE val \in 1 .. MaxParameter
  <2>1. val - 1 \in Nat /\ (val - 1) + 1 = val
        BY PlayersAssumption
  <2>2. val - 1 \in S
        BY <1>3, <2>1
  <2> QED BY <2>1, <2>2

\* All of what the parameters of a character have cost, whatever the order
Costs(attrs) ==
    Cost[attrs["STR"]] + Cost[attrs["AGI"]] + Cost[attrs["VIT"]]
      + Cost[attrs["INT"]] + Cost[attrs["DEX"]] + Cost[attrs["LUK"]]

LEMMA SumOfCosts ==
    ASSUME NEW attrs \in [ATTRs -> 1 .. MaxParameter]
    PROVE  /\ SumOver(ATTRs, LAMBDA a : Cost[attrs[a]]) = Costs(attrs)
           /\ Costs(attrs) \in Nat
<1> DEFINE c(a) == Cost[attrs[a]]
           of(T, a) == IF a \in T THEN c(a) ELSE 0
           g == [T \in SUBSET ATTRs |->
                   of(T, "STR") + of(T, "AGI") + of(T, "VIT")
                     + of(T, "INT") + of(T, "DEX") + of(T, "LUK")]
           F(h) == [T \in SUBSET ATTRs |->
                      IF T = {} THEN 0
                      ELSE LET x == CHOOSE y \in T : TRUE IN c(x) + h[T \ {x}]]
           plus == CHOOSE h : h = F(h)
<1>1. \A a \in ATTRs : c(a) \in Nat
      BY CostType
<1> HIDE DEF c
<1>2. ASSUME NEW T \in SUBSET ATTRs, NEW x \in T
      PROVE  g[T] = c(x) + g[T \ {x}]
  <2>1. x \in ATTRs
        OBVIOUS
  <2> QED BY <1>1, <2>1 DEF ATTRs
<1>3. g[{}] = 0
      OBVIOUS
<1>4. g = F(g)
  <2> HIDE DEF c
  <2>1. ASSUME NEW T \in SUBSET ATTRs PROVE g[T] = F(g)[T]
    <3>1. CASE T = {}
          BY <3>1, <1>3
    <3>2. CASE T # {}
      <4> DEFINE x == CHOOSE y \in T : TRUE
      <4>1. x \in T
            BY <3>2
      <4>2. F(g)[T] = c(x) + g[T \ {x}]
        <5> HIDE DEF g
        <5> QED BY <3>2
      <4> HIDE DEF x, g, F
      <4> QED BY <4>1, <4>2, <1>2
    <3> QED BY <3>1, <3>2
  <2>2. g = [T \in SUBSET ATTRs |-> g[T]] /\ F(g) = [T \in SUBSET ATTRs |-> F(g)[T]]
        OBVIOUS
  <2> HIDE DEF g, F
  <2> QED BY <2>1, <2>2
<1>5. plus = F(plus)
  <2> HIDE DEF g, F
  <2> QED BY <1>4
<1>6. \A T \in SUBSET ATTRs :
         plus[T] = IF T = {} THEN 0
                   ELSE LET x == CHOOSE y \in T : TRUE IN c(x) + plus[T \ {x}]
  <2> TAKE T \in SUBSET ATTRs
  <2>1. plus[T] = F(plus)[T]
    <3> HIDE DEF F, plus
    <3> QED BY <1>5
  <2> HIDE DEF plus
  <2> QED BY <2>1
<1> HIDE DEF plus, g
<1> DEFINE S == {n \in Nat : \A T \in SUBSET ATTRs : Cardinality(T) = n => plus[T] = g[T]}
<1>7. \A T \in SUBSET ATTRs : IsFiniteSet(T)
  <2>1. IsFiniteSet(ATTRs)
    <3>1. ATTRs = {"STR"} \cup {"AGI"} \cup {"VIT"} \cup {"INT"} \cup {"DEX"} \cup {"LUK"}
          BY DEF ATTRs
    <3> QED BY <3>1, FS_Singleton, FS_Union
  <2> QED BY <2>1, FS_Subset
<1>8. 0 \in S
  <2>1. \A T \in SUBSET ATTRs : Cardinality(T) = 0 => T = {}
        BY <1>7, FS_EmptySet
  <2> QED BY <2>1, <1>3, <1>6
<1>9. ASSUME NEW n \in Nat, n \in S PROVE n + 1 \in S
  <2> SUFFICES ASSUME NEW T \in SUBSET ATTRs, Cardinality(T) = n + 1
               PROVE  plus[T] = g[T]
        OBVIOUS
  <2> DEFINE x == CHOOSE y \in T : TRUE
  <2>1. T # {}
        BY FS_EmptySet
  <2>2. x \in T
        BY <2>1
  <2>3. plus[T] = c(x) + plus[T \ {x}]
        BY <1>6, <2>1
  <2> HIDE DEF x
  <2>4. Cardinality(T \ {x}) = n
    <3>1. IsFiniteSet(T)
          BY <1>7
    <3>2. Cardinality(T \ {x}) = Cardinality(T) - 1
          BY <2>2, <3>1, FS_RemoveElement
    <3> QED BY <3>2
  <2>5. plus[T \ {x}] = g[T \ {x}]
        BY <1>9, <2>4
  <2> QED BY <1>2, <2>2, <2>3, <2>5
<1>10. plus[ATTRs] = g[ATTRs]
  <2>1. Cardinality(ATTRs) \in Nat
        BY <1>7, FS_CardinalityType
  <2> HIDE DEF S
  <2>2. Cardinality(ATTRs) \in S
        BY <1>8, <1>9, <2>1, Induction
  <2> USE DEF S
  <2> QED BY <2>2
<1>11. g[ATTRs] = c("STR") + c("AGI") + c("VIT") + c("INT") + c("DEX") + c("LUK")
      BY DEF g, ATTRs
<1>12. SumOver(ATTRs, LAMBDA a : Cost[attrs[a]]) = plus[ATTRs]
      BY DEF SumOver, plus, c
<1> QED BY <1>1, <1>10, <1>11, <1>12 DEF Costs, c, ATTRs

-----------------------------------------------------------------------------
(* Sums over finite sets: SumOver is defined, and its values are numbers.  (The      *)
(* operator is a function here.)                                                *)

\* The recursive definition of SumOver
IsSum(plus, S, c) ==
    plus = [T \in SUBSET S |-> IF T = {} THEN 0
                               ELSE LET x == CHOOSE y \in T : TRUE IN c[x] + plus[T \ {x}]]

LEMMA SumExists ==
    ASSUME NEW S, IsFiniteSet(S), NEW c
    PROVE  \E plus : IsSum(plus, S, c)
<1> DEFINE Small(n) == {T \in SUBSET S : Cardinality(T) <= n}
           F(g, n) == [T \in Small(n) |-> IF T = {} THEN 0
                                          ELSE c[CHOOSE y \in T : TRUE]
                                                 + g[T \ {CHOOSE y \in T : TRUE}]]
           Defined == {n \in Nat : \E g : g = F(g, n)}
<1>1. \A T \in SUBSET S : IsFiniteSet(T) /\ Cardinality(T) \in Nat
      BY FS_Subset, FS_CardinalityType
<1>2. 0 \in Defined
  <2>1. \A T \in Small(0) : T = {}
        BY <1>1, FS_EmptySet
  <2>2. [T \in Small(0) |-> 0] = F([T \in Small(0) |-> 0], 0)
    <3> HIDE DEF Small
    <3> QED BY <2>1
  <2> HIDE DEF F
  <2> QED BY <2>2
<1>3. ASSUME NEW n \in Nat, n \in Defined PROVE n + 1 \in Defined
  <2>1. PICK g : g = F(g, n)
        BY <1>3
  <2> DEFINE h == F(g, n + 1)
  <2>2. \A T \in Small(n) : T \in Small(n + 1) /\ h[T] = g[T]
    <3>1. \A T \in Small(n) : T \in Small(n + 1)
          BY <1>1
    <3>2. \A T \in Small(n) : g[T] = F(g, n)[T]
      <4> HIDE DEF F
      <4> QED BY <2>1
    <3> HIDE DEF Small
    <3> QED BY <3>1, <3>2
  <2>3. ASSUME NEW T \in Small(n + 1), T # {}
        PROVE  T \ {CHOOSE y \in T : TRUE} \in Small(n)
    <3> DEFINE x == CHOOSE y \in T : TRUE
    <3>1. x \in T
          BY <2>3
    <3> HIDE DEF x
    <3>2. Cardinality(T \ {x}) = Cardinality(T) - 1
          BY <3>1, <1>1, FS_RemoveElement
    <3>3. Cardinality(T \ {x}) <= n /\ T \ {x} \in SUBSET S
          BY <3>2, <1>1
    <3> QED BY <3>3 DEF x
  <2>4. h = F(h, n + 1)
    <3>1. ASSUME NEW T \in Small(n + 1)
          PROVE  (IF T = {} THEN 0
                  ELSE c[CHOOSE y \in T : TRUE] + g[T \ {CHOOSE y \in T : TRUE}])
                   = (IF T = {} THEN 0
                      ELSE c[CHOOSE y \in T : TRUE] + h[T \ {CHOOSE y \in T : TRUE}])
      <4> HIDE DEF h, Small
      <4> QED BY <2>2, <2>3
    <3> HIDE DEF Small
    <3> QED BY <3>1
  <2> HIDE DEF h, F
  <2> QED BY <2>4
<1>4. Cardinality(S) \in Defined
  <2>1. Cardinality(S) \in Nat
        BY FS_CardinalityType
  <2> HIDE DEF Defined
  <2> QED BY <2>1, <1>2, <1>3, Induction
<1>5. Small(Cardinality(S)) = SUBSET S
  <2>1. \A T \in SUBSET S : Cardinality(T) <= Cardinality(S)
        BY FS_Subset
  <2> QED BY <2>1
<1>6. PICK g : g = F(g, Cardinality(S))
      BY <1>4
<1>7. IsSum(g, S, c)
  <2> HIDE DEF Small
  <2> QED BY <1>5, <1>6 DEF IsSum
<1> QED BY <1>7

LEMMA SumType ==
    ASSUME NEW S, IsFiniteSet(S), NEW Codomain \in {Nat, Int}, NEW c \in [S -> Codomain],
           NEW plus, IsSum(plus, S, c)
    PROVE  plus[S] \in Codomain
<1> DEFINE Good == {n \in Nat : \A T \in SUBSET S : Cardinality(T) = n => plus[T] \in Codomain}
<1>1. \A T \in SUBSET S : IsFiniteSet(T) /\ Cardinality(T) \in Nat
      BY FS_Subset, FS_CardinalityType
<1>2. \A T \in SUBSET S :
         plus[T] = IF T = {} THEN 0
                   ELSE c[CHOOSE y \in T : TRUE] + plus[T \ {CHOOSE y \in T : TRUE}]
  <2> TAKE T \in SUBSET S
  <2> DEFINE F(g) == [U \in SUBSET S |-> IF U = {} THEN 0
                                         ELSE c[CHOOSE y \in U : TRUE]
                                                + g[U \ {CHOOSE y \in U : TRUE}]]
  <2>1. plus = F(plus)
        BY DEF IsSum
  <2>2. plus[T] = F(plus)[T]
    <3> HIDE DEF F
    <3> QED BY <2>1
  <2> QED BY <2>2
<1>3. 0 \in Good
  <2>1. \A T \in SUBSET S : Cardinality(T) = 0 => T = {}
        BY <1>1, FS_EmptySet
  <2>2. 0 \in Codomain
        OBVIOUS
  <2>3. plus[{}] = 0
        BY <1>2
  <2> QED BY <2>1, <2>2, <2>3
<1>4. ASSUME NEW n \in Nat, n \in Good PROVE n + 1 \in Good
  <2> SUFFICES ASSUME NEW T \in SUBSET S, Cardinality(T) = n + 1 PROVE plus[T] \in Codomain
        OBVIOUS
  <2> DEFINE x == CHOOSE y \in T : TRUE
  <2>1. T # {}
        BY FS_EmptySet
  <2>2. x \in T
        BY <2>1
  <2>3. plus[T] = c[x] + plus[T \ {x}]
        BY <1>2, <2>1
  <2> HIDE DEF x
  <2>4. Cardinality(T \ {x}) = n
    <3>1. Cardinality(T \ {x}) = Cardinality(T) - 1
          BY <2>2, <1>1, FS_RemoveElement
    <3> QED BY <3>1
  <2>5. plus[T \ {x}] \in Codomain /\ c[x] \in Codomain
    <3>1. T \ {x} \in SUBSET S
          OBVIOUS
    <3> QED BY <1>4, <2>2, <2>4, <3>1
  <2> QED BY <2>3, <2>5
<1>5. Cardinality(S) \in Good
  <2>1. Cardinality(S) \in Nat
        BY FS_CardinalityType
  <2> HIDE DEF Good
  <2> QED BY <2>1, <1>3, <1>4, Induction
<1>6. S \in SUBSET S
      OBVIOUS
<1> QED BY <1>5, <1>6

-----------------------------------------------------------------------------
(* What happens to a character (Players). *)

\* What life does not change, and what it ends only with a death
Lived(r, s) ==
    /\ s \in Characters
    /\ s.on = r.on /\ s.base_level = r.base_level
    /\ s.status_point = r.status_point /\ s.attrs = r.attrs
    /\ Dead(r) => Dead(s)
    /\ s.poison = r.poison \/ (~Dead(r) /\ Dead(s))

\* What levels bring, and nothing else that the status depends on
Risen(r, s) ==
    /\ s \in Characters
    /\ s.on = r.on /\ s.dead_sit = r.dead_sit /\ s.poison = r.poison /\ s.attrs = r.attrs
    /\ r.base_level <= s.base_level
    /\ s.status_point = r.status_point + (stat_p[s.base_level] - stat_p[r.base_level])

LEMMA Numbers ==
    /\ MaxLevel \in 1 .. 255 /\ MaxLevel \in Nat
    /\ MaxHp \in Nat /\ MaxHp > 0 /\ MaxPoison \in Nat /\ MaxPoison > 0
    /\ MaxParameter \in Nat /\ MaxParameter > 0
    /\ BaseStep \in Nat /\ BaseStep > 0 /\ JobStep \in Nat /\ JobStep > 0
    /\ JobCap \in Nat /\ JobCap > 0
BY PlayersAssumption, StatPoints

\* The parts of a character, and that it stays one when a part changes
LEMMA Parts ==
    ASSUME NEW r \in Characters
    PROVE  /\ r.on \in BOOLEAN /\ r.hp \in 0 .. MaxHp /\ r.quick \in 0 .. MaxHp
           /\ r.poison \in 0 .. MaxPoison /\ r.base_level \in 1 .. MaxLevel
           /\ r.base_exp \in Nat /\ r.job_level \in Nat \ {0} /\ r.job_exp \in Nat
           /\ r.status_point \in Nat /\ r.skill_point \in Int
           /\ r.attrs \in [ATTRs -> 1 .. MaxParameter] /\ r.skill \in [Skills -> Nat]
BY DEF Characters

LEMMA PartChanged ==
    ASSUME NEW r \in Characters
    PROVE  /\ \A x \in 0 .. MaxHp : [r EXCEPT !.hp = x] \in Characters
           /\ \A x \in 0 .. MaxHp : [r EXCEPT !.quick = x] \in Characters
           /\ \A x \in {"stand", "sit", "dead"} : [r EXCEPT !.dead_sit = x] \in Characters
           /\ \A x \in 0 .. MaxPoison : [r EXCEPT !.poison = x] \in Characters
           /\ \A x \in BOOLEAN : [r EXCEPT !.on = x] \in Characters
BY DEF Characters

LEMMA PenaltiesType ==
    ASSUME NEW r \in Characters, NEW s \in Penalties(r)
    PROVE  /\ s \in Characters
           /\ s.on = r.on /\ s.dead_sit = r.dead_sit /\ s.base_level = r.base_level
           /\ s.status_point = r.status_point /\ s.attrs = r.attrs /\ s.poison = r.poison
<1>1. CASE s = r
      BY <1>1
<1>2. CASE s = [r EXCEPT !.base_exp = 0, !.job_exp = 0]
      BY <1>2 DEF Characters
<1> QED BY <1>1, <1>2 DEF Penalties

\* pc_damage kills or hurts.
LEMMA DamagedLives ==
    ASSUME NEW r \in Characters, NEW damage \in Nat, NEW s \in Damaged(r, damage)
    PROVE  Lived(r, s)
<1> DEFINE hurt == [r EXCEPT !.dead_sit = "stand", !.hp = @ - damage]
           gone == StatusChangeClear([hurt EXCEPT !.dead_sit = "dead", !.hp = 0, !.quick = 0])
<1>1. CASE Dead(r)
      BY <1>1 DEF Damaged, Lived
<1>2. CASE ~Dead(r) /\ hurt.hp > 0
  <2>1. s = hurt
        BY <1>2 DEF Damaged
  <2>2. hurt.hp = r.hp - damage
        BY DEF Characters
  <2>3. r.hp - damage \in 0 .. MaxHp
        BY <1>2, <2>2, Parts, Numbers
  <2>4. hurt \in Characters
        BY <2>3 DEF Characters
  <2>5. /\ hurt.on = r.on /\ hurt.dead_sit = "stand" /\ hurt.base_level = r.base_level
        /\ hurt.status_point = r.status_point /\ hurt.attrs = r.attrs /\ hurt.poison = r.poison
        BY DEF Characters
  <2> HIDE DEF hurt
  <2> QED BY <1>2, <2>1, <2>4, <2>5 DEF Lived, Dead
<1>3. CASE ~Dead(r) /\ ~(hurt.hp > 0)
  <2>1. s \in Penalties(gone)
        BY <1>3 DEF Damaged
  <2>2. gone \in Characters
    <3>1. 0 \in 0 .. MaxHp /\ 0 \in 0 .. MaxPoison
          BY Numbers
    <3> QED BY <3>1 DEF StatusChangeClear, Characters
  <2>3. /\ gone.on = r.on /\ gone.dead_sit = "dead" /\ gone.base_level = r.base_level
        /\ gone.status_point = r.status_point /\ gone.attrs = r.attrs
        BY DEF StatusChangeClear, Characters
  <2> HIDE DEF gone, hurt
  <2>4. /\ s \in Characters
        /\ s.on = r.on /\ s.dead_sit = "dead" /\ s.base_level = r.base_level
        /\ s.status_point = r.status_point /\ s.attrs = r.attrs
        BY <2>1, <2>2, <2>3, PenaltiesType
  <2> QED BY <1>3, <2>4 DEF Lived, Dead
<1> QED BY <1>1, <1>2, <1>3

\* pc_heal and pc_itemheal_effect heal or kill.
LEMMA HealedLives ==
    ASSUME NEW r \in Characters, NEW hp \in Int, NEW s \in Healed(r, hp)
    PROVE  Lived(r, s)
<1> DEFINE now == Smaller(r.hp + hp, MaxHp)
           none == [r EXCEPT !.hp = 0]
<1>1. CASE now > 0
  <2>1. now \in 0 .. MaxHp
        BY <1>1, Numbers, Parts DEF Smaller
  <2>2. s = [r EXCEPT !.hp = now]
        BY <1>1 DEF Healed
  <2> HIDE DEF now
  <2>3. s \in Characters
        BY <2>1, <2>2, PartChanged
  <2>4. /\ s.on = r.on /\ s.dead_sit = r.dead_sit /\ s.base_level = r.base_level
        /\ s.status_point = r.status_point /\ s.attrs = r.attrs /\ s.poison = r.poison
        BY <2>2 DEF Characters
  <2> QED BY <2>3, <2>4 DEF Lived, Dead
<1>2. CASE ~(now > 0)
  <2>1. s \in Damaged(none, 1)
        BY <1>2 DEF Healed
  <2>2. none \in Characters
    <3>1. 0 \in 0 .. MaxHp
          BY Numbers
    <3> QED BY <3>1, PartChanged
  <2>3. /\ none.on = r.on /\ none.dead_sit = r.dead_sit /\ none.base_level = r.base_level
        /\ none.status_point = r.status_point /\ none.attrs = r.attrs /\ none.poison = r.poison
        BY DEF Characters
  <2> HIDE DEF none
  <2>4. Lived(none, s)
        BY <2>1, <2>2, DamagedLives
  <2> QED BY <2>3, <2>4 DEF Lived, Dead
<1> QED BY <1>1, <1>2

\* What heals does not kill.
LEMMA HealedGrows ==
    ASSUME NEW r \in Characters, NEW hp \in Int, r.hp + hp > 0
    PROVE  /\ Smaller(r.hp + hp, MaxHp) \in 1 .. MaxHp
           /\ Healed(r, hp) = {[r EXCEPT !.hp = Smaller(r.hp + hp, MaxHp)]}
<1>1. Smaller(r.hp + hp, MaxHp) \in 1 .. MaxHp
      BY Numbers, Parts DEF Smaller
<1> QED BY <1>1 DEF Healed

\* The table only rises.
LEMMA PointsRise ==
    ASSUME NEW lo \in 1 .. 255, NEW hi \in 1 .. 255, lo < hi
    PROVE  stat_p[lo] < stat_p[hi]
<1> DEFINE S == {d \in Nat : lo + 1 + d \in 1 .. 255 => stat_p[lo] < stat_p[lo + 1 + d]}
<1>1. ASSUME NEW n \in 1 .. 254 PROVE stat_p[n] < stat_p[n + 1]
  <2>1. (n + 15) \div 4 > 0
        OBVIOUS
  <2> QED BY <2>1, StatPoints
<1>2. 0 \in S
      BY <1>1
<1>3. ASSUME NEW d \in Nat, d \in S PROVE d + 1 \in S
  <2> SUFFICES ASSUME lo + 1 + (d + 1) \in 1 .. 255
               PROVE  stat_p[lo] < stat_p[lo + 1 + (d + 1)]
        OBVIOUS
  <2> DEFINE n == lo + 1 + d
  <2>1. n \in 1 .. 254 /\ lo + 1 + (d + 1) = n + 1
        OBVIOUS
  <2>2. stat_p[lo] < stat_p[n]
        BY <1>3, <2>1
  <2> HIDE DEF n
  <2>3. stat_p[n] < stat_p[n + 1]
        BY <1>1, <2>1
  <2>4. stat_p[lo] \in Int /\ stat_p[n] \in Int /\ stat_p[n + 1] \in Int
        BY <2>1, StatPoints
  <2> QED BY <2>1, <2>2, <2>3, <2>4
<1>4. hi - lo - 1 \in S
  <2>1. hi - lo - 1 \in Nat
        OBVIOUS
  <2> HIDE DEF S
  <2> QED BY <1>2, <1>3, <2>1, Induction
<1> QED
  <2>1. lo + 1 + (hi - lo - 1) = hi
        OBVIOUS
  <2> QED BY <1>4, <2>1

\* Levels that are given bring what the table says.
LEMMA LiftedRises ==
    ASSUME NEW r \in Characters, NEW level \in 1 .. MaxLevel, r.base_level <= level
    PROVE  \E s : Lifted(r, level) = {s} /\ Risen(r, s) /\ s.base_level = level
<1> DEFINE points == PointsOfLevels(r.base_level, level)
           u == [r EXCEPT !.base_level = level, !.status_point = @ + points]
           s == [u EXCEPT !.hp = Smaller(u.hp + MaxHp, MaxHp)]
<1>1. r.base_level \in 1 .. 255 /\ level \in 1 .. 255
      BY Numbers, Parts
<1>2. points = stat_p[level] - stat_p[r.base_level]
      BY <1>1, PointsOfLevelsAgree
<1>3. points \in Nat
  <2>1. stat_p[r.base_level] \in Nat /\ stat_p[level] \in Nat
        BY <1>1, StatPoints
  <2>2. stat_p[r.base_level] <= stat_p[level]
    <3>1. CASE r.base_level = level
          BY <3>1, <2>1
    <3>2. CASE r.base_level < level
      <4>1. stat_p[r.base_level] < stat_p[level]
            BY <3>2, <1>1, PointsRise
      <4> QED BY <4>1, <2>1
    <3> QED BY <3>1, <3>2, <1>1
  <2> QED BY <1>2, <2>1, <2>2
<1> HIDE DEF points
<1>4. u \in Characters
  <2>1. r.status_point + points \in Nat
        BY <1>3, Parts
  <2> QED BY <2>1 DEF Characters
<1>5. /\ u.on = r.on /\ u.dead_sit = r.dead_sit /\ u.poison = r.poison /\ u.attrs = r.attrs
      /\ u.base_level = level /\ u.status_point = r.status_point + points /\ u.hp = r.hp
      BY DEF Characters
<1>6. Lifted(r, level) = Healed(u, MaxHp)
      BY DEF Lifted, points
<1> HIDE DEF u
<1>7. u.hp + MaxHp > 0
      BY <1>4, Numbers, Parts
<1>8. Lifted(r, level) = {s}
      BY <1>4, <1>6, <1>7, Numbers, HealedGrows
<1>9. s \in Characters
  <2>1. Smaller(u.hp + MaxHp, MaxHp) \in 1 .. MaxHp
        BY <1>4, <1>7, Numbers, HealedGrows
  <2>2. Smaller(u.hp + MaxHp, MaxHp) \in 0 .. MaxHp
        BY <2>1
  <2> QED BY <1>4, <2>2, PartChanged
<1>10. /\ s.on = r.on /\ s.dead_sit = r.dead_sit /\ s.poison = r.poison /\ s.attrs = r.attrs
       /\ s.base_level = level /\ s.status_point = r.status_point + points
       BY <1>4, <1>5 DEF Characters
<1> HIDE DEF s
<1>11. Risen(r, s)
       BY <1>2, <1>9, <1>10 DEF Risen
<1> QED BY <1>8, <1>10, <1>11

\* Such changes add up.
LEMMA LivedTwice ==
    ASSUME NEW r, NEW s, NEW u, Lived(r, s), Lived(s, u)
    PROVE  Lived(r, u)
BY DEF Lived

LEMMA LevelOf ==
    ASSUME NEW r \in Characters
    PROVE  r.base_level \in 1 .. 255 /\ r.status_point \in Nat /\ stat_p[r.base_level] \in Nat
<1>1. r.base_level \in 1 .. 255 /\ r.status_point \in Nat
      BY Parts, Numbers
<1> QED BY <1>1, StatPoints

LEMMA RisenTwice ==
    ASSUME NEW r \in Characters, NEW s, NEW u, Risen(r, s), Risen(s, u)
    PROVE  Risen(r, u)
<1>1. s \in Characters /\ u \in Characters
      BY DEF Risen
<1>2. r.base_level \in Int /\ r.status_point \in Int /\ stat_p[r.base_level] \in Int
      BY LevelOf
<1>3. s.base_level \in Int /\ s.status_point \in Int /\ stat_p[s.base_level] \in Int
      BY <1>1, LevelOf
<1>4. u.base_level \in Int /\ u.status_point \in Int /\ stat_p[u.base_level] \in Int
      BY <1>1, LevelOf
<1>5. r.base_level <= u.base_level
      BY <1>2, <1>3, <1>4 DEF Risen
<1>6. u.status_point = r.status_point + (stat_p[u.base_level] - stat_p[r.base_level])
  <2>1. s.status_point = r.status_point + (stat_p[s.base_level] - stat_p[r.base_level])
        BY DEF Risen
  <2>2. u.status_point = s.status_point + (stat_p[u.base_level] - stat_p[s.base_level])
        BY DEF Risen
  <2> QED BY <2>1, <2>2, <1>2, <1>3, <1>4
<1> QED BY <1>5, <1>6 DEF Risen

LEMMA RisenNot ==
    ASSUME NEW r \in Characters, NEW s \in Characters,
           s.on = r.on, s.dead_sit = r.dead_sit, s.poison = r.poison, s.attrs = r.attrs,
           s.base_level = r.base_level, s.status_point = r.status_point
    PROVE  Risen(r, s)
<1>1. r.base_level \in Int /\ r.status_point \in Int /\ stat_p[r.base_level] \in Int
      BY LevelOf
<1> QED BY <1>1 DEF Risen

\* pc_checkbaselevelup
LEMMA CheckBaseLevelUpRises ==
    ASSUME NEW r \in Characters
    PROVE  Risen(r, CheckBaseLevelUp(r))
<1> DEFINE less == [r EXCEPT !.base_exp = @ - NextBaseExp(r)]
<1>1. CASE NextBaseExp(r) > 0 /\ r.base_exp >= NextBaseExp(r)
  <2>1. NextBaseExp(r) = BaseStep /\ r.base_level < MaxLevel
    <3>1. ~(r.base_level >= MaxLevel \/ r.base_level <= 0)
          BY <1>1 DEF NextBaseExp
    <3> QED BY <3>1, Parts, Numbers DEF NextBaseExp
  <2>2. r.base_exp - NextBaseExp(r) \in Nat
        BY <1>1, <2>1, Numbers, Parts
  <2>3. less \in Characters
        BY <2>2 DEF Characters
  <2>4. /\ less.on = r.on /\ less.dead_sit = r.dead_sit /\ less.poison = r.poison
        /\ less.attrs = r.attrs /\ less.base_level = r.base_level
        /\ less.status_point = r.status_point
        BY DEF Characters
  <2>5. CheckBaseLevelUp(r) = CHOOSE up \in Lifted(less, r.base_level + 1) : TRUE
        BY <1>1 DEF CheckBaseLevelUp
  <2> HIDE DEF less
  <2>6. r.base_level + 1 \in 1 .. MaxLevel /\ less.base_level <= r.base_level + 1
        BY <2>1, <2>4, Parts, Numbers
  <2>7. PICK s : Lifted(less, r.base_level + 1) = {s} /\ Risen(less, s)
        BY <2>3, <2>6, LiftedRises
  <2>8. CheckBaseLevelUp(r) = s
        BY <2>5, <2>7
  <2>9. Risen(r, less)
        BY <2>3, <2>4, RisenNot
  <2> QED BY <2>7, <2>8, <2>9, RisenTwice
<1>2. CASE ~(NextBaseExp(r) > 0 /\ r.base_exp >= NextBaseExp(r))
  <2>1. CheckBaseLevelUp(r) = r
        BY <1>2 DEF CheckBaseLevelUp
  <2> QED BY <2>1, RisenNot
<1> QED BY <1>1, <1>2

\* pc_checkjoblevelup: nothing that the status depends on
LEMMA CheckJobLevelUpRises ==
    ASSUME NEW r \in Characters
    PROVE  /\ Risen(r, CheckJobLevelUp(r))
           /\ CheckJobLevelUp(r).base_level = r.base_level
<1> DEFINE kept == [r EXCEPT !.job_exp = JobStep - 1]
           level == IF r.job_level < 250 /\ r.job_level < 2 * r.base_level
                    THEN r.job_level + 1 ELSE r.job_level
           up == [r EXCEPT !.job_exp = @ - JobStep, !.skill_point = @ + 1, !.job_level = level]
<1>1. CASE r.job_exp < JobStep
  <2>1. CheckJobLevelUp(r) = r
        BY <1>1 DEF CheckJobLevelUp
  <2> QED BY <2>1, RisenNot
<1>2. CASE ~(r.job_exp < JobStep) /\ CheckJobLevelUp(r) = kept
  <2>1. JobStep - 1 \in Nat
        BY Numbers
  <2>2. kept \in Characters
        BY <2>1 DEF Characters
  <2>3. /\ kept.on = r.on /\ kept.dead_sit = r.dead_sit /\ kept.poison = r.poison
        /\ kept.attrs = r.attrs /\ kept.base_level = r.base_level
        /\ kept.status_point = r.status_point
        BY DEF Characters
  <2> HIDE DEF kept
  <2> QED BY <1>2, <2>2, <2>3, RisenNot
<1>3. CASE ~(r.job_exp < JobStep) /\ CheckJobLevelUp(r) = up
  <2>1. r.job_exp - JobStep \in Nat /\ r.skill_point + 1 \in Int /\ level \in Nat \ {0}
        BY <1>3, Numbers, Parts
  <2> HIDE DEF level
  <2>2. up \in Characters
        BY <2>1 DEF Characters
  <2>3. /\ up.on = r.on /\ up.dead_sit = r.dead_sit /\ up.poison = r.poison
        /\ up.attrs = r.attrs /\ up.base_level = r.base_level
        /\ up.status_point = r.status_point
        BY DEF Characters
  <2> HIDE DEF up
  <2> QED BY <1>3, <2>2, <2>3, RisenNot
<1>4. ~(r.job_exp < JobStep) => CheckJobLevelUp(r) \in {kept, up}
      BY DEF CheckJobLevelUp
<1> QED BY <1>1, <1>2, <1>3, <1>4

\* Repeated is defined, and what it repeats adds up.
LEMMA BaseLevelUpsRise ==
    ASSUME NEW r \in Characters, NEW exp \in Nat
    PROVE  /\ Risen(r, Repeated(CheckBaseLevelUp, r, exp))
<1> DEFINE F(g, m) == [n \in 0 .. m |-> IF n = 0 THEN r ELSE CheckBaseLevelUp(g[n - 1])]
           Defined == {m \in Nat : \E g : g = F(g, m)}
           times == CHOOSE g : g = F(g, exp)
<1>1. 0 \in Defined
  <2>1. [n \in 0 .. 0 |-> r] = F([n \in 0 .. 0 |-> r], 0)
        OBVIOUS
  <2> QED BY <2>1
<1>2. ASSUME NEW m \in Nat, m \in Defined PROVE m + 1 \in Defined
  <2>1. PICK g : g = F(g, m)
        BY <1>2
  <2> DEFINE h == [n \in 0 .. m + 1 |-> IF n = 0 THEN r ELSE CheckBaseLevelUp(g[n - 1])]
  <2>2. \A n \in 0 .. m : h[n] = g[n]
        BY <2>1
  <2>3. h = F(h, m + 1)
    <3>1. \A n \in 0 .. m + 1 : n # 0 => n - 1 \in 0 .. m
          OBVIOUS
    <3> QED BY <2>2, <3>1
  <2> HIDE DEF h
  <2> QED BY <2>3
<1>3. exp \in Defined
  <2> HIDE DEF Defined
  <2> QED BY <1>1, <1>2, Induction
<1>4. times = F(times, exp)
  <2>1. \E g : g = F(g, exp)
        BY <1>3
  <2> HIDE DEF F
  <2> QED BY <2>1
<1>5. /\ times[0] = r
      /\ \A n \in 0 .. exp - 1 : times[n + 1] = CheckBaseLevelUp(times[n])
  <2> HIDE DEF times
  <2>1. times[0] = r
        BY <1>4
  <2>2. ASSUME NEW n \in 0 .. exp - 1 PROVE times[n + 1] = CheckBaseLevelUp(times[n])
    <3>1. n + 1 \in 0 .. exp /\ n + 1 # 0 /\ (n + 1) - 1 = n
          OBVIOUS
    <3> QED BY <1>4, <3>1
  <2> QED BY <2>1, <2>2
<1> HIDE DEF times
<1> DEFINE Risen0 == {n \in Nat : n \in 0 .. exp => Risen(r, times[n])}
<1>6. 0 \in Risen0
      BY <1>5, RisenNot
<1>7. ASSUME NEW n \in Nat, n \in Risen0 PROVE n + 1 \in Risen0
  <2> SUFFICES ASSUME n + 1 \in 0 .. exp PROVE Risen(r, times[n + 1])
        OBVIOUS
  <2>1. n \in 0 .. exp - 1 /\ Risen(r, times[n])
        BY <1>7
  <2>2. times[n] \in Characters /\ times[n + 1] = CheckBaseLevelUp(times[n])
        BY <1>5, <2>1 DEF Risen
  <2>3. Risen(times[n], times[n + 1])
        BY <2>2, CheckBaseLevelUpRises
  <2> QED BY <2>1, <2>3, RisenTwice
<1>8. exp \in Risen0
  <2> HIDE DEF Risen0
  <2> QED BY <1>6, <1>7, Induction
<1>9. Repeated(CheckBaseLevelUp, r, exp) = times[exp]
      BY DEF Repeated, times
<1> QED BY <1>8, <1>9

LEMMA JobLevelUpsRise ==
    ASSUME NEW r \in Characters, NEW exp \in Nat
    PROVE  /\ Risen(r, Repeated(CheckJobLevelUp, r, exp))
           /\ Repeated(CheckJobLevelUp, r, exp).base_level = r.base_level
<1> DEFINE F(g, m) == [n \in 0 .. m |-> IF n = 0 THEN r ELSE CheckJobLevelUp(g[n - 1])]
           Defined == {m \in Nat : \E g : g = F(g, m)}
           times == CHOOSE g : g = F(g, exp)
<1>1. 0 \in Defined
  <2>1. [n \in 0 .. 0 |-> r] = F([n \in 0 .. 0 |-> r], 0)
        OBVIOUS
  <2> QED BY <2>1
<1>2. ASSUME NEW m \in Nat, m \in Defined PROVE m + 1 \in Defined
  <2>1. PICK g : g = F(g, m)
        BY <1>2
  <2> DEFINE h == [n \in 0 .. m + 1 |-> IF n = 0 THEN r ELSE CheckJobLevelUp(g[n - 1])]
  <2>2. \A n \in 0 .. m : h[n] = g[n]
        BY <2>1
  <2>3. h = F(h, m + 1)
    <3>1. \A n \in 0 .. m + 1 : n # 0 => n - 1 \in 0 .. m
          OBVIOUS
    <3> QED BY <2>2, <3>1
  <2> HIDE DEF h
  <2> QED BY <2>3
<1>3. exp \in Defined
  <2> HIDE DEF Defined
  <2> QED BY <1>1, <1>2, Induction
<1>4. times = F(times, exp)
  <2>1. \E g : g = F(g, exp)
        BY <1>3
  <2> HIDE DEF F
  <2> QED BY <2>1
<1>5. /\ times[0] = r
      /\ \A n \in 0 .. exp - 1 : times[n + 1] = CheckJobLevelUp(times[n])
  <2> HIDE DEF times
  <2>1. times[0] = r
        BY <1>4
  <2>2. ASSUME NEW n \in 0 .. exp - 1 PROVE times[n + 1] = CheckJobLevelUp(times[n])
    <3>1. n + 1 \in 0 .. exp /\ n + 1 # 0 /\ (n + 1) - 1 = n
          OBVIOUS
    <3> QED BY <1>4, <3>1
  <2> QED BY <2>1, <2>2
<1> HIDE DEF times
<1> DEFINE Risen0 == {n \in Nat : n \in 0 .. exp => Risen(r, times[n]) /\ times[n].base_level = r.base_level}
<1>6. 0 \in Risen0
      BY <1>5, RisenNot
<1>7. ASSUME NEW n \in Nat, n \in Risen0 PROVE n + 1 \in Risen0
  <2> SUFFICES ASSUME n + 1 \in 0 .. exp PROVE Risen(r, times[n + 1]) /\ times[n + 1].base_level = r.base_level
        OBVIOUS
  <2>1. n \in 0 .. exp - 1 /\ Risen(r, times[n]) /\ times[n].base_level = r.base_level
        BY <1>7
  <2>2. times[n] \in Characters /\ times[n + 1] = CheckJobLevelUp(times[n])
        BY <1>5, <2>1 DEF Risen
  <2>3. Risen(times[n], times[n + 1]) /\ times[n + 1].base_level = times[n].base_level
        BY <2>2, CheckJobLevelUpRises
  <2> QED BY <2>1, <2>3, RisenTwice
<1>8. exp \in Risen0
  <2> HIDE DEF Risen0
  <2> QED BY <1>6, <1>7, Induction
<1>9. Repeated(CheckJobLevelUp, r, exp) = times[exp]
      BY DEF Repeated, times
<1> QED BY <1>8, <1>9

\* pc_gainexp_reason: the levels that experience brings
LEMMA GainedRises ==
    ASSUME NEW r \in Characters, NEW base \in Nat, NEW job \in Nat
    PROVE  Risen(r, Gained(r, base, job))
<1> DEFINE b == [r EXCEPT !.base_exp = @ + base]
           up == Repeated(CheckBaseLevelUp, b, b.base_exp)
           j == [up EXCEPT !.job_exp = @ + job]
           end == Repeated(CheckJobLevelUp, j, j.job_exp)
<1>1. b \in Characters /\ b.base_exp \in Nat /\ Risen(r, b)
  <2>1. r.base_exp + base \in Nat
        BY Parts
  <2>2. b \in Characters
        BY <2>1 DEF Characters
  <2>3. /\ b.on = r.on /\ b.dead_sit = r.dead_sit /\ b.poison = r.poison /\ b.attrs = r.attrs
        /\ b.base_level = r.base_level /\ b.status_point = r.status_point
        BY DEF Characters
  <2> HIDE DEF b
  <2> QED BY <2>2, <2>3, Parts, RisenNot
<1> HIDE DEF b
<1>2. Risen(b, up) /\ up \in Characters
      BY <1>1, BaseLevelUpsRise DEF Risen
<1> HIDE DEF up
<1>3. j \in Characters /\ j.job_exp \in Nat /\ Risen(up, j)
  <2>1. up.job_exp + job \in Nat
        BY <1>2, Parts
  <2>2. j \in Characters
        BY <1>2, <2>1 DEF Characters
  <2>3. /\ j.on = up.on /\ j.dead_sit = up.dead_sit /\ j.poison = up.poison
        /\ j.attrs = up.attrs /\ j.base_level = up.base_level
        /\ j.status_point = up.status_point
        BY <1>2 DEF Characters
  <2> HIDE DEF j
  <2> QED BY <1>2, <2>2, <2>3, Parts, RisenNot
<1> HIDE DEF j
<1>4. Risen(j, end)
      BY <1>3, JobLevelUpsRise
<1> HIDE DEF end
<1>5. Risen(r, up)
      BY <1>1, <1>2, RisenTwice
<1>6. Risen(r, j)
      BY <1>5, <1>3, RisenTwice
<1>7. Risen(r, end)
      BY <1>6, <1>4, RisenTwice
<1>8. Gained(r, base, job) = end
      BY DEF Gained, end, j, up, b
<1> QED BY <1>7, <1>8

-----------------------------------------------------------------------------
(* The steps of a life. *)

\* The level, the points and the parameters stay.
Alike(r, s) ==
    /\ s \in Characters
    /\ s.base_level = r.base_level /\ s.status_point = r.status_point /\ s.attrs = r.attrs

\* So does poison, if there is any, except for who dies.
Spared(r, s) ==
    /\ Alike(r, s)
    /\ s.on = r.on
    /\ (s.poison > 0 <=> r.poison > 0) \/ (~Dead(r) /\ Dead(s))

LEMMA LivedSpares ==
    ASSUME NEW r, NEW s, Lived(r, s)
    PROVE  Spared(r, s)
BY DEF Lived, Spared, Alike

\* Changes of hp, of what is to come, and of slow poison
LEMMA QuickChanged ==
    ASSUME NEW r \in Characters, NEW x \in 0 .. MaxHp
    PROVE  Lived(r, [r EXCEPT !.quick = x]) /\ [r EXCEPT !.quick = x].hp = r.hp
<1> DEFINE s == [r EXCEPT !.quick = x]
<1>1. s \in Characters
      BY PartChanged
<1>2. /\ s.on = r.on /\ s.dead_sit = r.dead_sit /\ s.base_level = r.base_level
      /\ s.status_point = r.status_point /\ s.attrs = r.attrs /\ s.poison = r.poison
      /\ s.hp = r.hp
      BY DEF Characters
<1> HIDE DEF s
<1>3. Lived(r, s)
      BY <1>1, <1>2 DEF Lived, Dead
<1> QED BY <1>2, <1>3 DEF s

LEMMA HpChanged ==
    ASSUME NEW r \in Characters, NEW x \in 0 .. MaxHp
    PROVE  Lived(r, [r EXCEPT !.hp = x])
<1> DEFINE s == [r EXCEPT !.hp = x]
<1>1. s \in Characters
      BY PartChanged
<1>2. /\ s.on = r.on /\ s.dead_sit = r.dead_sit /\ s.base_level = r.base_level
      /\ s.status_point = r.status_point /\ s.attrs = r.attrs /\ s.poison = r.poison
      BY DEF Characters
<1> HIDE DEF s
<1>3. Lived(r, s)
      BY <1>1, <1>2 DEF Lived, Dead
<1> QED BY <1>3 DEF s

\* Who stands up is as poisoned as before.
LEMMA PostureChanged ==
    ASSUME NEW r \in Characters, NEW x \in {"stand", "sit", "dead"}
    PROVE  /\ Spared(r, [r EXCEPT !.dead_sit = x])
           /\ [r EXCEPT !.dead_sit = x].hp = r.hp
           /\ [r EXCEPT !.dead_sit = x].poison = r.poison
           /\ [r EXCEPT !.dead_sit = x].dead_sit = x
<1> DEFINE s == [r EXCEPT !.dead_sit = x]
<1>1. s \in Characters
      BY PartChanged
<1>2. /\ s.on = r.on /\ s.base_level = r.base_level
      /\ s.status_point = r.status_point /\ s.attrs = r.attrs /\ s.poison = r.poison
      /\ s.hp = r.hp /\ s.dead_sit = x
      BY DEF Characters
<1> HIDE DEF s
<1>3. Spared(r, s)
      BY <1>1, <1>2 DEF Spared, Alike
<1> QED BY <1>2, <1>3 DEF s

LEMMA ItemHealedLives ==
    ASSUME NEW r \in Characters, NEW hp \in Int, NEW s \in ItemHealed(r, hp)
    PROVE  Lived(r, s) /\ (hp > 0 => s.dead_sit = r.dead_sit /\ s.poison = r.poison)
<1>1. CASE hp > 0
  <2> DEFINE x == Smaller(r.quick + hp, MaxHp - r.hp)
  <2>1. x \in 0 .. MaxHp
        BY <1>1, Parts, Numbers DEF Smaller
  <2>2. s = [r EXCEPT !.quick = x]
        BY <1>1 DEF ItemHealed, Accumulated
  <2> HIDE DEF x
  <2>3. s.dead_sit = r.dead_sit /\ s.poison = r.poison
        BY <2>2 DEF Characters
  <2> QED BY <2>1, <2>2, <2>3, QuickChanged
<1>2. CASE ~(hp > 0)
  <2>1. s \in Healed(r, hp)
        BY <1>2 DEF ItemHealed
  <2> QED BY <1>2, <2>1, HealedLives
<1> QED BY <1>1, <1>2

LEMMA RestedLives ==
    ASSUME NEW r \in Characters, NEW s \in Rested(r)
    PROVE  Lived(r, s)
<1>1. CASE s = r
      BY <1>1 DEF Lived
<1>2. CASE r.hp # MaxHp /\ s = [r EXCEPT !.hp = r.hp + 1]
  <2>1. r.hp + 1 \in 0 .. MaxHp
        BY <1>2, Parts, Numbers
  <2> QED BY <1>2, <2>1, HpChanged
<1> QED BY <1>1, <1>2 DEF Rested

\* pc_natural_heal_sub
LEMMA NaturalHealLives ==
    ASSUME sd \in Characters, NaturalHeal
    PROVE  Lived(sd, sd') /\ regular' = regular
<1> PICK bonus \in 0 .. sd.quick :
            LET rest == [sd EXCEPT !.quick = @ - bonus]
                effects == IF sd.quick = 0 THEN {sd} \cup Healed(sd, 0)
                           ELSE IF bonus = 0 THEN Healed(rest, 0)
                           ELSE UNION {Healed(rest, hp) : hp \in bonus .. MaxHp}
            IN  Lives(UNION {Rested(r) : r \in effects})
    BY DEF NaturalHeal
<1> DEFINE rest == [sd EXCEPT !.quick = @ - bonus]
           effects == IF sd.quick = 0 THEN {sd} \cup Healed(sd, 0)
                      ELSE IF bonus = 0 THEN Healed(rest, 0)
                      ELSE UNION {Healed(rest, hp) : hp \in bonus .. MaxHp}
<1>1. sd.quick - bonus \in 0 .. MaxHp /\ bonus \in Nat
      BY Parts, Numbers
<1>2. Lived(sd, rest) /\ rest \in Characters
      BY <1>1, QuickChanged DEF Lived
<1> HIDE DEF rest
<1>3. PICK r \in effects : sd' \in Rested(r) /\ regular' = regular
      BY DEF Lives, rest
<1>4. Lived(sd, r)
  <2>1. CASE r = sd
        BY <2>1 DEF Lived
  <2>2. CASE r \in Healed(sd, 0)
        BY <2>2, HealedLives
  <2>3. CASE r \in Healed(rest, 0)
    <3>1. Lived(rest, r)
          BY <2>3, <1>2, HealedLives
    <3> QED BY <3>1, <1>2, LivedTwice
  <2>4. CASE \E hp \in bonus .. MaxHp : r \in Healed(rest, hp)
    <3>1. PICK hp \in Int : r \in Healed(rest, hp)
          BY <2>4, <1>1
    <3>2. Lived(rest, r)
          BY <3>1, <1>2, HealedLives
    <3> QED BY <3>2, <1>2, LivedTwice
  <2> QED BY <2>1, <2>2, <2>3, <2>4
<1>5. r \in Characters
      BY <1>4 DEF Lived
<1>6. Lived(r, sd')
      BY <1>3, <1>5, RestedLives
<1> QED BY <1>3, <1>4, <1>6, LivedTwice

\* heal of a script: who had no hp has some now, or it is put off.
LEMMA ScriptHealSpares ==
    ASSUME sd \in Characters, NEW hp \in Int, NEW later \in BOOLEAN, ScriptHeal(hp, later)
    PROVE  Spared(sd, sd') /\ regular' = regular
<1> DEFINE up == [sd EXCEPT !.dead_sit = "stand"]
           r == IF sd.hp < 1 /\ hp > 0 THEN up ELSE sd
<1>1. /\ sd' \in IF later /\ hp > 0 THEN ItemHealed(r, hp) ELSE Healed(r, hp)
      /\ regular' = regular
      BY DEF ScriptHeal, Lives
<1>2. CASE sd.hp < 1 /\ hp > 0
  <2>1. up \in Characters /\ Spared(sd, up) /\ up.hp = sd.hp /\ up.poison = sd.poison
        BY PostureChanged, PartChanged
  <2>2. CASE later
    <3>1. sd' \in ItemHealed(up, hp)
          BY <1>1, <1>2, <2>2
    <3> HIDE DEF up
    <3>2. Lived(up, sd') /\ sd'.poison = up.poison
          BY <1>2, <2>1, <3>1, ItemHealedLives
    <3> QED BY <1>1, <2>1, <3>2 DEF Spared, Alike, Lived
  <2>3. CASE ~later
    <3> DEFINE x == Smaller(up.hp + hp, MaxHp)
    <3>1. sd' \in Healed(up, hp)
          BY <1>1, <1>2, <2>3
    <3> HIDE DEF up
    <3>2. up.hp + hp > 0
          BY <1>2, <2>1, Parts
    <3>3. sd' = [up EXCEPT !.hp = x]
          BY <2>1, <3>1, <3>2, HealedGrows
    <3>4. Lived(up, sd')
          BY <2>1, <3>1, HealedLives
    <3>5. sd'.poison = up.poison
          BY <2>1, <3>3 DEF Characters
    <3> QED BY <1>1, <2>1, <3>4, <3>5 DEF Spared, Alike, Lived
  <2> QED BY <2>2, <2>3
<1>3. CASE ~(sd.hp < 1 /\ hp > 0)
  <2>1. sd' \in ItemHealed(sd, hp) \/ sd' \in Healed(sd, hp)
        BY <1>1, <1>3
  <2>2. Lived(sd, sd')
        BY <2>1, ItemHealedLives, HealedLives
  <2> QED BY <1>1, <2>2, LivedSpares
<1> QED BY <1>2, <1>3

LEMMA RestartValueLives ==
    ASSUME NEW r \in Characters
    PROVE  Lived(r, RestartValue(r))
<1>1. MaxHp \div 2 \in 0 .. MaxHp
      BY Numbers
<1> QED BY <1>1, HpChanged DEF RestartValue

\* What StatusLive is about
LEMMA LivingSpares ==
    ASSUME sd \in Characters, Living
    PROVE  Spared(sd, sd') /\ regular' = regular
<1>1. ASSUME NEW n \in 1 .. MaxHp, Damage(n) PROVE Spared(sd, sd') /\ regular' = regular
      BY <1>1, DamagedLives, LivedSpares DEF Damage, Lives
<1>2. ASSUME NEW hp \in Int, GmHeal(hp) PROVE Spared(sd, sd') /\ regular' = regular
  <2> DEFINE x == IF hp > 0 THEN Smaller(hp, MaxHp - sd.hp) ELSE Larger(hp, 1 - sd.hp)
  <2>1. x \in Int
        BY Parts, Numbers DEF Smaller, Larger
  <2>2. sd' \in Healed(sd, x) /\ regular' = regular
        BY <1>2 DEF GmHeal, Lives
  <2> HIDE DEF x
  <2> QED BY <2>1, <2>2, HealedLives, LivedSpares
<1>3. ASSUME NEW hp \in Int, ItemHeal(hp) PROVE Spared(sd, sd') /\ regular' = regular
      BY <1>3, ItemHealedLives, LivedSpares DEF ItemHeal, Lives
<1>4. ASSUME NEW n \in Int, SetHp(n) PROVE Spared(sd, sd') /\ regular' = regular
  <2>1. n - sd.hp \in Int
        BY Parts
  <2> QED BY <1>4, <2>1, HealedLives, LivedSpares DEF SetHp, Lives
<1>5. ASSUME InjureOther PROVE Spared(sd, sd') /\ regular' = regular
      BY <1>5, PostureChanged DEF InjureOther, Lives
<1>6. ASSUME Alive PROVE Spared(sd, sd') /\ regular' = regular
  <2> DEFINE up == [sd EXCEPT !.dead_sit = "stand"]
  <2>1. /\ up \in Characters /\ Spared(sd, up) /\ up.poison = sd.poison
        BY PostureChanged, PartChanged
  <2>2. sd' = [up EXCEPT !.hp = MaxHp] /\ regular' = regular
    <3>1. sd' = [sd EXCEPT !.dead_sit = "stand", !.hp = MaxHp] /\ regular' = regular
          BY <1>6 DEF Alive, Lives
    <3> QED BY <3>1
  <2> HIDE DEF up
  <2>3. MaxHp \in 0 .. MaxHp
        BY Numbers
  <2>4. Lived(up, sd') /\ sd'.poison = up.poison
        BY <2>1, <2>2, <2>3, HpChanged DEF Characters
  <2> QED BY <2>1, <2>2, <2>4 DEF Spared, Alike, Lived
<1>7. ASSUME Save PROVE Spared(sd, sd') /\ regular' = regular
  <2>1. sd' = sd \/ sd' = RestartValue(sd)
        BY <1>7 DEF Save, Lives
  <2>2. Lived(sd, sd')
        BY <2>1, RestartValueLives DEF Lived
  <2> QED BY <1>7, <2>2, LivedSpares DEF Save, Lives
<1>8. ASSUME NEW how \in {"sit", "stand"}, SitOrStand(how)
      PROVE  Spared(sd, sd') /\ regular' = regular
      BY <1>8, PostureChanged DEF SitOrStand, Lives
<1>9. ASSUME EndSlowPoison \/ StartSlowPoison PROVE Spared(sd, sd') /\ regular' = regular
  <2>1. \/ sd' = SlowPoisonEnded(sd)
        \/ sd' = [sd EXCEPT !.slowpoison = FALSE]
        \/ sd' = [sd EXCEPT !.slowpoison = TRUE,
                            !.opt2 = (@ \ {"poison"}) \cup {"slowpoison"}]
        BY <1>9 DEF EndSlowPoison, StartSlowPoison, Lives
  <2>2. sd' \in Characters
    <3> DEFINE marks == (sd.opt2 \ {"poison"}) \cup {"slowpoison"}
               fewer == (sd.opt2 \ {"slowpoison"}) \cup (IF sd.poison > 0 THEN {"poison"} ELSE {})
    <3>1. sd.opt2 \in SUBSET {"poison", "slowpoison"}
          BY DEF Characters
    <3>2. marks \in SUBSET {"poison", "slowpoison"} /\ fewer \in SUBSET {"poison", "slowpoison"}
          BY <3>1
    <3>3. \/ sd' = [sd EXCEPT !.slowpoison = FALSE, !.opt2 = fewer]
          \/ sd' = [sd EXCEPT !.slowpoison = FALSE]
          \/ sd' = [sd EXCEPT !.slowpoison = TRUE, !.opt2 = marks]
          BY <2>1 DEF SlowPoisonEnded
    <3> HIDE DEF marks, fewer
    <3>4. CASE sd' = [sd EXCEPT !.slowpoison = FALSE, !.opt2 = fewer]
          BY <3>2, <3>4 DEF Characters
    <3>5. CASE sd' = [sd EXCEPT !.slowpoison = FALSE]
          BY <3>5 DEF Characters
    <3>6. CASE sd' = [sd EXCEPT !.slowpoison = TRUE, !.opt2 = marks]
          BY <3>2, <3>6 DEF Characters
    <3> QED BY <3>3, <3>4, <3>5, <3>6
  <2>3. /\ sd'.on = sd.on /\ sd'.dead_sit = sd.dead_sit /\ sd'.base_level = sd.base_level
        /\ sd'.status_point = sd.status_point /\ sd'.attrs = sd.attrs /\ sd'.poison = sd.poison
        BY <2>1 DEF Characters, SlowPoisonEnded
  <2>4. regular' = regular
        BY <1>9 DEF EndSlowPoison, StartSlowPoison, Lives
  <2> QED BY <2>2, <2>3, <2>4 DEF Spared, Alike
<1>10. ASSUME NEW hp \in Int, NEW later \in BOOLEAN, ScriptHeal(hp, later)
       PROVE  Spared(sd, sd') /\ regular' = regular
       BY <1>10, ScriptHealSpares
<1>11. \A n \in 1 .. MaxHp : n \in Int /\ -n \in Int
       BY Numbers
<1> QED BY <1>1, <1>2, <1>3, <1>4, <1>5, <1>6, <1>7, <1>8, <1>9, <1>10, <1>11 DEF Living

LEMMA PoisonedType ==
    ASSUME NEW r \in Characters, NEW val1 \in 1 .. MaxPoison
    PROVE  /\ Poisoned(r, val1) \in Characters
           /\ Alike(r, Poisoned(r, val1)) /\ Poisoned(r, val1).on = r.on
<1> DEFINE marks == IF r.slowpoison THEN r.opt2 ELSE r.opt2 \cup {"poison"}
<1>1. Poisoned(r, val1) = [r EXCEPT !.poison = val1, !.opt2 = marks]
      BY DEF Poisoned
<1>2. marks \in SUBSET {"poison", "slowpoison"}
      BY DEF Characters
<1>3. val1 \in 0 .. MaxPoison
      BY Numbers
<1> HIDE DEF marks
<1>4. Poisoned(r, val1) \in Characters
      BY <1>1, <1>2, <1>3 DEF Characters
<1>5. /\ Poisoned(r, val1).on = r.on /\ Poisoned(r, val1).base_level = r.base_level
      /\ Poisoned(r, val1).status_point = r.status_point /\ Poisoned(r, val1).attrs = r.attrs
      BY <1>1 DEF Characters
<1> QED BY <1>4, <1>5 DEF Alike

\* The steps of poison and of those who leave and come
LEMMA PoisonAlike ==
    ASSUME sd \in Characters,
           \/ \E val1 \in 1 .. MaxPoison : StartPoison(val1)
           \/ EndPoison
    PROVE  Alike(sd, sd') /\ sd'.on = sd.on /\ regular' = regular
<1>1. \/ \E val1 \in 1 .. MaxPoison : sd' = Poisoned(sd, val1)
      \/ sd' = PoisonEnded(sd)
      BY DEF StartPoison, EndPoison, Lives
<1>2. 0 \in 0 .. MaxPoison
      BY Numbers
<1>3. sd' \in Characters
  <2>1. CASE sd' = PoisonEnded(sd)
        BY <2>1, <1>2 DEF Characters, PoisonEnded
  <2>2. ASSUME NEW val1 \in 1 .. MaxPoison, sd' = Poisoned(sd, val1) PROVE sd' \in Characters
        BY <2>2, PoisonedType
  <2> QED BY <1>1, <2>1, <2>2
<1>4. /\ sd'.on = sd.on /\ sd'.base_level = sd.base_level
      /\ sd'.status_point = sd.status_point /\ sd'.attrs = sd.attrs
      BY <1>1 DEF Characters, Poisoned, PoisonEnded
<1> QED BY <1>3, <1>4 DEF Alike, StartPoison, EndPoison, Lives

LEMMA PoisonTimerAlike ==
    ASSUME sd \in Characters, PoisonTimer
    PROVE  /\ Alike(sd, sd') /\ sd'.on = sd.on /\ regular' = regular
           /\ sd'.poison # 0 => Spared(sd, sd')
<1>1. sd.poison > 0 /\ regular' = regular
      BY DEF PoisonTimer, Lives
<1>2. CASE sd' = sd
      BY <1>1, <1>2 DEF Alike, Spared
<1>3. CASE sd' = PoisonEnded(sd)
  <2>1. 0 \in 0 .. MaxPoison
        BY Numbers
  <2>2. sd' \in Characters
        BY <1>3, <2>1 DEF Characters, PoisonEnded
  <2>3. /\ sd'.on = sd.on /\ sd'.base_level = sd.base_level
        /\ sd'.status_point = sd.status_point /\ sd'.attrs = sd.attrs /\ sd'.poison = 0
        BY <1>3 DEF Characters, PoisonEnded
  <2> QED BY <1>1, <2>2, <2>3 DEF Alike
<1>4. CASE /\ sd' # sd /\ sd' # PoisonEnded(sd)
  <2> DEFINE ticking == [sd EXCEPT !.poison = 0]
             hurt == IF sd.hp > MaxHp \div 16
                     THEN Healed(ticking, -(3 + (MaxHp * 3) \div 200)) ELSE {ticking}
  <2>1. PICK weaker \in 0 .. sd.poison - 1 : /\ weaker # 0
                                             /\ sd' \in {[r EXCEPT !.poison = weaker] : r \in hurt}
        BY <1>4 DEF PoisonTimer, Lives
  <2>2. PICK r \in hurt : sd' = [r EXCEPT !.poison = weaker]
        BY <2>1
  <2>3. ticking \in Characters
    <3>1. 0 \in 0 .. MaxPoison
          BY Numbers
    <3> QED BY <3>1, PartChanged
  <2>4. /\ ticking.on = sd.on /\ ticking.base_level = sd.base_level
        /\ ticking.status_point = sd.status_point /\ ticking.attrs = sd.attrs
        BY DEF Characters
  <2>5. -(3 + (MaxHp * 3) \div 200) \in Int
        BY Numbers
  <2>6. Lived(ticking, r)
    <3> HIDE DEF ticking
    <3>1. CASE r = ticking
          BY <3>1, <2>3 DEF Lived
    <3>2. CASE r # ticking
      <4>1. r \in Healed(ticking, -(3 + (MaxHp * 3) \div 200))
            BY <3>2
      <4> QED BY <4>1, <2>3, <2>5, HealedLives
    <3> QED BY <3>1, <3>2
  <2> HIDE DEF ticking, hurt
  <2>7. r \in Characters
        BY <2>6 DEF Lived
  <2>8. weaker \in 0 .. MaxPoison /\ weaker > 0
        BY <2>1, Parts, Numbers
  <2>9. sd' \in Characters
        BY <2>2, <2>7, <2>8, PartChanged
  <2>10. /\ sd'.on = r.on /\ sd'.base_level = r.base_level
         /\ sd'.status_point = r.status_point /\ sd'.attrs = r.attrs /\ sd'.poison = weaker
        BY <2>2, <2>7 DEF Characters
  <2>11. Alike(sd, sd') /\ sd'.on = sd.on
        BY <2>4, <2>6, <2>9, <2>10 DEF Lived, Alike
  <2> QED BY <1>1, <2>8, <2>10, <2>11 DEF Spared
<1> QED BY <1>2, <1>3, <1>4

-----------------------------------------------------------------------------
(* The steps of growth. *)

\* What StatusPointsAccounted says of a character that is regular
Accounted(r) == r.status_point + Costs(r.attrs) = stat_p[r.base_level]

PlayersInv ==
    /\ sd \in Characters /\ regular \in BOOLEAN
    /\ regular => Accounted(sd)

\* It stays a character, and its account stays right.
Kept(r, s) ==
    /\ s \in Characters /\ s.on = r.on
    /\ Accounted(r) => Accounted(s)

LEMMA AccountedIs ==
    ASSUME TypeOK
    PROVE  StatusPointsAccounted <=> (regular => Accounted(sd))
<1>1. sd.attrs \in [ATTRs -> 1 .. MaxParameter]
      BY DEF TypeOK, Characters
<1>2. SumOver(ATTRs, LAMBDA a : Cost[sd.attrs[a]]) = Costs(sd.attrs)
      BY <1>1, SumOfCosts
<1> QED BY <1>2 DEF StatusPointsAccounted, Accounted

LEMMA AlikeKept ==
    ASSUME NEW r, NEW s, Alike(r, s), s.on = r.on
    PROVE  Kept(r, s)
BY DEF Alike, Kept, Accounted

LEMMA LivedKept ==
    ASSUME NEW r, NEW s, Lived(r, s)
    PROVE  Kept(r, s)
BY DEF Lived, Kept, Accounted

LEMMA RisenKept ==
    ASSUME NEW r \in Characters, NEW s, Risen(r, s)
    PROVE  Kept(r, s)
<1>1. s \in Characters
      BY DEF Risen
<1>2. r.status_point \in Int /\ stat_p[r.base_level] \in Int /\ stat_p[s.base_level] \in Int
      BY <1>1, LevelOf
<1>3. Costs(r.attrs) \in Int
  <2>1. r.attrs \in [ATTRs -> 1 .. MaxParameter]
        BY Parts
  <2>2. Costs(r.attrs) \in Nat
        BY <2>1, SumOfCosts
  <2> QED BY <2>2
<1> QED BY <1>1, <1>2, <1>3 DEF Risen, Kept, Accounted

\* Fields that no account is about
LEMMA GrowthChanged ==
    ASSUME NEW r \in Characters
    PROVE  /\ \A x \in Nat : Kept(r, [r EXCEPT !.base_exp = x])
           /\ \A x \in Int : Kept(r, [r EXCEPT !.skill_point = x])
           /\ \A s \in Skills, lv \in Nat : Kept(r, [r EXCEPT !.skill[s] = lv])
           /\ \A x \in Int, skill \in [Skills -> Nat] :
                 Kept(r, [r EXCEPT !.skill_point = x, !.skill = skill])
           /\ \A level \in Nat \ {0}, x \in Int :
                 Kept(r, [r EXCEPT !.job_level = level, !.skill_point = x])
           /\ \A level \in Nat \ {0}, exp \in Nat, x \in Int :
                 Kept(r, [r EXCEPT !.job_level = level, !.job_exp = exp, !.skill_point = x])
<1>1. ASSUME NEW x \in Nat PROVE Kept(r, [r EXCEPT !.base_exp = x])
      BY DEF Kept, Accounted, Characters
<1>2. ASSUME NEW x \in Int PROVE Kept(r, [r EXCEPT !.skill_point = x])
      BY DEF Kept, Accounted, Characters
<1>3. ASSUME NEW s \in Skills, NEW lv \in Nat PROVE Kept(r, [r EXCEPT !.skill[s] = lv])
  <2>1. [r.skill EXCEPT ![s] = lv] \in [Skills -> Nat]
        BY Parts
  <2>2. [r EXCEPT !.skill = [r.skill EXCEPT ![s] = lv]] = [r EXCEPT !.skill[s] = lv]
        OBVIOUS
  <2> QED BY <2>1, <2>2 DEF Kept, Accounted, Characters
<1>4. ASSUME NEW x \in Int, NEW skill \in [Skills -> Nat]
      PROVE  Kept(r, [r EXCEPT !.skill_point = x, !.skill = skill])
      BY DEF Kept, Accounted, Characters
<1>5. ASSUME NEW level \in Nat \ {0}, NEW x \in Int
      PROVE  Kept(r, [r EXCEPT !.job_level = level, !.skill_point = x])
      BY DEF Kept, Accounted, Characters
<1>6. ASSUME NEW level \in Nat \ {0}, NEW exp \in Nat, NEW x \in Int
      PROVE  Kept(r, [r EXCEPT !.job_level = level, !.job_exp = exp, !.skill_point = x])
      BY DEF Kept, Accounted, Characters
<1> QED BY <1>1, <1>2, <1>3, <1>4, <1>5, <1>6

\* pc_gainexp_reason
LEMMA GainExpKept ==
    ASSUME sd \in Characters, NEW base \in Gains \cup {0}, NEW job \in Gains \cup {0},
           GainExp(base, job)
    PROVE  Risen(sd, sd') /\ Kept(sd, sd') /\ regular' = regular
<1>1. base \in Nat /\ job \in Nat
      BY PlayersAssumption
<1>2. sd' = Gained(sd, base, job) /\ regular' = regular
      BY DEF GainExp, Grows
<1>3. Risen(sd, sd')
      BY <1>1, <1>2, GainedRises
<1> QED BY <1>2, <1>3, RisenKept

\* pc_statusup: the point that a parameter costs is paid.
LEMMA StatusUpKept ==
    ASSUME sd \in Characters, NEW a \in {"STR", "VIT"}, StatusUp(a)
    PROVE  Kept(sd, sd') /\ regular' = regular
<1> DEFINE need == NeedStatusPoint(sd.attrs[a])
           more == [sd.attrs EXCEPT ![a] = @ + 1]
<1>1. /\ need <= sd.status_point /\ sd.attrs[a] < MaxParameter
      /\ sd' = [sd EXCEPT !.attrs[a] = @ + 1, !.status_point = @ - need]
      /\ regular' = regular
      BY DEF StatusUp, Grows
<1>2. sd.attrs \in [ATTRs -> 1 .. MaxParameter] /\ a \in ATTRs /\ sd.attrs[a] \in 1 .. MaxParameter
      BY Parts DEF ATTRs
<1>3. sd.attrs[a] + 1 \in 1 .. MaxParameter /\ sd.attrs[a] \in 1 .. MaxParameter - 1
      BY <1>1, <1>2, Numbers
<1>4. more \in [ATTRs -> 1 .. MaxParameter]
      BY <1>2, <1>3
<1>5. need \in Nat
      BY <1>2, Numbers DEF NeedStatusPoint
<1>6. Cost[sd.attrs[a] + 1] = Cost[sd.attrs[a]] + need
      BY <1>3, CostNext
<1>7. \A x \in ATTRs : Cost[sd.attrs[x]] \in Nat
      BY <1>2, CostType
<1>8. Costs(more) = Costs(sd.attrs) + need
  <2>1. \A x \in ATTRs : more[x] = IF x = a THEN sd.attrs[a] + 1 ELSE sd.attrs[x]
        BY <1>2
  <2> HIDE DEF more, need
  <2>2. CASE a = "STR"
    <3>1. /\ more["STR"] = sd.attrs["STR"] + 1
          /\ more["AGI"] = sd.attrs["AGI"] /\ more["VIT"] = sd.attrs["VIT"]
          /\ more["INT"] = sd.attrs["INT"] /\ more["DEX"] = sd.attrs["DEX"]
          /\ more["LUK"] = sd.attrs["LUK"]
          BY <2>1, <2>2 DEF ATTRs
    <3>2. Cost[more["STR"]] = Cost[sd.attrs["STR"]] + need
          BY <1>6, <2>2, <3>1
    <3> QED BY <3>1, <3>2, <1>5, <1>7 DEF Costs, ATTRs
  <2>3. CASE a = "VIT"
    <3>1. /\ more["VIT"] = sd.attrs["VIT"] + 1
          /\ more["AGI"] = sd.attrs["AGI"] /\ more["STR"] = sd.attrs["STR"]
          /\ more["INT"] = sd.attrs["INT"] /\ more["DEX"] = sd.attrs["DEX"]
          /\ more["LUK"] = sd.attrs["LUK"]
          BY <2>1, <2>3 DEF ATTRs
    <3>2. Cost[more["VIT"]] = Cost[sd.attrs["VIT"]] + need
          BY <1>6, <2>3, <3>1
    <3> QED BY <3>1, <3>2, <1>5, <1>7 DEF Costs, ATTRs
  <2> QED BY <2>2, <2>3
<1>9. sd' = [sd EXCEPT !.attrs = more, !.status_point = @ - need]
      BY <1>1
<1>10. sd.status_point \in Nat /\ sd.status_point - need \in Nat /\ Costs(sd.attrs) \in Nat
  <2>1. Costs(sd.attrs) \in Nat
        BY <1>2, SumOfCosts
  <2>2. sd.status_point \in Nat
        BY Parts
  <2> HIDE DEF need
  <2> QED BY <1>1, <1>5, <2>1, <2>2
<1> HIDE DEF more, need
<1>11. /\ sd' \in Characters /\ sd'.on = sd.on /\ sd'.attrs = more
       /\ sd'.status_point = sd.status_point - need /\ sd'.base_level = sd.base_level
       BY <1>4, <1>9, <1>10 DEF Characters
<1>12. sd'.status_point + Costs(sd'.attrs) = sd.status_point + Costs(sd.attrs)
       BY <1>5, <1>8, <1>10, <1>11
<1> QED BY <1>1, <1>11, <1>12 DEF Kept, Accounted

\* SP::BASELEVEL: a level that is taken away leaves its points.
LEMMA SetBaseLevelKept ==
    ASSUME PlayersInv, NEW val \in Levels, SetBaseLevel(val)
    PROVE  PlayersInv' /\ sd'.on = sd.on
<1> DEFINE level == Smaller(val, MaxLevel)
           r == [sd EXCEPT !.base_exp = 0]
           low == [r EXCEPT !.base_level = level]
<1>1. level \in 1 .. MaxLevel
      BY Numbers, PlayersAssumption DEF Smaller
<1>2. sd \in Characters /\ sd.base_level \in 1 .. MaxLevel
      BY Parts DEF PlayersInv
<1>3. Kept(sd, r) /\ r \in Characters /\ r.base_level = sd.base_level
      BY <1>2, GrowthChanged DEF Kept, Characters
<1>4. IF level > sd.base_level
      THEN sd' \in Lifted(r, level) /\ regular' = regular
      ELSE /\ sd' \in Healed(low, MaxHp)
           /\ regular' = (regular /\ level = sd.base_level)
      BY DEF SetBaseLevel, Grows
<1>5. low \in Characters /\ low.on = r.on /\ (level = sd.base_level => low = r)
      BY <1>1, <1>3 DEF Characters
<1> HIDE DEF r, level, low
<1>6. CASE level > sd.base_level
  <2>1. r.base_level <= level
        BY <1>1, <1>2, <1>3, <1>6, Numbers
  <2>2. Risen(r, sd') /\ regular' = regular
        BY <1>1, <1>3, <1>4, <1>6, <2>1, LiftedRises
  <2>3. Kept(r, sd')
        BY <1>3, <2>2, RisenKept
  <2> QED BY <1>3, <2>2, <2>3 DEF PlayersInv, Kept
<1>7. CASE ~(level > sd.base_level)
  <2>1. Kept(low, sd')
    <3>1. sd' \in Healed(low, MaxHp) /\ MaxHp \in Int
          BY <1>4, <1>7, Numbers
    <3>2. Lived(low, sd')
          BY <1>5, <3>1, HealedLives
    <3> QED BY <3>2, LivedKept
  <2>2. regular' \in BOOLEAN /\ (regular' => regular /\ level = sd.base_level)
        BY <1>4, <1>7 DEF PlayersInv
  <2>3. regular' => Accounted(low)
        BY <1>3, <1>5, <2>2 DEF PlayersInv, Kept
  <2> QED BY <1>3, <1>5, <2>1, <2>2, <2>3 DEF PlayersInv, Kept
<1> QED BY <1>6, <1>7

\* SP::JOBLEVEL, @jlvl
LEMMA JobLevelKept ==
    ASSUME sd \in Characters,
           \/ \E val \in Levels : SetJobLevel(val)
           \/ \E by \in Gains : JobLevel(by) \/ CharJobLevel(-by)
    PROVE  Kept(sd, sd') /\ regular' = regular
<1>1. sd.job_level \in Nat \ {0} /\ sd.skill_point \in Int
      BY Parts
<1>2. ASSUME NEW val \in Levels, SetJobLevel(val) PROVE Kept(sd, sd') /\ regular' = regular
  <2> DEFINE more == Larger(0, Smaller(val, MaxLevel) - sd.job_level)
  <2>1. sd' = [sd EXCEPT !.job_level = Smaller(val, MaxLevel), !.job_exp = 0,
                         !.skill_point = sd.skill_point + more] /\ regular' = regular
        BY <1>2 DEF SetJobLevel, Grows
  <2>2. Smaller(val, MaxLevel) \in Nat \ {0} /\ sd.skill_point + more \in Int /\ 0 \in Nat
        BY <1>1, Numbers, PlayersAssumption DEF Smaller, Larger
  <2> HIDE DEF more
  <2> QED BY <2>1, <2>2, GrowthChanged
<1>3. ASSUME NEW by \in Int, JobLevel(by) PROVE Kept(sd, sd') /\ regular' = regular
  <2> DEFINE level == IF by > 0 THEN Smaller(sd.job_level + by, JobCap)
                                ELSE Larger(1, sd.job_level + by)
             by2 == level - sd.job_level
             points == IF by > 0 THEN sd.skill_point + by2
                       ELSE IF sd.skill_point > 0 THEN Larger(0, sd.skill_point + by2)
                            ELSE sd.skill_point
  <2>1. sd' = [sd EXCEPT !.job_level = level, !.skill_point = points] /\ regular' = regular
        BY <1>3 DEF JobLevel, Grows
  <2>2. level \in Nat \ {0}
        BY <1>1, Numbers DEF Smaller, Larger
  <2> HIDE DEF level
  <2>3. points \in Int
        BY <1>1, <2>2 DEF Larger
  <2> HIDE DEF points
  <2> QED BY <2>1, <2>2, <2>3, GrowthChanged
<1>4. \A by \in Gains : by \in Int /\ -by \in Int
      BY PlayersAssumption
<1> QED BY <1>2, <1>3, <1>4 DEF CharJobLevel

\* SP::BASEEXP, SP::JOBEXP
LEMMA SetExpKept ==
    ASSUME sd \in Characters, NEW val \in Values, SetBaseExp(val) \/ SetJobExp(val)
    PROVE  /\ Kept(sd, sd') /\ regular' = regular
           /\ sd'.attrs = sd.attrs /\ sd'.poison = sd.poison
           /\ SetJobExp(val) => sd'.base_level = sd.base_level
<1>1. val \in Nat
      BY PlayersAssumption
<1>2. ASSUME SetBaseExp(val) PROVE Risen(sd, sd') /\ regular' = regular
  <2> DEFINE r == [sd EXCEPT !.base_exp = val]
  <2>1. r \in Characters
        BY <1>1 DEF Characters
  <2>2. Risen(sd, r)
    <3>1. /\ r.on = sd.on /\ r.dead_sit = sd.dead_sit /\ r.poison = sd.poison
          /\ r.attrs = sd.attrs /\ r.base_level = sd.base_level
          /\ r.status_point = sd.status_point
          BY DEF Characters
    <3> HIDE DEF r
    <3> QED BY <2>1, <3>1, RisenNot
  <2>3. sd' = CheckBaseLevelUp(r) /\ regular' = regular
        BY <1>2 DEF SetBaseExp, Grows
  <2> HIDE DEF r
  <2> QED BY <2>1, <2>2, <2>3, CheckBaseLevelUpRises, RisenTwice
<1>3. ASSUME SetJobExp(val)
      PROVE  Risen(sd, sd') /\ regular' = regular /\ sd'.base_level = sd.base_level
  <2> DEFINE r == [sd EXCEPT !.job_exp = val]
  <2>1. r \in Characters /\ r.base_level = sd.base_level
        BY <1>1 DEF Characters
  <2>2. Risen(sd, r)
    <3>1. /\ r.on = sd.on /\ r.dead_sit = sd.dead_sit /\ r.poison = sd.poison
          /\ r.attrs = sd.attrs /\ r.base_level = sd.base_level
          /\ r.status_point = sd.status_point
          BY DEF Characters
    <3> HIDE DEF r
    <3> QED BY <2>1, <3>1, RisenNot
  <2>3. sd' = CheckJobLevelUp(r) /\ regular' = regular
        BY <1>3 DEF SetJobExp, Grows
  <2> HIDE DEF r
  <2>4. Risen(r, sd') /\ sd'.base_level = r.base_level
        BY <2>1, <2>3, CheckJobLevelUpRises
  <2> QED BY <2>1, <2>2, <2>3, <2>4, RisenTwice
<1>4. Risen(sd, sd') /\ regular' = regular
      BY <1>2, <1>3
<1> QED BY <1>3, <1>4, RisenKept DEF Risen

\* pc_resetstate: the points of the level, and nothing that is bought
LEMMA ResetStateAccounted ==
    ASSUME NEW r \in Characters
    PROVE  ResetState(r) \in Characters /\ Accounted(ResetState(r)) /\ ResetState(r).on = r.on
<1> DEFINE s == ResetState(r)
           none == [a \in ATTRs |-> 1]
<1>1. s = [r EXCEPT !.status_point = stat_p[r.base_level], !.attrs = none]
      BY DEF ResetState
<1>2. stat_p[r.base_level] \in Nat
      BY LevelOf
<1>3. none \in [ATTRs -> 1 .. MaxParameter]
      BY Numbers
<1>4. Costs(none) = 0
      BY CostNext DEF Costs, ATTRs
<1> HIDE DEF s, none
<1>5. s \in Characters
      BY <1>1, <1>2, <1>3 DEF Characters
<1>6. s.status_point = stat_p[r.base_level] /\ s.attrs = none /\ s.base_level = r.base_level
      /\ s.on = r.on
      BY <1>1 DEF Characters
<1>7. Accounted(s)
      BY <1>2, <1>4, <1>6 DEF Accounted
<1> QED BY <1>5, <1>6, <1>7 DEF s

\* pc_resetskill
LEMMA ResetSkillKept ==
    ASSUME NEW r \in Characters
    PROVE  Kept(r, ResetSkill(r))
<1> DEFINE S == {s \in PoolSkills : r.skill[s] > 0}
           c == [s \in S |-> RaiseCost(r.skill[s]) - 1]
           F(g) == [T \in SUBSET S |-> IF T = {} THEN 0
                                       ELSE LET x == CHOOSE y \in T : TRUE
                                            IN (RaiseCost(r.skill[x]) - 1) + g[T \ {x}]]
           plus == CHOOSE g : g = F(g)
           none == [s \in Skills |-> 0]
<1>1. r.skill \in [Skills -> Nat] /\ r.skill_point \in Int
      BY Parts
<1>2. IsFiniteSet(S)
  <2>1. S \subseteq Skills /\ IsFiniteSet(Skills)
        BY PlayersAssumption
  <2> QED BY <2>1, FS_Subset
<1>3. c \in [S -> Int]
  <2>1. ASSUME NEW s \in S PROVE RaiseCost(r.skill[s]) - 1 \in Int
    <3>1. r.skill[s] \in Int
          BY <1>1, PlayersAssumption
    <3> QED BY <3>1 DEF RaiseCost
  <2> QED BY <2>1
<1>4. \A g : IsSum(g, S, c) <=> g = F(g)
  <2> TAKE g
  <2>1. ASSUME NEW T \in SUBSET S, T # {}
        PROVE  c[CHOOSE y \in T : TRUE] = RaiseCost(r.skill[CHOOSE y \in T : TRUE]) - 1
    <3> DEFINE x == CHOOSE y \in T : TRUE
    <3>1. x \in S
          BY <2>1
    <3> HIDE DEF x
    <3>2. c[x] = RaiseCost(r.skill[x]) - 1
      <4> HIDE DEF S
      <4> QED BY <3>1
    <3> QED BY <3>2 DEF x
  <2> HIDE DEF c, S
  <2> QED BY <2>1 DEF IsSum
<1>5. IsSum(plus, S, c)
  <2>1. \E g : IsSum(g, S, c)
    <3> HIDE DEF S, c
    <3> QED BY <1>2, SumExists
  <2> HIDE DEF F
  <2> QED BY <2>1, <1>4
<1> HIDE DEF plus
<1>6. plus[S] \in Int
  <2> HIDE DEF S, c
  <2> QED BY <1>2, <1>3, <1>5, SumType
<1>7. ResetSkill(r) = [r EXCEPT !.skill_point = r.skill_point + plus[S], !.skill = none]
      BY DEF ResetSkill, SumOver, plus
<1>8. r.skill_point + plus[S] \in Int /\ none \in [Skills -> Nat]
      BY <1>1, <1>6
<1> DEFINE points == r.skill_point + plus[S]
<1> HIDE DEF S, none
<1>9. \A x \in Int, skill \in [Skills -> Nat] :
         Kept(r, [r EXCEPT !.skill_point = x, !.skill = skill])
      BY GrowthChanged
<1>10. points \in Int /\ ResetSkill(r) = [r EXCEPT !.skill_point = points, !.skill = none]
       BY <1>7, <1>8
<1> HIDE DEF points
<1> QED BY <1>8, <1>9, <1>10

\* Points and skills that are given or taken as such
PointsSet ==
    \/ \E val \in Values : SetStatusPoint(val) \/ SetSkillPoint(val)
    \/ \E by \in Gains :
          StatusPoint(by) \/ CharStPoint(-by) \/ SkillPoint(-by) \/ CharSkPoint(by)
    \/ \E s \in Skills : QuestSkill(s) \/ LostSkill(s)
    \/ \E s \in Skills, lv \in 0 .. 3 : SetSkill(s, lv)

LEMMA PointsSetKept ==
    ASSUME PlayersInv, PointsSet
    PROVE  /\ PlayersInv' /\ sd'.on = sd.on
           /\ sd'.attrs = sd.attrs /\ sd'.base_level = sd.base_level /\ sd'.poison = sd.poison
<1> DEFINE Same == /\ sd'.on = sd.on /\ sd'.attrs = sd.attrs
                   /\ sd'.base_level = sd.base_level /\ sd'.poison = sd.poison
<1>1. sd \in Characters /\ sd.status_point \in Nat /\ sd.skill_point \in Int
      BY Parts DEF PlayersInv
<1>2. ASSUME NEW val \in Nat, SetStatusPoint(val) PROVE PlayersInv' /\ Same
  <2>1. sd' = [sd EXCEPT !.status_point = val] /\ regular' = FALSE
        BY <1>2 DEF SetStatusPoint, Grows, Irregular
  <2>2. sd' \in Characters /\ Same
        BY <1>1, <2>1 DEF Characters
  <2> QED BY <2>1, <2>2 DEF PlayersInv
<1>3. ASSUME NEW val \in Int, SetSkillPoint(val) PROVE PlayersInv' /\ Same
  <2>1. sd' = [sd EXCEPT !.skill_point = val] /\ regular' = regular
        BY <1>3 DEF SetSkillPoint, Grows
  <2>2. Kept(sd, sd')
    <3>1. \A x \in Int : Kept(sd, [sd EXCEPT !.skill_point = x])
          BY <1>1, GrowthChanged
    <3> QED BY <2>1, <3>1
  <2>3. Same
        BY <1>1, <2>1 DEF Characters
  <2> QED BY <2>1, <2>2, <2>3 DEF PlayersInv, Kept
<1>4. ASSUME NEW s \in Skills, NEW lv \in Nat,
             sd' = [sd EXCEPT !.skill[s] = lv], regular' = regular
      PROVE  PlayersInv' /\ Same
  <2>1. Kept(sd, sd')
    <3>1. \A x \in Nat : Kept(sd, [sd EXCEPT !.skill[s] = x])
          BY <1>1, GrowthChanged
    <3> QED BY <1>4, <3>1
  <2>2. Same
        BY <1>1, <1>4 DEF Characters
  <2> QED BY <1>4, <2>1, <2>2 DEF PlayersInv, Kept
<1>5. ASSUME NEW by \in Int, StatusPoint(by) PROVE PlayersInv' /\ Same
  <2>1. Larger(0, sd.status_point + by) \in Nat
        BY <1>1 DEF Larger
  <2>2. SetStatusPoint(Larger(0, sd.status_point + by))
        BY <1>5 DEF StatusPoint
  <2> HIDE DEF Same
  <2> QED BY <1>2, <2>1, <2>2
<1>6. ASSUME NEW by \in Int, SkillPoint(by) PROVE PlayersInv' /\ Same
  <2>1. Larger(0, sd.skill_point + by) \in Int
        BY <1>1 DEF Larger
  <2>2. SetSkillPoint(Larger(0, sd.skill_point + by))
        BY <1>6 DEF SkillPoint
  <2> HIDE DEF Same
  <2> QED BY <1>3, <2>1, <2>2
<1>7. CASE \E val \in Values : SetStatusPoint(val) \/ SetSkillPoint(val)
  <2>1. PICK val \in Values : SetStatusPoint(val) \/ SetSkillPoint(val)
        BY <1>7
  <2>2. val \in Nat /\ val \in Int
        BY PlayersAssumption
  <2>3. CASE SetStatusPoint(val)
        BY <1>2, <2>2, <2>3
  <2>4. CASE SetSkillPoint(val)
        BY <1>3, <2>2, <2>4
  <2> QED BY <2>1, <2>3, <2>4
<1>8. CASE \E by \in Gains :
              StatusPoint(by) \/ CharStPoint(-by) \/ SkillPoint(-by) \/ CharSkPoint(by)
  <2>1. PICK by \in Gains :
                StatusPoint(by) \/ StatusPoint(-by) \/ SkillPoint(-by) \/ SkillPoint(by)
        BY <1>8 DEF CharStPoint, CharSkPoint
  <2>2. by \in Int /\ -by \in Int
        BY PlayersAssumption
  <2>3. CASE StatusPoint(by)
        BY <1>5, <2>2, <2>3
  <2>4. CASE StatusPoint(-by)
        BY <1>5, <2>2, <2>4
  <2>5. CASE SkillPoint(-by)
        BY <1>6, <2>2, <2>5
  <2>6. CASE SkillPoint(by)
        BY <1>6, <2>2, <2>6
  <2> QED BY <2>1, <2>3, <2>4, <2>5, <2>6
<1>9. CASE \E s \in Skills : QuestSkill(s) \/ LostSkill(s)
  <2>1. PICK s \in Skills, lv \in {0, 1} : sd' = [sd EXCEPT !.skill[s] = lv] /\ regular' = regular
        BY <1>9 DEF QuestSkill, LostSkill, Grows
  <2> QED BY <1>4, <2>1
<1>10. CASE \E s \in Skills, lv \in 0 .. 3 : SetSkill(s, lv)
  <2>1. PICK s \in Skills, lv \in 0 .. 3 : sd' = [sd EXCEPT !.skill[s] = lv] /\ regular' = regular
        BY <1>10 DEF SetSkill, Grows
  <2> QED BY <1>4, <2>1
<1> QED BY <1>7, <1>8, <1>9, <1>10 DEF PointsSet, Same

\* pc_skillup
LEMMA SkillUpKept ==
    ASSUME sd \in Characters, NEW s \in Skills, SkillUp(s)
    PROVE  Kept(sd, sd') /\ regular' = regular
<1>1. sd.skill \in [Skills -> Nat] /\ sd.skill_point \in Int
      BY Parts
<1>2. sd' = [sd EXCEPT !.skill[s] = @ + 1, !.skill_point = @ - sd.skill[s]] /\ regular' = regular
      BY DEF SkillUp, Grows
<1> DEFINE points == sd.skill_point - sd.skill[s]
           skill == [sd.skill EXCEPT ![s] = @ + 1]
<1>3. points \in Int /\ skill \in [Skills -> Nat]
      BY <1>1
<1>4. sd' = [sd EXCEPT !.skill_point = points, !.skill = skill]
  <2>1. sd' = [sd EXCEPT !.skill = skill, !.skill_point = points]
        BY <1>2
  <2> HIDE DEF points, skill
  <2> QED BY <2>1 DEF Characters
<1> HIDE DEF points, skill
<1>5. \A x \in Int, y \in [Skills -> Nat] : Kept(sd, [sd EXCEPT !.skill_point = x, !.skill = y])
      BY GrowthChanged
<1>6. Kept(sd, [sd EXCEPT !.skill_point = points, !.skill = skill])
      BY <1>3, <1>5
<1> QED BY <1>2, <1>4, <1>6

\* Parameters that are set are not paid.
LEMMA AttrsSetKept ==
    ASSUME PlayersInv,
           \/ \E a \in {"STR", "VIT"} : \E val \in Values : SetAttr(a, val)
           \/ \E by \in Gains : AllStats(by) \/ AllStats(-by)
    PROVE  PlayersInv' /\ sd'.on = sd.on
<1>1. sd \in Characters /\ sd.attrs \in [ATTRs -> 1 .. MaxParameter]
      BY Parts DEF PlayersInv
<1>2. \A val \in Int : Clamped(val, 1, MaxParameter) \in 1 .. MaxParameter
      BY Numbers DEF Clamped, Larger, Smaller
<1>3. ASSUME NEW attrs \in [ATTRs -> 1 .. MaxParameter], sd' = [sd EXCEPT !.attrs = attrs],
             regular' = FALSE
      PROVE  PlayersInv' /\ sd'.on = sd.on
  <2>1. sd' \in Characters /\ sd'.on = sd.on
        BY <1>1, <1>3 DEF Characters
  <2> QED BY <1>3, <2>1 DEF PlayersInv
<1>4. ASSUME NEW a \in {"STR", "VIT"}, NEW val \in Values, SetAttr(a, val)
      PROVE  PlayersInv' /\ sd'.on = sd.on
  <2> DEFINE attrs == [sd.attrs EXCEPT ![a] = Clamped(val, 1, MaxParameter)]
  <2>1. attrs \in [ATTRs -> 1 .. MaxParameter]
    <3>1. val \in Int
          BY PlayersAssumption
    <3>2. Clamped(val, 1, MaxParameter) \in 1 .. MaxParameter
          BY <1>2, <3>1
    <3> QED BY <1>1, <3>2
  <2>2. sd' = [sd EXCEPT !.attrs = attrs] /\ regular' = FALSE
        BY <1>4 DEF SetAttr, Grows, Irregular
  <2> HIDE DEF attrs
  <2> QED BY <1>3, <2>1, <2>2
<1>5. ASSUME NEW by \in Int, AllStats(by) PROVE PlayersInv' /\ sd'.on = sd.on
  <2> DEFINE attrs == [a \in ATTRs |-> Clamped(sd.attrs[a] + by, 1, MaxParameter)]
  <2>1. attrs \in [ATTRs -> 1 .. MaxParameter]
    <3>1. \A a \in ATTRs : sd.attrs[a] + by \in Int
          BY <1>1, Numbers
    <3> QED BY <1>2, <3>1
  <2>2. sd' = [sd EXCEPT !.attrs = attrs] /\ regular' = FALSE
        BY <1>5 DEF AllStats, Grows, Irregular
  <2> HIDE DEF attrs
  <2> QED BY <1>3, <2>1, <2>2
<1>6. \A by \in Gains : by \in Int /\ -by \in Int
      BY PlayersAssumption
<1> QED BY <1>4, <1>5, <1>6

\* What @blvl leaves of a character that loses levels has the points of the lower
\* level, if it had enough of them left.
LEMMA LoweredKept ==
    ASSUME NEW r \in Characters, NEW by \in Nat
    PROVE  /\ Lowered(r, by) \in Characters /\ Lowered(r, by).on = r.on
           /\ r.status_point >= PointsOfLevels(Lowered(r, by).base_level, r.base_level)
                 => Kept(r, Lowered(r, by))
<1> DEFINE level == Larger(1, r.base_level - by)
           owed == PointsOfLevels(level, r.base_level)
           rest == IF r.status_point > 0 THEN Larger(0, r.status_point - owed)
                   ELSE r.status_point
           s == Lowered(r, by)
<1>1. r.base_level \in 1 .. MaxLevel /\ r.base_level \in 1 .. 255 /\ r.status_point \in Nat
      BY Parts, LevelOf
<1>2. level \in 1 .. MaxLevel /\ level \in 1 .. 255 /\ level <= r.base_level
  <2>1. level \in Int /\ 1 <= level /\ level <= r.base_level
        BY <1>1 DEF Larger
  <2> HIDE DEF level
  <2> QED BY <1>1, <2>1, Numbers
<1>3. owed = stat_p[r.base_level] - stat_p[level]
      BY <1>1, <1>2, PointsOfLevelsAgree
<1>4. stat_p[r.base_level] \in Nat /\ stat_p[level] \in Nat
      BY <1>1, <1>2, StatPoints
<1>5. owed >= 0
  <2>1. CASE level = r.base_level
        BY <2>1, <1>3, <1>4
  <2>2. CASE level # r.base_level
    <3>1. level < r.base_level
          BY <1>1, <1>2, <2>2
    <3>2. stat_p[level] < stat_p[r.base_level]
          BY <1>1, <1>2, <3>1, PointsRise
    <3> HIDE DEF owed, level
    <3> QED BY <3>2, <1>3, <1>4
  <2> QED BY <2>1, <2>2
<1>6. s = [r EXCEPT !.base_level = level, !.status_point = rest]
      BY DEF Lowered
<1> HIDE DEF s, owed, level
<1>7. owed \in Nat
      BY <1>3, <1>4, <1>5
<1>8. rest \in Nat /\ (r.status_point >= owed => rest = r.status_point - owed)
      BY <1>1, <1>7 DEF Larger
<1> HIDE DEF rest
<1>9. s \in Characters
      BY <1>2, <1>6, <1>8 DEF Characters
<1>10. s.on = r.on /\ s.base_level = level /\ s.status_point = rest /\ s.attrs = r.attrs
       BY <1>6 DEF Characters
<1>11. Costs(r.attrs) \in Nat
  <2>1. r.attrs \in [ATTRs -> 1 .. MaxParameter]
        BY Parts
  <2> QED BY <2>1, SumOfCosts
<1>12. r.status_point >= owed => Kept(r, s)
       BY <1>1, <1>3, <1>4, <1>8, <1>9, <1>10, <1>11 DEF Kept, Accounted
<1>13. PointsOfLevels(s.base_level, r.base_level) = owed
       BY <1>10 DEF owed
<1> QED BY <1>9, <1>10, <1>12, <1>13 DEF s

\* @blvl
LEMMA BaseLevelKept ==
    ASSUME PlayersInv, NEW by \in Gains, BaseLevelUp(by) \/ BaseLevelDown(by)
    PROVE  PlayersInv' /\ sd'.on = sd.on
<1>1. sd \in Characters /\ sd.base_level \in 1 .. MaxLevel /\ by \in Nat
      BY Parts, PlayersAssumption DEF PlayersInv
<1>2. CASE BaseLevelUp(by)
  <2> DEFINE level == Smaller(sd.base_level + by, MaxLevel)
  <2>1. level \in 1 .. MaxLevel /\ sd.base_level <= level
        BY <1>1, Numbers DEF Smaller
  <2>2. sd' \in Lifted(sd, level) /\ regular' = regular
        BY <1>2 DEF BaseLevelUp, Grows
  <2> HIDE DEF level
  <2>3. Risen(sd, sd')
        BY <1>1, <2>1, <2>2, LiftedRises
  <2> QED BY <1>1, <2>2, <2>3, RisenKept DEF PlayersInv, Kept
<1>3. CASE BaseLevelDown(by)
  <2>1. /\ sd' = Lowered(sd, by)
        /\ regular' = (regular /\ sd.status_point
                                    >= PointsOfLevels(Lowered(sd, by).base_level, sd.base_level))
        BY <1>3 DEF BaseLevelDown, Grows
  <2>2. /\ sd' \in Characters /\ sd'.on = sd.on
        /\ regular' => regular /\ Kept(sd, sd')
        BY <1>1, <2>1, LoweredKept
  <2>3. regular' \in BOOLEAN
        BY <2>1
  <2> QED BY <2>2, <2>3 DEF PlayersInv, Kept
<1> QED BY <1>2, <1>3

\* @charbaselvl
LEMMA CharBaseLevelKept ==
    ASSUME PlayersInv, NEW by \in Gains, CharBaseLevel(by) \/ CharBaseLevel(-by)
    PROVE  PlayersInv' /\ sd'.on = sd.on
<1>1. sd \in Characters /\ sd.base_level \in 1 .. MaxLevel /\ by \in Nat \ {0}
      BY Parts, PlayersAssumption DEF PlayersInv
<1>2. ASSUME NEW r \in Characters, r.on = sd.on, sd' = ResetState(r), regular' = TRUE
      PROVE  PlayersInv' /\ sd'.on = sd.on
      BY <1>2, ResetStateAccounted DEF PlayersInv
<1>3. CASE CharBaseLevel(by)
  <2> DEFINE level == Smaller(sd.base_level + by, MaxLevel)
  <2>1. level \in 1 .. MaxLevel /\ sd.base_level <= level
        BY <1>1, Numbers DEF Smaller
  <2>2. PICK r \in Lifted(sd, level) : sd' = ResetState(r) /\ regular' = TRUE
    <3>1. by > 0
          BY <1>1
    <3> QED BY <3>1, <1>3 DEF CharBaseLevel, Grows
  <2> HIDE DEF level
  <2>3. Risen(sd, r)
        BY <1>1, <2>1, LiftedRises
  <2>4. r \in Characters /\ r.on = sd.on
        BY <2>3 DEF Risen
  <2> QED BY <1>2, <2>2, <2>4
<1>4. CASE CharBaseLevel(-by)
  <2> DEFINE low == Lowered(sd, by)
             r == [low EXCEPT !.base_exp = 0]
  <2>1. sd' = ResetState(r) /\ regular' = TRUE
    <3>1. ~(-by > 0) /\ -(-by) = by
          BY <1>1
    <3> QED BY <3>1, <1>4 DEF CharBaseLevel, Grows
  <2>2. low \in Characters /\ low.on = sd.on
        BY <1>1, LoweredKept
  <2> HIDE DEF low
  <2>3. r \in Characters /\ r.on = low.on
        BY <2>2 DEF Characters
  <2> HIDE DEF r
  <2> QED BY <1>2, <2>1, <2>2, <2>3
<1> QED BY <1>3, <1>4

\* resetstatus, @charskreset, @charreset, @charwipe
LEMMA ResetKept ==
    ASSUME PlayersInv, ResetStatus \/ CharSkReset \/ \E wipe \in BOOLEAN : CharReset(wipe)
    PROVE  PlayersInv' /\ sd'.on = sd.on
<1>1. sd \in Characters
      BY DEF PlayersInv
<1>2. CASE ResetStatus
      BY <1>1, <1>2, ResetStateAccounted DEF ResetStatus, Grows, PlayersInv
<1>3. CASE CharSkReset
      BY <1>1, <1>3, ResetSkillKept DEF CharSkReset, Grows, PlayersInv, Kept
<1>4. ASSUME NEW wipe \in BOOLEAN, CharReset(wipe) PROVE PlayersInv' /\ sd'.on = sd.on
  <2> DEFINE new == [sd EXCEPT !.base_level = 1, !.base_exp = 0, !.job_level = 1, !.job_exp = 0]
             r == IF wipe THEN new ELSE sd
  <2>1. sd' = ResetSkill(ResetState(r)) /\ regular' = TRUE
        BY <1>4 DEF CharReset, Grows
  <2>2. new \in Characters /\ new.on = sd.on
    <3>1. 1 \in 1 .. MaxLevel /\ 1 \in Nat \ {0} /\ 0 \in Nat
          BY Numbers
    <3> QED BY <1>1, <3>1 DEF Characters
  <2>3. r \in Characters /\ r.on = sd.on
        BY <1>1, <2>2
  <2> HIDE DEF r
  <2>4. /\ ResetState(r) \in Characters /\ Accounted(ResetState(r))
        /\ ResetState(r).on = sd.on
        BY <2>3, ResetStateAccounted
  <2>5. Kept(ResetState(r), sd')
        BY <2>1, <2>4, ResetSkillKept
  <2> QED BY <2>1, <2>4, <2>5 DEF PlayersInv, Kept
<1> QED BY <1>2, <1>3, <1>4

LEMMA GrowKept ==
    ASSUME PlayersInv, Grow
    PROVE  PlayersInv' /\ sd'.on = sd.on
<1>1. sd \in Characters
      BY DEF PlayersInv
<1>2. Kept(sd, sd') /\ regular' = regular => PlayersInv' /\ sd'.on = sd.on
      BY DEF PlayersInv, Kept
<1>3. CASE \E base \in Gains \cup {0} : \E job \in Gains \cup {0} : GainExp(base, job)
      BY <1>1, <1>2, <1>3, GainExpKept
<1>4. CASE \E a \in {"STR", "VIT"} : StatusUp(a)
      BY <1>1, <1>2, <1>4, StatusUpKept
<1>5. CASE \/ \E a \in {"STR", "VIT"} : \E val \in Values : SetAttr(a, val)
           \/ \E by \in Gains : AllStats(by) \/ AllStats(-by)
      BY <1>5, AttrsSetKept
<1>6. CASE PointsSet
      BY <1>6, PointsSetKept
<1>7. CASE \E s \in Skills : SkillUp(s)
      BY <1>1, <1>2, <1>7, SkillUpKept
<1>8. CASE \E val \in Levels : SetBaseLevel(val)
      BY <1>8, SetBaseLevelKept
<1>9. CASE \/ \E val \in Levels : SetJobLevel(val)
           \/ \E by \in Gains : JobLevel(by) \/ CharJobLevel(-by)
      BY <1>1, <1>2, <1>9, JobLevelKept
<1>10. CASE \E val \in Values : SetBaseExp(val) \/ SetJobExp(val)
       BY <1>1, <1>2, <1>10, SetExpKept
<1>11. CASE ResetStatus \/ CharSkReset \/ \E wipe \in BOOLEAN : CharReset(wipe)
       BY <1>11, ResetKept
<1>12. CASE \E by \in Gains : BaseLevelUp(by) \/ BaseLevelDown(by)
       BY <1>12, BaseLevelKept
<1>13. CASE \E by \in Gains : CharBaseLevel(by) \/ CharBaseLevel(-by)
       BY <1>13, CharBaseLevelKept
<1> QED BY <1>3, <1>4, <1>5, <1>6, <1>7, <1>8, <1>9, <1>10, <1>11, <1>12, <1>13
        DEF Grow, PointsSet

-----------------------------------------------------------------------------
(* To leave and to come back. *)

LEMMA ClearedKept ==
    ASSUME NEW r \in Characters
    PROVE  Alike(r, StatusChangeClear(r)) /\ StatusChangeClear(r).on = r.on
           /\ StatusChangeClear(r).poison = 0
<1>1. 0 \in 0 .. MaxPoison
      BY Numbers
<1>2. StatusChangeClear(r) \in Characters
      BY <1>1 DEF Characters, StatusChangeClear
<1>3. /\ StatusChangeClear(r).base_level = r.base_level
      /\ StatusChangeClear(r).status_point = r.status_point
      /\ StatusChangeClear(r).attrs = r.attrs /\ StatusChangeClear(r).on = r.on
      /\ StatusChangeClear(r).poison = 0
      BY DEF Characters, StatusChangeClear
<1> QED BY <1>2, <1>3 DEF Alike

LEMMA RestartAlike ==
    ASSUME sd \in Characters, Restart
    PROVE  Alike(sd, sd') /\ sd'.on = sd.on /\ sd'.poison = 0 /\ regular' = regular
<1> DEFINE up == [sd EXCEPT !.dead_sit = "stand"]
           r == RestartValue(up)
<1>1. sd' = StatusChangeClear(r) /\ regular' = regular
      BY DEF Restart, Lives
<1>2. up \in Characters /\ Spared(sd, up)
      BY PartChanged, PostureChanged
<1> HIDE DEF up
<1>3. Lived(up, r)
      BY <1>2, RestartValueLives
<1> HIDE DEF r
<1>4. Alike(r, sd') /\ sd'.on = r.on /\ sd'.poison = 0
      BY <1>1, <1>3, ClearedKept DEF Lived
<1> QED BY <1>1, <1>2, <1>3, <1>4 DEF Alike, Lived, Spared

LEMMA QuitAlike ==
    ASSUME sd \in Characters, Quit
    PROVE  Alike(sd, sd') /\ ~sd'.on /\ regular' = regular
<1> DEFINE leaving == IF sd.poison > 0 THEN [sd EXCEPT !.hp = 1] ELSE sd
           saved == IF Dead(sd) THEN RestartValue(leaving) ELSE leaving
           clear == StatusChangeClear(saved)
<1>1. /\ sd' = [clear EXCEPT !.on = FALSE, !.dead_sit = "stand", !.quick = 0]
      /\ regular' = regular
      BY DEF Quit
<1>2. Alike(sd, leaving)
  <2>1. 1 \in 0 .. MaxHp
        BY Numbers
  <2>2. Lived(sd, [sd EXCEPT !.hp = 1]) /\ Lived(sd, sd)
        BY <2>1, HpChanged DEF Lived
  <2> QED BY <2>2 DEF Lived, Alike
<1> HIDE DEF leaving
<1>3. Alike(sd, saved) /\ saved \in Characters
      BY <1>2, RestartValueLives DEF Lived, Alike
<1> HIDE DEF saved
<1>4. Alike(saved, clear)
      BY <1>3, ClearedKept
<1> HIDE DEF clear
<1>5. Alike(clear, sd') /\ ~sd'.on
  <2>1. clear \in Characters /\ 0 \in 0 .. MaxHp
        BY <1>4, Numbers DEF Alike
  <2>2. sd' \in Characters
        BY <1>1, <2>1 DEF Characters
  <2>3. /\ sd'.base_level = clear.base_level /\ sd'.status_point = clear.status_point
        /\ sd'.attrs = clear.attrs /\ ~sd'.on
        BY <1>1, <2>1 DEF Characters
  <2> QED BY <2>2, <2>3 DEF Alike
<1> QED BY <1>1, <1>3, <1>4, <1>5 DEF Alike

LEMMA AuthokAlike ==
    ASSUME sd \in Characters, Authok
    PROVE  Alike(sd, sd') /\ sd'.on /\ regular' = regular
<1>1. sd' = [sd EXCEPT !.on = TRUE] /\ regular' = regular
      BY DEF Authok
<1>2. sd' \in Characters
      BY <1>1, PartChanged
<1>3. /\ sd'.base_level = sd.base_level /\ sd'.status_point = sd.status_point
      /\ sd'.attrs = sd.attrs /\ sd'.on
      BY <1>1 DEF Characters
<1> QED BY <1>1, <1>2, <1>3 DEF Alike

LEMMA AlikeKeeps ==
    ASSUME PlayersInv, Alike(sd, sd'), regular' = regular
    PROVE  PlayersInv'
BY DEF PlayersInv, Alike, Accounted

\* Every step of the character, by itself
LEMMA NextKept ==
    ASSUME PlayersInv, [Next]_vars
    PROVE  PlayersInv'
<1>1. sd \in Characters
      BY DEF PlayersInv
<1>2. CASE Living
      BY <1>1, <1>2, LivingSpares, AlikeKeeps DEF Spared
<1>3. CASE NaturalHeal
  <2>1. Lived(sd, sd') /\ regular' = regular
        BY <1>1, <1>3, NaturalHealLives
  <2> QED BY <2>1, AlikeKeeps DEF Lived, Alike
<1>4. CASE Restart \/ Quit \/ Authok
      BY <1>1, <1>4, RestartAlike, QuitAlike, AuthokAlike, AlikeKeeps
<1>5. CASE PoisonTimer
      BY <1>1, <1>5, PoisonTimerAlike, AlikeKeeps
<1>6. CASE EndPoison \/ \E val1 \in 1 .. MaxPoison : StartPoison(val1)
      BY <1>1, <1>6, PoisonAlike, AlikeKeeps
<1>7. CASE Grow
      BY <1>7, GrowKept
<1>8. CASE UNCHANGED vars
      BY <1>8 DEF vars, PlayersInv
<1> QED BY <1>2, <1>3, <1>4, <1>5, <1>6, <1>7, <1>8 DEF Next, Live, Living

\* Parameters of 5 are worth the points of the first level.
LEMMA FreshAccounted ==
    ASSUME Init
    PROVE  PlayersInv
<1> DEFINE five == [a \in ATTRs |-> 5]
           skill == [s \in Skills |-> IF s \in QuestSkills THEN 0 ELSE 1]
<1>1. sd = Fresh /\ regular = TRUE
      BY DEF Init
<1>2. MaxParameter \in Nat /\ MaxParameter >= 5
      BY PlayersAssumption
<1>3. Cost[5] = 8
  <2>1. /\ 1 \in 1 .. MaxParameter - 1 /\ 2 \in 1 .. MaxParameter - 1
        /\ 3 \in 1 .. MaxParameter - 1 /\ 4 \in 1 .. MaxParameter - 1
        BY <1>2
  <2>2. /\ Cost[1 + 1] = Cost[1] + NeedStatusPoint(1) /\ Cost[2 + 1] = Cost[2] + NeedStatusPoint(2)
        /\ Cost[3 + 1] = Cost[3] + NeedStatusPoint(3) /\ Cost[4 + 1] = Cost[4] + NeedStatusPoint(4)
        BY <2>1, CostNext
  <2>3. /\ NeedStatusPoint(1) = 2 /\ NeedStatusPoint(2) = 2
        /\ NeedStatusPoint(3) = 2 /\ NeedStatusPoint(4) = 2
        BY DEF NeedStatusPoint
  <2> QED BY <2>2, <2>3, CostNext
<1>4. five \in [ATTRs -> 1 .. MaxParameter] /\ skill \in [Skills -> Nat]
      BY <1>2
<1>5. Costs(five) = 48
      BY <1>3 DEF Costs, ATTRs
<1>6. /\ MaxHp \in 0 .. MaxHp /\ 0 \in 0 .. MaxHp /\ 0 \in 0 .. MaxPoison /\ 1 \in 1 .. MaxLevel
      /\ 1 \in Nat \ {0} /\ 0 \in Nat
      BY Numbers
<1>7. Fresh = [on |-> TRUE, dead_sit |-> "stand", hp |-> MaxHp, quick |-> 0,
               poison |-> 0, slowpoison |-> FALSE, opt2 |-> {},
               base_level |-> 1, base_exp |-> 0, job_level |-> 1, job_exp |-> 0,
               status_point |-> 0, attrs |-> five, skill_point |-> 0, skill |-> skill]
      BY DEF Fresh
<1> HIDE DEF five, skill
<1>8. Fresh \in Characters
      BY <1>4, <1>6, <1>7 DEF Characters
<1>9. Fresh.status_point = 0 /\ Fresh.attrs = five /\ Fresh.base_level = 1
      BY <1>7
<1>10. Accounted(Fresh)
       BY <1>5, <1>9, StatPoints DEF Accounted
<1> QED BY <1>1, <1>8, <1>10 DEF PlayersInv

-----------------------------------------------------------------------------
(* What is calculated (Status). *)

PartsOfPc == {"worn", "effects", "active", "armed", "charges", "override", "target", "current",
              "loaded"}

\* The parts of map_session_data are there, whatever they are.
Whole(p) == p = [x \in PartsOfPc |-> p[x]]
Outcome(o) == o = [p |-> o.p, c |-> o.c, t |-> o.t] /\ Whole(o.p)

\* What StatusIsCurrent says of a character, of the other parts and of what was calculated
Current(r, p, c) ==
    /\ c.param = Paramc(r, p)
    /\ c.level = r.base_level
    /\ c.worn = p.worn
    /\ c.effects = Anomalies(r, p)
    /\ c.current = p.current
    /\ c.override = p.override
    /\ c.spell = p.armed

CurrentOutcomes(O, r) == \A o \in O : Outcome(o) /\ Current(r, o.p, o.c)

StatusInv ==
    /\ Whole(pc)
    /\ sd.on => Current(sd, pc, calc)

\* A part that changes
LEMMA PartOfPcChanged ==
    ASSUME NEW p, Whole(p), NEW x \in PartsOfPc, NEW v
    PROVE  Whole([p EXCEPT ![x] = v])
<1> DEFINE q == [p EXCEPT ![x] = v]
<1>1. p = [y \in PartsOfPc |-> p[y]]
      BY DEF Whole
<1>2. q = [y \in PartsOfPc |-> q[y]]
      BY <1>1
<1> QED BY <1>2 DEF Whole

LEMMA AimedWhole ==
    ASSUME NEW p, Whole(p)
    PROVE  Whole(Aimed(p))
<1> DEFINE target == SumOver(p.worn, LAMBDA g : Magic[g])
           q == [p EXCEPT !.target = target]
<1>1. Whole(q)
      BY PartOfPcChanged DEF PartsOfPc
<1>2. Aimed(p) = [q EXCEPT !.current = Smaller(p.current, target)]
      BY DEF Aimed, Whole, PartsOfPc
<1> HIDE DEF q, target
<1> QED BY <1>1, <1>2, PartOfPcChanged DEF PartsOfPc

\* What pc_calcstatus finds is current, whatever was there before.
LEMMA InitialCurrent ==
    ASSUME NEW O, \A o \in O : Outcome(o), NEW r
    PROVE  CurrentOutcomes(Initial(O, r), r)
<1> SUFFICES ASSUME NEW i \in Initial(O, r) PROVE Outcome(i) /\ Current(r, i.p, i.c)
    BY DEF CurrentOutcomes
<1>1. PICK q \in O : LET o == [q EXCEPT !.p = Aimed(q.p)]
                     IN  i = [o EXCEPT !.c = Calculated(o.c, r, o.p)]
      BY DEF Initial
<1> DEFINE p == Aimed(q.p)
           c == Calculated(q.c, r, p)
<1>2. q = [p |-> q.p, c |-> q.c, t |-> q.t] /\ Whole(q.p)
      BY DEF Outcome
<1>3. i = [p |-> p, c |-> c, t |-> q.t]
      BY <1>1, <1>2
<1>4. Whole(p)
      BY <1>2, AimedWhole
<1> HIDE DEF p
<1>5. Current(r, p, c)
      BY DEF Calculated, Current, OtherBonuses
<1> HIDE DEF c
<1> QED BY <1>3, <1>4, <1>5 DEF Outcome

LEMMA NormalCurrent ==
    ASSUME NEW O, \A o \in O : Outcome(o), NEW r
    PROVE  CurrentOutcomes(Normal(O, r), r)
<1> SUFFICES ASSUME NEW i \in Normal(O, r) PROVE Outcome(i) /\ Current(r, i.p, i.c)
    BY DEF CurrentOutcomes
<1>1. PICK o \in O : \E n \in Initial({o}, r) : i = [n EXCEPT !.t = Differences(o.c, n.c, o.t)]
      BY DEF Normal
<1> PICK n \in Initial({o}, r) : i = [n EXCEPT !.t = Differences(o.c, n.c, o.t)]
    BY <1>1
<1>2. Outcome(n) /\ Current(r, n.p, n.c)
  <2>1. \A q \in {o} : Outcome(q)
        BY <1>1
  <2> QED BY <1>1, <2>1, InitialCurrent DEF CurrentOutcomes
<1>3. i = [p |-> n.p, c |-> n.c, t |-> Differences(o.c, n.c, o.t)]
      BY <1>2 DEF Outcome
<1> QED BY <1>2, <1>3 DEF Outcome

LEMMA SetAttackInfoCurrent ==
    ASSUME NEW O, \A o \in O : Outcome(o), NEW r
    PROVE  CurrentOutcomes(SetAttackInfo(O, r), r)
<1> SUFFICES ASSUME NEW i \in SetAttackInfo(O, r) PROVE Outcome(i) /\ Current(r, i.p, i.c)
    BY DEF CurrentOutcomes
<1>1. PICK n \in Initial(O, r) : i = [n EXCEPT !.t.spell = n.c.spell]
      BY DEF SetAttackInfo
<1>2. Outcome(n) /\ Current(r, n.p, n.c)
      BY <1>1, InitialCurrent DEF CurrentOutcomes
<1>3. i = [p |-> n.p, c |-> n.c, t |-> [n.t EXCEPT !.spell = n.c.spell]]
      BY <1>1, <1>2 DEF Outcome
<1> QED BY <1>2, <1>3 DEF Outcome

\* A part that changes in all outcomes
LEMMA OutcomeChanged ==
    ASSUME NEW o, Outcome(o), NEW x \in PartsOfPc, NEW v
    PROVE  /\ Outcome([o EXCEPT !.p[x] = v])
           /\ [o EXCEPT !.p[x] = v].p = [o.p EXCEPT ![x] = v]
           /\ [o EXCEPT !.p[x] = v].c = o.c
<1> DEFINE u == [o EXCEPT !.p[x] = v]
           q == [o.p EXCEPT ![x] = v]
<1>1. u = [p |-> q, c |-> o.c, t |-> o.t]
      BY DEF Outcome
<1>2. Whole(q)
      BY PartOfPcChanged DEF Outcome
<1> HIDE DEF q
<1>3. Outcome(u) /\ u.p = q /\ u.c = o.c
      BY <1>1, <1>2 DEF Outcome
<1> QED BY <1>3 DEF q

\* The effects end, and whoever had one that counts is calculated.
LEMMA ClearedOutcomes ==
    ASSUME NEW O, \A o \in O : Outcome(o), NEW r, NEW poisoned \in BOOLEAN,
           NEW i \in Cleared(O, r, poisoned)
    PROVE  /\ Outcome(i)
           /\ Current(r, i.p, i.c) \/ (i \in O /\ ~poisoned)
<1> DEFINE Those == {q \in O : q.p.effects # {} \/ poisoned}
           Ended == {[o EXCEPT !.p.effects = {}] : o \in Those}
<1>1. CASE i \in {o \in O : o.p.effects = {} /\ ~poisoned}
      BY <1>1
<1>2. CASE i \in Normal(Ended, r)
  <2>1. \A o \in Ended : Outcome(o)
        BY OutcomeChanged DEF PartsOfPc
  <2> HIDE DEF Ended
  <2> QED BY <1>2, <2>1, NormalCurrent DEF CurrentOutcomes
<1> QED BY <1>1, <1>2 DEF Cleared

LEMMA DischargedCurrent ==
    ASSUME NEW O, \A o \in O : Outcome(o), NEW r
    PROVE  CurrentOutcomes(Discharged(O, r), r)
<1> DEFINE Over == {[o EXCEPT !.p.armed = FALSE] : o \in O}
<1>1. \A o \in Over : Outcome(o)
      BY OutcomeChanged DEF PartsOfPc
<1> HIDE DEF Over
<1>2. CurrentOutcomes(SetAttackInfo(Over, r), r)
      BY <1>1, SetAttackInfoCurrent
<1> QED BY <1>2 DEF Discharged, Over

\* pc_damage, for who dies
LEMMA KilledCurrent ==
    ASSUME NEW O, \A o \in O : Outcome(o), NEW r
    PROVE  CurrentOutcomes(Killed(O, r), r)
<1> DEFINE clear == Cleared(O, r, sd.poison > 0)
           armed == {o \in clear : o.p.armed}
           end == (clear \ armed) \cup Discharged(armed, r)
<1>1. \A o \in clear : Outcome(o)
  <2>1. (sd.poison > 0) \in BOOLEAN
        OBVIOUS
  <2> QED BY <2>1, ClearedOutcomes
<1> HIDE DEF clear
<1>2. \A o \in armed : Outcome(o)
      BY <1>1
<1>3. \A o \in Discharged(armed, r) : Outcome(o)
  <2> HIDE DEF armed
  <2> QED BY <1>2, DischargedCurrent DEF CurrentOutcomes
<1>4. \A o \in end : Outcome(o)
  <2> HIDE DEF armed
  <2> QED BY <1>1, <1>3
<1> HIDE DEF end, armed
<1>5. CurrentOutcomes(Normal(end, r), r)
      BY <1>4, NormalCurrent
<1> QED BY <1>5 DEF Killed, end, armed, clear

\* What happens is one of the outcomes.
LEMMA BecomesCurrent ==
    ASSUME NEW O, \A o \in O : Outcome(o) /\ (sd'.on => Current(sd', o.p, o.c)), Becomes(O)
    PROVE  StatusInv'
<1>1. PICK o \in O : pc' = o.p /\ calc' = o.c
      BY DEF Becomes
<1>2. Whole(pc') /\ (sd'.on => Current(sd', pc', calc'))
      BY <1>1 DEF Outcome
<1> QED BY <1>2 DEF StatusInv

LEMMA NowOutcomes ==
    ASSUME Whole(pc)
    PROVE  /\ \A o \in Now : Outcome(o) /\ o.p = pc /\ o.c = calc
           /\ \A p : Whole(p) => \A o \in Outcomes({p}) : Outcome(o) /\ o.p = p /\ o.c = calc
<1>1. ASSUME NEW p, Whole(p)
      PROVE  \A o \in Outcomes({p}) : Outcome(o) /\ o.p = p /\ o.c = calc
      BY <1>1 DEF Outcomes, Outcome
<1>2. \A o \in Now : Outcome(o) /\ o.p = pc /\ o.c = calc
      BY <1>1 DEF Now
<1> QED BY <1>1, <1>2

\* What nothing was changed of that counts is current still.
LEMMA StillCurrent ==
    ASSUME NEW r, NEW s, NEW p, NEW c, Current(r, p, c),
           s.attrs = r.attrs, s.base_level = r.base_level, s.poison > 0 <=> r.poison > 0
    PROVE  Current(s, p, c)
BY DEF Current, Paramc, Anomalies

LEMMA NowCurrent ==
    ASSUME StatusInv, sd'.on = sd.on, sd'.attrs = sd.attrs, sd'.base_level = sd.base_level,
           sd'.poison > 0 <=> sd.poison > 0
    PROVE  \A o \in Now : Outcome(o) /\ (sd'.on => Current(sd', o.p, o.c))
<1>1. \A o \in Now : Outcome(o) /\ o.p = pc /\ o.c = calc
      BY NowOutcomes DEF StatusInv
<1>2. sd'.on => Current(sd', pc, calc)
  <2> SUFFICES ASSUME sd'.on PROVE Current(sd', pc, calc)
      OBVIOUS
  <2>1. Current(sd, pc, calc)
        BY DEF StatusInv
  <2> QED BY <2>1, StillCurrent
<1> QED BY <1>1, <1>2

LEMMA MayKillCurrent ==
    ASSUME NEW O, \A o \in O : Outcome(o),
           ~(~Dead(sd) /\ Dead(sd')) => \A o \in O : sd'.on => Current(sd', o.p, o.c),
           MayKill(O)
    PROVE  StatusInv'
<1>1. CASE ~Dead(sd) /\ Dead(sd')
  <2>1. Becomes(Killed(O, sd'))
        BY <1>1 DEF MayKill
  <2>2. CurrentOutcomes(Killed(O, sd'), sd')
        BY KilledCurrent
  <2> QED BY <2>1, <2>2, BecomesCurrent DEF CurrentOutcomes
<1>2. CASE ~(~Dead(sd) /\ Dead(sd'))
  <2>1. Becomes(O)
        BY <1>2 DEF MayKill
  <2> QED BY <1>2, <2>1, BecomesCurrent
<1> QED BY <1>1, <1>2

\* Who is spared is as before, or dies.
LEMMA SparedCurrent ==
    ASSUME StatusInv, Spared(sd, sd'), MayKill(Now)
    PROVE  StatusInv'
<1>1. \A o \in Now : Outcome(o)
      BY NowOutcomes DEF StatusInv
<1>2. ~(~Dead(sd) /\ Dead(sd')) => \A o \in Now : sd'.on => Current(sd', o.p, o.c)
      BY NowCurrent DEF Spared, Alike
<1> QED BY <1>1, <1>2, MayKillCurrent

\* A calculation for the character as it is then
LEMMA NormalBecomes ==
    ASSUME NEW O, \A o \in O : Outcome(o), Becomes(Normal(O, sd'))
    PROVE  StatusInv'
<1>1. CurrentOutcomes(Normal(O, sd'), sd')
      BY NormalCurrent
<1> QED BY <1>1, BecomesCurrent DEF CurrentOutcomes

LEMMA OnceCurrent ==
    ASSUME StatusInv, Once
    PROVE  StatusInv'
<1>1. \A o \in Now : Outcome(o)
      BY NowOutcomes DEF StatusInv
<1> QED BY <1>1, NormalBecomes DEF Once

LEMMA SumOfNothing ==
    SumOver({}, LAMBDA g : Magic[g]) = 0
<1> DEFINE F(h) == [T \in SUBSET {} |-> IF T = {} THEN 0
                                       ELSE LET x == CHOOSE y \in T : TRUE
                                            IN Magic[x] + h[T \ {x}]]
           plus == CHOOSE h : h = F(h)
           none == [T \in SUBSET {} |-> 0]
<1>1. none = F(none)
      OBVIOUS
<1>2. plus = F(plus)
  <2> HIDE DEF F, none
  <2> QED BY <1>1
<1>3. plus[{}] = 0
  <2>1. plus[{}] = F(plus)[{}]
    <3> HIDE DEF F, plus
    <3> QED BY <1>2
  <2> HIDE DEF plus
  <2> QED BY <2>1
<1> QED BY <1>3 DEF SumOver, plus

LEMMA StatusInitCurrent ==
    ASSUME StatusInit
    PROVE  StatusInv
<1> DEFINE entered == [Entered EXCEPT !.loaded = TRUE]
<1>1. /\ pc = Aimed(entered) /\ sd = Fresh
      /\ calc.param = Paramc(sd, pc) /\ calc.level = 1 /\ calc.worn = {} /\ calc.effects = {}
      /\ calc.current = 0 /\ calc.override = 0 /\ calc.spell = FALSE
      BY DEF StatusInit, Init
<1>2. /\ Whole(entered)
      /\ entered.worn = {} /\ entered.effects = {} /\ entered.armed = FALSE
      /\ entered.override = 0 /\ entered.current = 0
      BY DEF Entered, Whole, PartsOfPc
<1> HIDE DEF entered
<1>3. Whole(pc)
      BY <1>1, <1>2, AimedWhole
<1>4. pc = [entered EXCEPT !.target = 0, !.current = Smaller(entered.current, 0)]
      BY <1>1, <1>2, SumOfNothing DEF Aimed
<1>5. /\ pc.worn = {} /\ pc.effects = {} /\ pc.armed = FALSE /\ pc.override = 0
      /\ pc.current = 0
      BY <1>2, <1>4 DEF Whole, PartsOfPc, Smaller
<1>6. sd.base_level = 1 /\ ~(sd.poison > 0)
      BY <1>1 DEF Fresh
<1> QED BY <1>1, <1>3, <1>5, <1>6 DEF StatusInv, Current, Anomalies

\* What was current for the same character
LEMMA UnlessCurrent ==
    ASSUME StatusInv, NEW calculates \in BOOLEAN, Unless(calculates),
           ~calculates => /\ sd'.on = sd.on /\ sd'.attrs = sd.attrs
                          /\ sd'.base_level = sd.base_level
                          /\ sd'.poison > 0 <=> sd.poison > 0
    PROVE  StatusInv'
<1>1. CASE calculates
  <2>1. Becomes(Normal(Now, sd'))
        BY <1>1 DEF Unless
  <2>2. \A o \in Now : Outcome(o)
        BY NowOutcomes DEF StatusInv
  <2> QED BY <2>1, <2>2, NormalBecomes
<1>2. CASE ~calculates
  <2>1. Becomes(Now)
        BY <1>2 DEF Unless
  <2> QED BY <1>2, <2>1, NowCurrent, BecomesCurrent
<1> QED BY <1>1, <1>2

\* Nothing of this module changes.
LEMMA StatusUnchanged ==
    ASSUME StatusInv, UNCHANGED << pc, calc >>,
           sd'.on = sd.on, sd'.attrs = sd.attrs, sd'.base_level = sd.base_level,
           sd'.poison > 0 <=> sd.poison > 0
    PROVE  StatusInv'
<1>1. Whole(pc') /\ (sd'.on => Current(sd', pc', calc'))
  <2>1. sd'.on => Current(sd', pc, calc)
    <3> SUFFICES ASSUME sd'.on PROVE Current(sd', pc, calc)
        OBVIOUS
    <3>1. Current(sd, pc, calc)
          BY DEF StatusInv
    <3> QED BY <3>1, StillCurrent
  <2>2. Whole(pc)
        BY DEF StatusInv
  <2> QED BY <2>1, <2>2
<1> QED BY <1>1 DEF StatusInv

\* pc_restart of the dead, map_quit, pc_authok, 0x7d
LEMMA ComingAndGoingCurrent ==
    ASSUME PlayersInv, StatusInv, StatusRestart \/ StatusQuit \/ StatusAuthok \/ LoadEndAck
    PROVE  StatusInv'
<1>1. sd \in Characters /\ (\A o \in Now : Outcome(o)) /\ (sd.poison > 0) \in BOOLEAN
      BY NowOutcomes DEF PlayersInv, StatusInv
<1>2. CASE StatusRestart
  <2>1. Restart /\ Becomes(Cleared(Now, sd', sd.poison > 0))
        BY <1>2 DEF StatusRestart
  <2>2. Alike(sd, sd') /\ sd'.on = sd.on /\ ~(sd'.poison > 0)
        BY <1>1, <2>1, RestartAlike
  <2>3. ASSUME NEW o \in Cleared(Now, sd', sd.poison > 0)
        PROVE  Outcome(o) /\ (sd'.on => Current(sd', o.p, o.c))
    <3>1. Outcome(o) /\ (Current(sd', o.p, o.c) \/ (o \in Now /\ ~(sd.poison > 0)))
          BY <1>1, ClearedOutcomes
    <3>2. ~(sd.poison > 0) => \A q \in Now : sd'.on => Current(sd', q.p, q.c)
          BY <2>2, NowCurrent DEF Alike
    <3> QED BY <3>1, <3>2
  <2> QED BY <2>1, <2>3, BecomesCurrent
<1>3. CASE StatusQuit
  <2> DEFINE clear == Cleared(Now, sd', sd.poison > 0)
             end == {[o EXCEPT !.p.loaded = FALSE] : o \in Normal(clear, sd')}
  <2>1. Quit /\ Becomes(end)
        BY <1>3 DEF StatusQuit
  <2>2. \A o \in clear : Outcome(o)
        BY <1>1, ClearedOutcomes
  <2> HIDE DEF clear
  <2>3. \A o \in Normal(clear, sd') : Outcome(o)
        BY <2>2, NormalCurrent DEF CurrentOutcomes
  <2>4. \A o \in end : Outcome(o)
        BY <2>3, OutcomeChanged DEF PartsOfPc
  <2>5. ~sd'.on
        BY <1>1, <2>1, QuitAlike
  <2> HIDE DEF end
  <2> QED BY <2>1, <2>4, <2>5, BecomesCurrent
<1>4. CASE StatusAuthok
  <2> DEFINE new == [Entered EXCEPT !.worn = pc.worn, !.active = pc.active]
  <2>1. Becomes(Initial(Initial(Anew, sd'), sd'))
        BY <1>4 DEF StatusAuthok
  <2>2. Whole(new)
        BY DEF Entered, Whole, PartsOfPc
  <2>3. \A o \in Outcomes({new}) : Outcome(o)
    <3> HIDE DEF new
    <3> QED BY <2>2, NowOutcomes DEF StatusInv
  <2>4. \A o \in Anew : Outcome(o)
    <3>1. ASSUME NEW o, Outcome(o) PROVE Outcome([o EXCEPT !.c.param = 0])
      <4>1. [o EXCEPT !.c.param = 0] = [p |-> o.p, c |-> [o.c EXCEPT !.param = 0], t |-> o.t]
            BY <3>1 DEF Outcome
      <4> QED BY <3>1, <4>1 DEF Outcome
    <3> QED BY <2>3, <3>1 DEF Anew
  <2>5. \A o \in Initial(Anew, sd') : Outcome(o)
        BY <2>4, InitialCurrent DEF CurrentOutcomes
  <2>6. CurrentOutcomes(Initial(Initial(Anew, sd'), sd'), sd')
        BY <2>5, InitialCurrent
  <2> QED BY <2>1, <2>6, BecomesCurrent DEF CurrentOutcomes
<1>5. CASE LoadEndAck
  <2>1. pc' = [pc EXCEPT !.loaded = TRUE] /\ sd' = sd /\ calc' = calc
        BY <1>5 DEF LoadEndAck, vars
  <2>2. Whole(pc) /\ (sd.on => Current(sd, pc, calc))
        BY DEF StatusInv
  <2>3. Whole(pc')
        BY <2>1, <2>2, PartOfPcChanged DEF PartsOfPc
  <2>4. /\ pc'.worn = pc.worn /\ pc'.effects = pc.effects /\ pc'.current = pc.current
        /\ pc'.override = pc.override /\ pc'.armed = pc.armed
        BY <2>1, <2>2 DEF Whole, PartsOfPc
  <2>5. sd.on => Current(sd, pc', calc)
        BY <2>2, <2>4 DEF Current, Paramc, Parame, Anomalies
  <2>6. Whole(pc') /\ (sd'.on => Current(sd', pc', calc'))
        BY <2>1, <2>3, <2>5
  <2> QED BY <2>6 DEF StatusInv
<1> QED BY <1>2, <1>3, <1>4, <1>5

\* What hurts and heals, and what comes by itself
LEMMA LifeCurrent ==
    ASSUME PlayersInv, StatusInv,
           StatusLive \/ StatusPoison \/ StatusPoisonTimer \/ StatusNaturalHeal
    PROVE  StatusInv'
<1>1. sd \in Characters /\ Whole(pc)
      BY DEF PlayersInv, StatusInv
<1>2. CASE StatusLive
      BY <1>1, <1>2, LivingSpares, SparedCurrent DEF StatusLive
<1>3. CASE StatusPoison
      BY <1>3, OnceCurrent DEF StatusPoison
<1>4. CASE StatusPoisonTimer
  <2>1. PoisonTimer /\ IF sd'.poison = 0 THEN Once ELSE MayKill(Now)
        BY <1>4 DEF StatusPoisonTimer
  <2>2. CASE sd'.poison = 0
        BY <2>1, <2>2, OnceCurrent
  <2>3. CASE sd'.poison # 0
    <3>1. Spared(sd, sd')
          BY <1>1, <2>1, <2>3, PoisonTimerAlike
    <3> QED BY <2>1, <2>3, <3>1, SparedCurrent
  <2> QED BY <2>2, <2>3
<1>5. CASE StatusNaturalHeal
  <2>1. Spared(sd, sd')
    <3>1. CASE NaturalHeal
          BY <1>1, <3>1, NaturalHealLives, LivedSpares
    <3>2. CASE UNCHANGED vars
          BY <1>1, <3>2 DEF vars, Spared, Alike
    <3> QED BY <1>5, <3>1, <3>2 DEF StatusNaturalHeal
  <2>2. CASE pc.target = pc.current
    <3>1. MayKill(Now)
          BY <1>5, <2>2 DEF StatusNaturalHeal
    <3> QED BY <2>1, <3>1, SparedCurrent
  <2>3. CASE pc.target # pc.current
    <3> DEFINE O == Normal(Outcomes({Approached(pc)}), sd')
    <3>1. MayKill(O)
          BY <1>5, <2>3 DEF StatusNaturalHeal
    <3>2. Whole(Approached(pc))
          BY <1>1, PartOfPcChanged DEF Approached, PartsOfPc
    <3>3. \A o \in Outcomes({Approached(pc)}) : Outcome(o)
          BY <1>1, <3>2, NowOutcomes
    <3>4. CurrentOutcomes(O, sd')
          BY <3>3, NormalCurrent
    <3> HIDE DEF O
    <3> QED BY <3>1, <3>4, MayKillCurrent DEF CurrentOutcomes
  <2> QED BY <2>2, <2>3
<1> QED BY <1>2, <1>3, <1>4, <1>5

\* Growth
LEMMA GrowthCurrent ==
    ASSUME PlayersInv, StatusInv,
           \/ StatusRaise \/ StatusExp \/ StatusSetExp \/ StatusPoints \/ StatusSkill
           \/ StatusSetSkill
    PROVE  StatusInv'
<1>1. sd \in Characters
      BY DEF PlayersInv
<1>2. CASE StatusRaise \/ StatusSkill
      BY <1>2, OnceCurrent DEF StatusRaise, StatusSkill
<1>3. CASE StatusExp
  <2>1. PICK base \in Gains \cup {0}, job \in Gains \cup {0} :
                /\ GainExp(base, job)
                /\ Unless(sd.base_level # sd'.base_level \/ sd.job_exp + job >= JobStep)
        BY <1>3 DEF StatusExp
  <2>2. sd'.on = sd.on /\ sd'.attrs = sd.attrs /\ sd'.poison = sd.poison
        BY <1>1, <2>1, GainExpKept DEF Risen
  <2> QED BY <2>1, <2>2, UnlessCurrent
<1>4. CASE StatusSetExp
  <2>1. PICK val \in Values :
                \/ SetBaseExp(val) /\ Unless(sd.base_level # sd'.base_level)
                \/ SetJobExp(val) /\ Unless(val >= JobStep)
        BY <1>4 DEF StatusSetExp
  <2>2. /\ sd'.on = sd.on /\ sd'.attrs = sd.attrs /\ sd'.poison = sd.poison
        /\ SetJobExp(val) => sd'.base_level = sd.base_level
        BY <1>1, <2>1, SetExpKept DEF Kept
  <2>3. CASE SetBaseExp(val) /\ Unless(sd.base_level # sd'.base_level)
        BY <2>2, <2>3, UnlessCurrent
  <2>4. CASE SetJobExp(val) /\ Unless(val >= JobStep)
    <3>1. (val >= JobStep) \in BOOLEAN
          OBVIOUS
    <3>2. sd'.base_level = sd.base_level
          BY <2>2, <2>4
    <3> QED BY <2>2, <2>4, <3>1, <3>2, UnlessCurrent
  <2> QED BY <2>1, <2>3, <2>4
<1>5. CASE StatusPoints \/ StatusSetSkill
  <2>1. PointsSet /\ UNCHANGED << pc, calc >>
        BY <1>5 DEF StatusPoints, StatusSetSkill, PointsSet, statusVars
  <2>2. /\ sd'.on = sd.on /\ sd'.attrs = sd.attrs
        /\ sd'.base_level = sd.base_level /\ sd'.poison = sd.poison
        BY <2>1, PointsSetKept
  <2> QED BY <2>1, <2>2, StatusUnchanged
<1> QED BY <1>2, <1>3, <1>4, <1>5

\* Game masters, whose commands calculate once or twice
LEMMA UnfocusedOutcomes ==
    ASSUME NEW O, \A o \in O : Outcome(o)
    PROVE  \A o \in Unfocused(O) : Outcome(o)
<1>1. ASSUME NEW o \in O PROVE Outcome([o EXCEPT !.p.active = {s \in @ : sd.skill[s] = 0}])
  <2> DEFINE kept == {s \in o.p.active : sd.skill[s] = 0}
  <2>1. Outcome([o EXCEPT !.p.active = kept])
    <3> HIDE DEF kept
    <3> QED BY OutcomeChanged DEF PartsOfPc
  <2> QED BY <2>1
<1> QED BY <1>1 DEF Unfocused

LEMMA CommandsCurrent ==
    ASSUME PlayersInv, StatusInv,
           StatusCharBaseLevel \/ StatusAllStats \/ StatusSkReset \/ StatusReset
    PROVE  StatusInv'
<1>1. sd \in Characters /\ Whole(pc) /\ (\A o \in Now : Outcome(o))
      BY NowOutcomes DEF PlayersInv, StatusInv
<1>2. \A r : \A o \in Normal(Now, r) : Outcome(o)
      BY <1>1, NormalCurrent DEF CurrentOutcomes
<1>3. CASE StatusCharBaseLevel
  <2> DEFINE r == [sd EXCEPT !.base_level = sd'.base_level]
  <2>1. Becomes(Normal(Normal(Now, r), sd'))
        BY <1>3 DEF StatusCharBaseLevel
  <2> HIDE DEF r
  <2> QED BY <1>2, <2>1, NormalBecomes
<1>4. CASE StatusAllStats
  <2> DEFINE changed == {a \in ATTRs : sd'.attrs[a] # sd.attrs[a]}
  <2>1. PICK by \in Gains :
                /\ AllStats(by) \/ AllStats(-by)
                /\ Becomes(IF changed = {} THEN Now
                           ELSE IF changed = {"STR"} THEN Normal(Now, sd')
                           ELSE Normal(Normal(Now, sd'), sd'))
        BY <1>4 DEF StatusAllStats
  <2>2. CASE changed = {}
    <3>1. sd' \in Characters /\ sd'.on = sd.on
          BY <2>1, AttrsSetKept DEF PlayersInv
    <3>2. sd'.attrs \in [ATTRs -> 1 .. MaxParameter] /\ sd.attrs \in [ATTRs -> 1 .. MaxParameter]
          BY <1>1, <3>1, Parts
    <3>3. sd'.attrs = sd.attrs
          BY <2>2, <3>2
    <3>4. sd'.base_level = sd.base_level /\ sd'.poison = sd.poison
      <4>1. \E attrs : sd' = [sd EXCEPT !.attrs = attrs]
            BY <2>1 DEF AllStats, Grows
      <4> QED BY <1>1, <4>1 DEF Characters
    <3>5. Becomes(Now)
          BY <2>1, <2>2
    <3> QED BY <3>1, <3>3, <3>4, <3>5, NowCurrent, BecomesCurrent
  <2>3. CASE changed = {"STR"}
    <3>1. Becomes(Normal(Now, sd'))
          BY <2>1, <2>3
    <3> QED BY <1>1, <3>1, NormalBecomes
  <2>4. CASE changed # {} /\ changed # {"STR"}
    <3>1. Becomes(Normal(Normal(Now, sd'), sd'))
          BY <2>1, <2>4
    <3> QED BY <1>2, <3>1, NormalBecomes
  <2> QED BY <2>2, <2>3, <2>4
<1>5. CASE StatusSkReset
  <2>1. Becomes(Normal(Unfocused(Now), sd'))
        BY <1>5 DEF StatusSkReset
  <2> QED BY <1>1, <2>1, UnfocusedOutcomes, NormalBecomes
<1>6. CASE StatusReset
  <2> DEFINE bare == Outcomes({[pc EXCEPT !.worn = worn] : worn \in SUBSET pc.worn})
             one == [sd EXCEPT !.base_level = 1]
             before(wipe) == IF wipe THEN Normal(bare, one) ELSE Now
             r == [sd' EXCEPT !.skill = sd.skill]
  <2>1. PICK wipe \in BOOLEAN : Becomes(Normal(Unfocused(Normal(before(wipe), r)), sd'))
        BY <1>6 DEF StatusReset
  <2>2. \A o \in bare : Outcome(o)
    <3>1. ASSUME NEW worn PROVE Whole([pc EXCEPT !.worn = worn])
          BY <1>1, PartOfPcChanged DEF PartsOfPc
    <3> QED BY <3>1 DEF Outcomes, Outcome
  <2> HIDE DEF bare, one, r
  <2>3. \A o \in before(wipe) : Outcome(o)
    <3>1. \A o \in Normal(bare, one) : Outcome(o)
          BY <2>2, NormalCurrent DEF CurrentOutcomes
    <3> QED BY <1>1, <3>1
  <2> HIDE DEF before
  <2>4. \A o \in Normal(before(wipe), r) : Outcome(o)
        BY <2>3, NormalCurrent DEF CurrentOutcomes
  <2>5. \A o \in Unfocused(Normal(before(wipe), r)) : Outcome(o)
        BY <2>4, UnfocusedOutcomes
  <2> QED BY <2>1, <2>5, NormalBecomes
<1> QED BY <1>3, <1>4, <1>5, <1>6

-----------------------------------------------------------------------------
(* Gear, effects, skills in focus, spells. *)

LEMMA RecalculatedCurrent ==
    ASSUME StatusInv, NEW p, Whole(p), Does(Recalculated(p))
    PROVE  StatusInv'
<1>1. Becomes(Normal(Outcomes({p}), sd)) /\ sd' = sd
      BY DEF Does, Recalculated
<1>2. \A o \in Outcomes({p}) : Outcome(o)
      BY NowOutcomes DEF StatusInv
<1>3. Becomes(Normal(Outcomes({p}), sd'))
      BY <1>1
<1> QED BY <1>2, <1>3, NormalBecomes

LEMMA ArmedCurrent ==
    ASSUME Whole(pc), NEW charges
    PROVE  CurrentOutcomes(Armed(charges), sd)
<1> DEFINE half == [pc EXCEPT !.armed = TRUE]
           p == [pc EXCEPT !.armed = TRUE, !.charges = charges]
<1>1. Whole(half)
      BY PartOfPcChanged DEF PartsOfPc
<1>2. p = [half EXCEPT !.charges = charges]
      OBVIOUS
<1> HIDE DEF half
<1>3. Whole(p)
      BY <1>1, <1>2, PartOfPcChanged DEF PartsOfPc
<1> HIDE DEF p
<1>4. \A o \in Outcomes({p}) : Outcome(o)
      BY <1>3, NowOutcomes
<1>5. CurrentOutcomes(SetAttackInfo(Outcomes({p}), sd), sd)
      BY <1>4, SetAttackInfoCurrent
<1> QED BY <1>5 DEF Armed, p

LEMMA DisarmedCurrent ==
    ASSUME NEW O, \A o \in O : Outcome(o)
    PROVE  CurrentOutcomes(Disarmed(O), sd)
<1>1. \A o \in Discharged(O, sd) : Outcome(o)
      BY DischargedCurrent DEF CurrentOutcomes
<1>2. CurrentOutcomes(Normal(Discharged(O, sd), sd), sd)
      BY <1>1, NormalCurrent
<1> QED BY <1>2 DEF Disarmed

LEMMA DoesCurrent ==
    ASSUME NEW O, CurrentOutcomes(O, sd) \/ (~sd.on /\ \A o \in O : Outcome(o)), Does(O)
    PROVE  StatusInv'
<1>1. Becomes(O) /\ sd' = sd
      BY DEF Does
<1>2. \A o \in O : Outcome(o) /\ (sd'.on => Current(sd', o.p, o.c))
      BY <1>1 DEF CurrentOutcomes
<1> QED BY <1>1, <1>2, BecomesCurrent

\* pc_attack_timer with a spell: whatever its script does, what it leaves is current.
LEMMA SpellAttackCurrent ==
    ASSUME StatusInv, SpellAttack
    PROVE  StatusInv'
<1> DEFINE events == Now \cup Disarmed(Now) \cup UNION {Armed(n) : n \in 1 .. MaxCharges}
           used == {[o EXCEPT !.p.charges = @ - 1] : o \in events}
           over == {o \in used : o.p.charges = 0}
           end == (used \ over) \cup Disarmed(over)
<1>1. Does(end) /\ sd.on
      BY DEF SpellAttack, Does
<1>2. CurrentOutcomes(Now, sd)
  <2>1. \A o \in Now : Outcome(o) /\ o.p = pc /\ o.c = calc
        BY NowOutcomes DEF StatusInv
  <2> QED BY <1>1, <2>1 DEF StatusInv, CurrentOutcomes
<1>3. CurrentOutcomes(Disarmed(Now), sd)
      BY <1>2, DisarmedCurrent DEF CurrentOutcomes
<1>4. \A n \in 1 .. MaxCharges : CurrentOutcomes(Armed(n), sd)
      BY ArmedCurrent DEF StatusInv
<1>5. CurrentOutcomes(events, sd)
      BY <1>2, <1>3, <1>4 DEF CurrentOutcomes
<1> HIDE DEF events
<1>6. CurrentOutcomes(used, sd)
  <2>1. ASSUME NEW o \in events
        PROVE  LET u == [o EXCEPT !.p.charges = @ - 1]
               IN  Outcome(u) /\ Current(sd, u.p, u.c)
    <3> DEFINE fewer == o.p.charges - 1
               u == [o EXCEPT !.p.charges = fewer]
    <3>1. Outcome(o) /\ Current(sd, o.p, o.c)
          BY <1>5 DEF CurrentOutcomes
    <3> HIDE DEF fewer
    <3>2. Outcome(u) /\ u.p = [o.p EXCEPT !.charges = fewer] /\ u.c = o.c
          BY <3>1, OutcomeChanged DEF PartsOfPc
    <3>3. /\ u.p.worn = o.p.worn /\ u.p.effects = o.p.effects /\ u.p.current = o.p.current
          /\ u.p.override = o.p.override /\ u.p.armed = o.p.armed
          BY <3>1, <3>2 DEF Outcome, Whole, PartsOfPc
    <3> HIDE DEF u
    <3>4. Current(sd, u.p, u.c)
          BY <3>1, <3>2, <3>3 DEF Current, Paramc, Parame, Anomalies
    <3> QED BY <3>2, <3>4 DEF u, fewer
  <2> QED BY <2>1 DEF CurrentOutcomes
<1> HIDE DEF used
<1>7. CurrentOutcomes(Disarmed(over), sd)
  <2>1. \A o \in over : Outcome(o)
        BY <1>6 DEF CurrentOutcomes
  <2> HIDE DEF over
  <2> QED BY <2>1, DisarmedCurrent
<1>8. CurrentOutcomes(end, sd)
  <2> HIDE DEF over
  <2> QED BY <1>6, <1>7 DEF CurrentOutcomes
<1> HIDE DEF end
<1> QED BY <1>1, <1>8, DoesCurrent

LEMMA StatusNextCurrent ==
    ASSUME PlayersInv, StatusInv, StatusNext
    PROVE  StatusInv'
<1>1. Whole(pc)
      BY DEF StatusInv
<1>2. \A x \in PartsOfPc : \A v : Whole([pc EXCEPT ![x] = v])
      BY <1>1, PartOfPcChanged
<1>3. CASE \/ StatusLive \/ StatusRestart \/ StatusPoison \/ StatusPoisonTimer
           \/ StatusNaturalHeal \/ StatusQuit \/ StatusAuthok \/ LoadEndAck
      BY <1>3, LifeCurrent, ComingAndGoingCurrent
<1>4. CASE \/ StatusRaise \/ StatusExp \/ StatusSetExp \/ StatusPoints \/ StatusSkill
           \/ StatusSetSkill \/ StatusCharBaseLevel \/ StatusAllStats \/ StatusSkReset
           \/ StatusReset
      BY <1>4, GrowthCurrent, CommandsCurrent
<1>5. CASE \/ \E g \in Gear : Equip(g) \/ UnequipById(g)
           \/ Nude
  <2>1. PICK worn : Does(Recalculated([pc EXCEPT !.worn = worn]))
    <3>1. CASE \E g \in Gear : Equip(g)
          BY <3>1 DEF Equip
    <3>2. CASE \E g \in Gear : UnequipById(g)
          BY <3>2 DEF UnequipById
    <3>3. CASE Nude
          BY <3>3 DEF Nude
    <3> QED BY <1>5, <3>1, <3>2, <3>3
  <2> QED BY <1>2, <2>1, RecalculatedCurrent DEF PartsOfPc
<1>6. CASE \E e \in Effects : StartEffect(e) \/ EndEffect(e)
  <2>1. PICK effects : Does(Recalculated([pc EXCEPT !.effects = effects]))
    <3>1. CASE \E e \in Effects : StartEffect(e)
          BY <3>1 DEF StartEffect
    <3>2. CASE \E e \in Effects : EndEffect(e)
          BY <3>2 DEF EndEffect
    <3> QED BY <1>6, <3>1, <3>2
  <2> QED BY <1>2, <2>1, RecalculatedCurrent DEF PartsOfPc
<1>7. CASE \E s \in PoolSkills : PoolSkill(s) \/ UnpoolSkill(s)
  <2>1. PICK active : Does(Recalculated([pc EXCEPT !.active = active]))
    <3>1. CASE \E s \in PoolSkills : PoolSkill(s)
          BY <3>1 DEF PoolSkill, Activated
    <3>2. CASE \E s \in PoolSkills : UnpoolSkill(s)
          BY <3>2 DEF UnpoolSkill, Deactivated
    <3> QED BY <1>7, <3>1, <3>2
  <2> QED BY <1>2, <2>1, RecalculatedCurrent DEF PartsOfPc
<1>8. CASE \E n \in 1 .. MaxCharges : OverrideAttack(n)
      BY <1>1, <1>8, ArmedCurrent, DoesCurrent DEF OverrideAttack
<1>9. CASE StopOverride
  <2>1. \A o \in Now : Outcome(o)
        BY <1>1, NowOutcomes
  <2>2. CurrentOutcomes(Disarmed(Now), sd)
        BY <2>1, DisarmedCurrent
  <2> QED BY <1>9, <2>2, DoesCurrent DEF StopOverride
<1>10. CASE SpellAttack
       BY <1>10, SpellAttackCurrent
<1>11. CASE \E val \in {0, 1} : SetMaxWeight(val)
  <2>1. PICK override : Does(Recalculated([pc EXCEPT !.override = override]))
        BY <1>11 DEF SetMaxWeight
  <2> QED BY <1>2, <2>1, RecalculatedCurrent DEF PartsOfPc
<1> QED BY <1>3, <1>4, <1>5, <1>6, <1>7, <1>8, <1>9, <1>10, <1>11 DEF StatusNext

\* What happens to the character is a step of Players, or nothing.
LEMMA StatusNextMoves ==
    ASSUME StatusNext
    PROVE  Next \/ UNCHANGED << sd, regular >>
<1>1. CASE \/ StatusLive \/ StatusRestart \/ StatusPoison \/ StatusPoisonTimer
           \/ StatusNaturalHeal \/ StatusQuit \/ StatusAuthok \/ LoadEndAck
      BY <1>1 DEF StatusLive, StatusRestart, StatusPoison, StatusPoisonTimer, StatusNaturalHeal,
                  StatusQuit, StatusAuthok, LoadEndAck, Next, Live, Living, vars
<1>2. CASE StatusRaise \/ StatusSkReset \/ StatusSkill \/ StatusSetSkill
      BY <1>2 DEF StatusRaise, Raising, StatusSkReset, StatusSkill, StatusSetSkill, Next, Grow
<1>3. CASE \/ StatusExp \/ StatusSetExp \/ StatusPoints \/ StatusCharBaseLevel \/ StatusAllStats
           \/ StatusReset
      BY <1>3 DEF StatusExp, StatusSetExp, StatusPoints, StatusCharBaseLevel, StatusAllStats,
                  StatusReset, Next, Grow
<1>4. ASSUME NEW O, Does(O) PROVE UNCHANGED << sd, regular >>
      BY <1>4 DEF Does
<1>5. CASE \/ \E g \in Gear : Equip(g) \/ UnequipById(g)
           \/ Nude
           \/ \E e \in Effects : StartEffect(e) \/ EndEffect(e)
      BY <1>4, <1>5 DEF Equip, UnequipById, Nude, StartEffect, EndEffect
<1>6. CASE \/ \E s \in PoolSkills : PoolSkill(s) \/ UnpoolSkill(s)
           \/ \E n \in 1 .. MaxCharges : OverrideAttack(n)
           \/ StopOverride
           \/ \E val \in {0, 1} : SetMaxWeight(val)
      BY <1>4, <1>6 DEF PoolSkill, UnpoolSkill, OverrideAttack, StopOverride, SetMaxWeight
<1>7. CASE SpellAttack
      BY <1>4, <1>7 DEF SpellAttack
<1> QED BY <1>1, <1>2, <1>3, <1>5, <1>6, <1>7 DEF StatusNext

-----------------------------------------------------------------------------
(* Blows (Battle): what one takes is a number, and not less than nothing. *)

LEMMA PcBlockParts ==
    ASSUME NEW bl \in PcBlocks
    PROVE  /\ bl.pc = TRUE /\ bl.hp \in Nat /\ bl.param \in [ATTRs -> Int]
           /\ bl.base_atk \in Int /\ bl.atk \in Int /\ bl.atk2 \in Int
           /\ bl.def \in Int /\ bl.def2 \in Int /\ bl.wlv \in Nat /\ bl.range \in Nat
           /\ bl.arrow_atk \in Int /\ bl.atk_rate \in Int /\ bl.hp_drain_per \in Nat
           /\ bl.haste \in Nat /\ bl.shield \in Nat
BY DEF PcBlocks

LEMMA MobBlockParts ==
    ASSUME NEW bl \in MobBlocks
    PROVE  /\ bl.pc = FALSE /\ bl.hp \in Nat /\ bl.max_hp \in Nat /\ bl.param \in [ATTRs -> Int]
           /\ bl.lv \in Nat /\ bl.atk \in Nat /\ bl.atk2 \in Nat /\ bl.def \in Nat
           /\ bl.adelay \in Nat /\ bl.xp_bonus \in Nat /\ bl.base_exp \in Nat /\ bl.job_exp \in Nat
           /\ bl.haste \in Nat /\ bl.shield \in Nat
BY DEF MobBlocks

LEMMA ConfigNumbers ==
    /\ battle_config.monster_hp_rate \in Nat
    /\ battle_config.vit.count \in Int /\ battle_config.vit.num \in Int
BY BattleAssumption

LEMMA PercentType ==
    ASSUME NEW x \in Int, NEW rate \in Int
    PROVE  Percent(x, rate) \in Int
<1> DEFINE y == x * rate
<1>1. y \in Int
      OBVIOUS
<1> HIDE DEF y
<1>2. Quotient(y, 100) \in Int
      BY <1>1 DEF Quotient
<1> QED BY <1>2 DEF Percent, y

LEMMA ParamType ==
    ASSUME NEW bl \in PcBlocks \cup MobBlocks, NEW attr \in ATTRs
    PROVE  Param(bl, attr) \in Nat
<1>1. bl.param[attr] \in Int
      BY PcBlockParts, MobBlockParts
<1> QED BY <1>1 DEF Param, Larger

LEMMA AttackTypes ==
    ASSUME NEW bl \in PcBlocks \cup MobBlocks
    PROVE  BaseAtk(bl) \in Int /\ Atk(bl) \in Int /\ Atk2(bl) \in Int
<1>1. Param(bl, "STR") \in Nat
      BY ParamType DEF ATTRs
<1> DEFINE dstr == Param(bl, "STR") \div 10
           square == dstr * dstr
<1>2. dstr \in Int
      BY <1>1
<1> HIDE DEF dstr
<1>3. square \in Int
      BY <1>2
<1>4. BaseAtk(bl) = Larger(1, IF bl.pc THEN bl.base_atk ELSE square + Param(bl, "STR"))
      BY DEF BaseAtk, square, dstr
<1> HIDE DEF square
<1>5. CASE bl \in PcBlocks
  <2>1. bl.pc = TRUE /\ bl.base_atk \in Int /\ bl.atk \in Int /\ bl.atk2 \in Int
        BY <1>5, PcBlockParts
  <2> QED BY <1>4, <2>1 DEF Atk, Atk2, Larger
<1>6. CASE bl \in MobBlocks
  <2>1. bl.pc = FALSE /\ bl.atk \in Nat /\ bl.atk2 \in Nat
        BY <1>6, MobBlockParts
  <2> QED BY <1>1, <1>3, <1>4, <2>1 DEF Atk, Atk2, Larger
<1> QED BY <1>5, <1>6

LEMMA PenalisedType ==
    ASSUME NEW x \in Int, NEW attackers \in Int, NEW least \in Int
    PROVE  Penalised(x, attackers, battle_config.vit, least) \in Int
<1> DEFINE count == battle_config.vit.count
           num == battle_config.vit.num
           too_many == attackers - (count - 1)
           much == too_many * num
<1>1. count \in Int /\ num \in Int
      BY ConfigNumbers
<1> HIDE DEF count, num
<1>2. too_many \in Int
      BY <1>1
<1> HIDE DEF too_many
<1>3. much \in Int
      BY <1>1, <1>2
<1> HIDE DEF much
<1>4. Percent(x, 100 - much) \in Int
  <2>1. 100 - much \in Int
        BY <1>3
  <2> QED BY <2>1, PercentType
<1>5. Penalised(x, attackers, battle_config.vit, least)
        \in {x, Larger(least, Percent(x, 100 - much)), Larger(least, x - much)}
      BY DEF Penalised, much, too_many, num, count
<1> QED BY <1>3, <1>4, <1>5 DEF Larger

LEMMA DefenceTypes ==
    ASSUME NEW bl \in PcBlocks \cup MobBlocks
    PROVE  Def(bl) \in Int /\ Def2(bl) \in Int
<1>1. \A def \in Int : Weakened(bl, def) \in Int
  <2>1. \A def \in Int : Percent(def, 75) \in Int
        BY PercentType
  <2> QED BY <2>1 DEF Weakened
<1>2. bl.def \in Int /\ bl.param["VIT"] \in Int /\ (bl.pc => bl.def2 \in Int)
  <2>1. CASE bl \in PcBlocks
    <3>1. bl.param \in [ATTRs -> Int] /\ bl.def \in Int /\ bl.def2 \in Int
          BY <2>1, PcBlockParts
    <3> QED BY <3>1 DEF ATTRs
  <2>2. CASE bl \in MobBlocks
    <3>1. bl.param \in [ATTRs -> Int] /\ bl.def \in Nat /\ bl.pc = FALSE
          BY <2>2, MobBlockParts
    <3> QED BY <3>1 DEF ATTRs
  <2> QED BY <2>1, <2>2
<1> DEFINE d2 == IF bl.pc THEN bl.def2 ELSE bl.param["VIT"]
<1>3. d2 \in Int
      BY <1>2
<1>4. Def2(bl) = Larger(1, Weakened(bl, d2))
      BY DEF Def2
<1> HIDE DEF d2
<1>5. Weakened(bl, d2) \in Int /\ Weakened(bl, bl.def) \in Int
      BY <1>1, <1>2, <1>3
<1> QED BY <1>2, <1>4, <1>5 DEF Def, Larger

LEMMA BetweenType ==
    ASSUME NEW low \in Int, NEW high \in Int
    PROVE  Between(low, high) \subseteq Int
BY DEF Between

LEMMA DefendedType ==
    ASSUME NEW damages \in SUBSET Int, NEW bl \in PcBlocks \cup MobBlocks, NEW attackers \in Int
    PROVE  Defended(damages, bl, attackers) \subseteq Int
<1> DEFINE def1 == Penalised(Def(bl), attackers, battle_config.vit, 0)
           def2 == Penalised(Def2(bl), attackers, battle_config.vit, 1)
           t_vit == Penalised(Param(bl, "VIT"), attackers, battle_config.vit, 1)
           x == t_vit \div 20
           vitbonusmax == x * x - 1
<1>1. Def(bl) \in Int /\ Def2(bl) \in Int
      BY DefenceTypes
<1>2. Param(bl, "VIT") \in Int
      BY ParamType DEF ATTRs
<1>3. def1 \in Int /\ def2 \in Int /\ t_vit \in Int
  <2>1. 0 \in Int /\ 1 \in Int
        OBVIOUS
  <2>2. def1 \in Int
        BY <1>1, <2>1, PenalisedType
  <2>3. def2 \in Int
        BY <1>1, <2>1, PenalisedType
  <2>4. t_vit \in Int
        BY <1>2, <2>1, PenalisedType
  <2> QED BY <2>2, <2>3, <2>4
<1>4. Defended(damages, bl, attackers)
        = IF Def(bl) >= 1000000 THEN damages
          ELSE {Percent(damage, 100 - def1) - (def2 * 8) \div 10 - less :
                   damage \in damages, less \in Between(0, vitbonusmax)}
      BY DEF Defended
<1> HIDE DEF def1, def2, t_vit
<1>5. x \in Int
      BY <1>3
<1> HIDE DEF x
<1>6. vitbonusmax \in Int
      BY <1>5
<1> HIDE DEF vitbonusmax
<1>7. Between(0, vitbonusmax) \subseteq Int
      BY <1>6, BetweenType
<1>8. ASSUME NEW damage \in damages, NEW less \in Between(0, vitbonusmax)
      PROVE  Percent(damage, 100 - def1) - (def2 * 8) \div 10 - less \in Int
  <2>1. 100 - def1 \in Int /\ damage \in Int /\ less \in Int
        BY <1>3, <1>7
  <2>2. Percent(damage, 100 - def1) \in Int
        BY <2>1, PercentType
  <2> QED BY <1>3, <2>1, <2>2
<1> DEFINE rest == {Percent(damage, 100 - def1) - (def2 * 8) \div 10 - less :
                       damage \in damages, less \in Between(0, vitbonusmax)}
<1>9. rest \subseteq Int
      BY <1>8
<1>10. Defended(damages, bl, attackers) \in {damages, rest}
       BY <1>4
<1> HIDE DEF rest
<1> QED BY <1>9, <1>10

\* What is left in the end
LEMMA BlowType ==
    ASSUME NEW damage \in Nat, NEW missed, NEW lucky, NEW target, NEW div_ \in Nat
    PROVE  Blow(damage, missed, lucky, target, div_).damage \in Nat
<1> DEFINE d == IF target.plant THEN Smaller(1, damage) ELSE damage
<1>1. d \in Nat
      BY DEF Smaller
<1>2. Blow(damage, missed, lucky, target, div_).damage
         = IF lucky THEN 0 ELSE Final(d, div_, FALSE)
      BY DEF Blow
<1> HIDE DEF d
<1> QED BY <1>1, <1>2 DEF Final, Larger

\* battle_calc_mob_weapon_attack
LEMMA MobBlowsType ==
    ASSUME NEW src \in MobBlocks, NEW target \in PcBlocks \cup MobBlocks, NEW attackers \in Nat,
           NEW skill \in BOOLEAN, NEW blow \in MobBlows(src, target, attackers, skill)
    PROVE  blow.damage \in Nat
<1> DEFINE base == IF battle_config.enemy_str THEN BaseAtk(src) ELSE 0
           forces == Between(Smaller(Atk(src), Atk2(src)), Atk2(src))
           plain == {base + force : force \in forces}
           damages(yes) == IF yes THEN {base + Atk2(src)} ELSE Defended(plain, target, attackers)
<1>1. BaseAtk(src) \in Int /\ Atk(src) \in Int /\ Atk2(src) \in Int
      BY AttackTypes
<1>2. base \in Int /\ base + Atk2(src) \in Int
      BY <1>1
<1>3. forces \subseteq Int
  <2>1. Smaller(Atk(src), Atk2(src)) \in Int
        BY <1>1 DEF Smaller
  <2> QED BY <1>1, <2>1, BetweenType
<1>4. plain \in SUBSET Int
  <2> HIDE DEF base, forces
  <2>1. \A force \in forces : base + force \in Int
        BY <1>2, <1>3
  <2> QED BY <2>1
<1>5. Defended(plain, target, attackers) \subseteq Int
  <2>1. attackers \in Int
        OBVIOUS
  <2> HIDE DEF plain
  <2> QED BY <1>4, <2>1, DefendedType
<1>6. \A yes \in BOOLEAN : damages(yes) \subseteq Int
  <2> HIDE DEF base, plain
  <2> QED BY <1>2, <1>5
<1> DEFINE enemy_cri == Critical(src) - Param(target, "LUK") * 3
           cri == IF battle_config.enemy_critical_rate = 100 THEN enemy_cri
                  ELSE Larger(1, Percent(enemy_cri, battle_config.enemy_critical_rate))
           critical == IF skill \/ ~battle_config.enemy_critical THEN {FALSE}
                       ELSE Chance(IF target.pc THEN Percent(cri, 100 - target.critical_def) ELSE cri,
                                   1000)
           misses == Chance(100 - Clamped(HitRate(src, target, attackers), 5, 95), 100)
           missing(yes) == IF yes THEN {FALSE} ELSE misses
           luck == IF skill THEN {FALSE} ELSE Lucky(target)
           end(yes) == {Blow(IF missed THEN 0 ELSE Larger(1, damage), missed, lucky, target, 1) :
                           damage \in damages(yes), missed \in missing(yes), lucky \in luck}
<1>7. PICK yes \in BOOLEAN : \E damage \in damages(yes) : \E missed, lucky :
              blow = Blow(IF missed THEN 0 ELSE Larger(1, damage), missed, lucky, target, 1)
  <2>1. MobBlows(src, target, attackers, skill) = UNION {end(yes) : yes \in critical}
        BY DEF MobBlows
  <2>2. critical \subseteq BOOLEAN
        BY DEF Chance
  <2> HIDE DEF damages, critical, missing, luck
  <2>3. ASSUME NEW yes, blow \in end(yes)
        PROVE  \E damage \in damages(yes) : \E missed, lucky :
                  blow = Blow(IF missed THEN 0 ELSE Larger(1, damage), missed, lucky, target, 1)
        BY <2>3
  <2> HIDE DEF end
  <2>4. PICK yes \in critical : blow \in end(yes)
        BY <2>1
  <2> QED BY <2>2, <2>3, <2>4
<1> HIDE DEF damages
<1> PICK damage \in damages(yes) : \E missed, lucky :
            blow = Blow(IF missed THEN 0 ELSE Larger(1, damage), missed, lucky, target, 1)
    BY <1>7
<1> PICK missed, lucky :
            blow = Blow(IF missed THEN 0 ELSE Larger(1, damage), missed, lucky, target, 1)
    OBVIOUS
<1> DEFINE left_over == IF missed THEN 0 ELSE Larger(1, damage)
<1>8. left_over \in Nat
  <2>1. damage \in Int
        BY <1>6
  <2> QED BY <2>1 DEF Larger
<1>9. blow = Blow(left_over, missed, lucky, target, 1)
      OBVIOUS
<1> HIDE DEF left_over
<1> QED BY <1>8, <1>9, BlowType

\* battle_calc_pc_weapon_attack
LEMMA PcDamagesType ==
    ASSUME NEW src \in PcBlocks, NEW target \in PcBlocks \cup MobBlocks, NEW attackers \in Nat,
           NEW distance \in Nat, NEW way, NEW damage \in PcDamages(src, target, attackers, distance, way)
    PROVE  damage \in Nat
<1> DEFINE base == AtDistance(src, distance)
           arrows == IF src.bow THEN Between(0, src.arrow_atk) ELSE {0}
           plain == {Percent(base + force, src.atk_rate) + arrow :
                        force \in Forces(src), arrow \in arrows}
           critical == Percent(base + Atk(src), src.atk_rate) + IF src.bow THEN src.arrow_atk ELSE 0
<1>1. /\ BaseAtk(src) \in Int /\ Atk(src) \in Int /\ Atk2(src) \in Int
      /\ src.atk_rate \in Int /\ src.arrow_atk \in Int /\ src.range \in Nat /\ src.wlv \in Nat
      BY AttackTypes, PcBlockParts
<1>2. target.hp \in Nat
      BY PcBlockParts, MobBlockParts
<1>3. base \in Int
  <2> DEFINE far == 256 + (80 * distance) \div src.range
             more == BaseAtk(src) * far
  <2>1. CASE src.range > 2
    <3>1. far \in Int
          BY <1>1, <2>1
    <3> HIDE DEF far
    <3>2. more \in Int
          BY <1>1, <3>1
    <3>3. AtDistance(src, distance) = more \div 256
          BY <2>1 DEF AtDistance, more, far
    <3> HIDE DEF more
    <3> QED BY <3>2, <3>3
  <2>2. CASE ~(src.range > 2)
        BY <1>1, <2>2 DEF AtDistance
  <2> QED BY <2>1, <2>2
<1> HIDE DEF base
<1>4. \A x \in Int : Percent(base + x, src.atk_rate) \in Int
  <2> TAKE x \in Int
  <2>1. base + x \in Int
        BY <1>3
  <2> QED BY <1>1, <2>1, PercentType
<1>5. critical \in Int
  <2>1. Percent(base + Atk(src), src.atk_rate) \in Int
        BY <1>1, <1>4
  <2> QED BY <1>1, <2>1
<1>6. Forces(src) \subseteq Int
  <2> DEFINE dex == Percent(Param(src, "DEX"), 80 + src.wlv * 20)
             few == Smaller(dex, Atk(src))
             least == IF src.bow THEN Percent(Atk(src), few) ELSE few
  <2>1. dex \in Int
    <3>1. Param(src, "DEX") \in Int
          BY ParamType DEF ATTRs
    <3>2. 80 + src.wlv * 20 \in Int
          BY <1>1
    <3> QED BY <3>1, <3>2, PercentType
  <2>2. Forces(src) = Between(least, Atk(src))
        BY DEF Forces
  <2> HIDE DEF dex
  <2>3. few \in Int
        BY <1>1, <2>1 DEF Smaller
  <2> HIDE DEF few
  <2>4. Percent(Atk(src), few) \in Int
        BY <1>1, <2>3, PercentType
  <2>5. least \in Int
        BY <2>3, <2>4
  <2> HIDE DEF least
  <2> QED BY <1>1, <2>2, <2>5, BetweenType
<1>7. arrows \subseteq Int
  <2>1. Between(0, src.arrow_atk) \subseteq Int
        BY <1>1, BetweenType
  <2> QED BY <2>1
<1>8. plain \in SUBSET Int
  <2>1. ASSUME NEW force \in Forces(src), NEW arrow \in arrows
        PROVE  Percent(base + force, src.atk_rate) + arrow \in Int
    <3>1. force \in Int /\ arrow \in Int
          BY <1>6, <1>7
    <3>2. Percent(base + force, src.atk_rate) \in Int
          BY <1>4, <3>1
    <3> QED BY <3>1, <3>2
  <2> HIDE DEF arrows
  <2> QED BY <2>1
<1>9. Defended(plain, target, attackers) \subseteq Int
  <2>1. attackers \in Int
        OBVIOUS
  <2> HIDE DEF plain
  <2> QED BY <1>8, <2>1, DefendedType
<1>10. PcDamages(src, target, attackers, distance, way)
         = CASE way = "deadly" -> {target.hp}
             [] way = "critical" -> {Larger(1, critical + Atk2(src))}
             [] OTHER -> {Larger(1, d + Atk2(src)) : d \in Defended(plain, target, attackers)}
       BY DEF PcDamages, plain, arrows, critical, base
<1> HIDE DEF critical, plain
<1>11. CASE way = "deadly"
       BY <1>2, <1>10, <1>11
<1>12. CASE way = "critical"
  <2>1. damage = Larger(1, critical + Atk2(src))
        BY <1>10, <1>12
  <2> QED BY <1>1, <1>5, <2>1 DEF Larger
<1>13. CASE way # "deadly" /\ way # "critical"
  <2>1. PICK d \in Defended(plain, target, attackers) : damage = Larger(1, d + Atk2(src))
        BY <1>10, <1>13
  <2>2. d \in Int
        BY <1>9
  <2> QED BY <1>1, <2>1, <2>2 DEF Larger
<1> QED BY <1>11, <1>12, <1>13

LEMMA PcBlowsType ==
    ASSUME NEW src \in PcBlocks, NEW target \in PcBlocks \cup MobBlocks, NEW attackers \in Nat,
           NEW distance \in Nat, NEW blow \in PcBlows(src, target, attackers, distance)
    PROVE  blow.damage \in Nat
<1> DEFINE times(way) == IF way = "doubled" THEN 2 ELSE 1
<1> DEFINE malus == Malus(src, distance)
           hitrate == HitRate(src, target, attackers) - malus * (malus + 1)
                        + IF src.bow THEN src.arrow_hit ELSE 0
           missed(way) == IF way = "critical" THEN {FALSE}
                          ELSE {miss \in Chance(100 - Larger(5, hitrate), 100) :
                                   miss => src.perfect_hit < 100}
           end(way) == {Blow(IF miss /\ way # "deadly" THEN 0 ELSE times(way) * damage,
                             miss, lucky, target, times(way)) :
                           damage \in PcDamages(src, target, attackers, distance, way),
                           miss \in missed(way), lucky \in Lucky(target)}
<1>1. \E way : \E damage \in PcDamages(src, target, attackers, distance, way) : \E miss, lucky :
         blow = Blow(IF miss /\ way # "deadly" THEN 0 ELSE times(way) * damage,
                     miss, lucky, target, times(way))
  <2>1. PcBlows(src, target, attackers, distance) = UNION {end(way) : way \in Ways(src, target)}
        BY DEF PcBlows
  <2> HIDE DEF times, missed
  <2>2. ASSUME NEW way, blow \in end(way)
        PROVE  \E damage \in PcDamages(src, target, attackers, distance, way) : \E miss, lucky :
                  blow = Blow(IF miss /\ way # "deadly" THEN 0 ELSE times(way) * damage,
                              miss, lucky, target, times(way))
        BY <2>2
  <2> HIDE DEF end
  <2>3. PICK way \in Ways(src, target) : blow \in end(way)
        BY <2>1
  <2> QED BY <2>2, <2>3
<1>2. PICK way : \E damage \in PcDamages(src, target, attackers, distance, way) : \E miss, lucky :
         blow = Blow(IF miss /\ way # "deadly" THEN 0 ELSE times(way) * damage,
                     miss, lucky, target, times(way))
      BY <1>1
<1>3. PICK damage \in PcDamages(src, target, attackers, distance, way) : \E miss, lucky :
         blow = Blow(IF miss /\ way # "deadly" THEN 0 ELSE times(way) * damage,
                     miss, lucky, target, times(way))
      BY <1>2
<1>4. PICK miss, lucky :
         blow = Blow(IF miss /\ way # "deadly" THEN 0 ELSE times(way) * damage,
                     miss, lucky, target, times(way))
      BY <1>3
<1>5. damage \in Nat
      BY PcDamagesType
<1> DEFINE much == IF miss /\ way # "deadly" THEN 0 ELSE times(way) * damage
<1>6. much \in Nat /\ times(way) \in Nat
      BY <1>5
<1>7. blow = Blow(much, miss, lucky, target, times(way))
      BY <1>4
<1> HIDE DEF much, times
<1> QED BY <1>6, <1>7, BlowType

\* battle_weapon_attack
LEMMA HitsType ==
    ASSUME NEW sources \in SUBSET (PcBlocks \cup MobBlocks),
           NEW targets \in SUBSET (PcBlocks \cup MobBlocks), NEW distances \in SUBSET Nat,
           NEW damage \in Hits(sources, targets, distances), IsFiniteSet(Fighters)
    PROVE  damage \in Nat \ {0}
<1> DEFINE end(src, bl, n, distance) ==
               {Taken(blow.damage, bl) : blow \in Blows(src, bl, n, distance)}
<1>1. PICK src \in sources, bl \in targets, n \in Attackers, distance \in distances :
              damage \in end(src, bl, n, distance)
  <2>1. Hits(sources, targets, distances)
           = (UNION {end(src, bl, n, distance) :
                        src \in sources, bl \in targets, n \in Attackers,
                        distance \in distances})
               \ {0}
        BY DEF Hits
  <2> HIDE DEF end
  <2> QED BY <2>1
<1>2. PICK blow \in Blows(src, bl, n, distance) : damage = Taken(blow.damage, bl)
      BY <1>1
<1>3. n \in Nat
  <2>1. Cardinality(Fighters) \in Nat
        BY FS_CardinalityType
  <2> QED BY <2>1 DEF Attackers
<1>4. blow.damage \in Nat
  <2>1. CASE src \in PcBlocks
    <3>1. src.pc = TRUE
          BY <2>1, PcBlockParts
    <3>2. blow \in PcBlows(src, bl, n, distance)
          BY <1>2, <3>1 DEF Blows
    <3> QED BY <1>3, <2>1, <3>2, PcBlowsType
  <2>2. CASE src \in MobBlocks
    <3>1. src.pc = FALSE
          BY <2>2, MobBlockParts
    <3>2. blow \in MobBlows(src, bl, n, FALSE)
          BY <1>2, <3>1 DEF Blows
    <3> QED BY <1>3, <2>2, <3>2, MobBlowsType
  <2> QED BY <2>1, <2>2
<1>5. bl.haste \in Nat /\ bl.shield \in Nat
      BY PcBlockParts, MobBlockParts
<1>6. Taken(blow.damage, bl) \in Nat
  <2> DEFINE d == blow.damage
             fast == d * (16 + bl.haste)
             hasty == fast \div 16
  <2>1. d \in Nat /\ fast \in Nat
    <3> DEFINE speed == 16 + bl.haste
    <3>1. d \in Nat /\ speed \in Nat
          BY <1>4, <1>5
    <3> HIDE DEF d, speed
    <3>2. d * speed \in Nat
          BY <3>1
    <3> QED BY <3>1, <3>2 DEF speed
  <2>2. Taken(d, bl) \in {0, hasty - Smaller(hasty, bl.shield), hasty}
        BY DEF Taken
  <2> HIDE DEF fast
  <2>3. hasty \in Nat
        BY <2>1
  <2> HIDE DEF hasty
  <2>4. hasty - Smaller(hasty, bl.shield) \in Nat
        BY <1>5, <2>3 DEF Smaller
  <2> QED BY <2>2, <2>3, <2>4
<1>7. damage # 0
      BY DEF Hits
<1> QED BY <1>2, <1>6, <1>7

-----------------------------------------------------------------------------
(* Mobs: what is known of one stays what mob_db could say of it. *)

\* GetMaxHp
LEMMA GetMaxHpType ==
    ASSUME NEW bl \in MobBlocks
    PROVE  GetMaxHp(bl) \in Nat \ {0}
<1> DEFINE rate == battle_config.monster_hp_rate
           all == bl.max_hp * rate
<1>1. bl.max_hp \in Nat /\ rate \in Nat /\ bl.pc = FALSE
      BY MobBlockParts, ConfigNumbers
<1>2. GetMaxHp(bl) = Larger(1, all \div 100)
      BY <1>1 DEF GetMaxHp
<1>3. all \in Nat
  <2> HIDE DEF rate
  <2> QED BY <1>1
<1> HIDE DEF all
<1> QED BY <1>2, <1>3 DEF Larger

LEMMA QuotientType ==
    ASSUME NEW x \in Int, NEW y \in Nat \ {0}
    PROVE  Quotient(x, y) \in Int
BY DEF Quotient

\* The stats that may change, one by one
LEMMA MobStatParts ==
    ASSUME NEW stats \in MobBlocks, NEW stat \in MobStats
    PROVE  /\ stats[stat] \in Nat
           /\ \A x \in Nat : [stats EXCEPT ![stat] = x] \in MobBlocks
<1>1. stat = "max_hp" \/ stat = "lv" \/ stat = "atk" \/ stat = "atk2" \/ stat = "def"
        \/ stat = "adelay"
      BY DEF MobStats
<1> QED BY <1>1 DEF MobBlocks
LEMMA BonusChanged ==
    ASSUME NEW stats \in MobBlocks
    PROVE  /\ \A x \in Nat : [stats EXCEPT !.xp_bonus = x] \in MobBlocks
           /\ \A x \in Nat, y \in Nat : [stats EXCEPT !.atk = x, !.atk2 = y] \in MobBlocks
BY DEF MobBlocks

\* mob_mutate, for one step of it
LEMMA ChangedType ==
    ASSUME NEW stats \in MobBlocks, NEW m \in MutationRules, NEW intensity \in Int
    PROVE  Changed(stats, m, intensity) \in MobBlocks
<1> DEFINE old == stats[m.stat]
           sign == IF m.stat = "adelay" THEN -1 ELSE 1
           new == Larger(0, old + Quotient(old * sign * intensity, 256))
           relative == IF old = 0 THEN 0 ELSE Quotient((new - old) * 256, old)
           absolute == IF m.base = -1 THEN relative ELSE Quotient((new - old) * 256, m.base)
           real == IF relative < 0 THEN Larger(relative, absolute)
                   ELSE IF relative > 0 THEN Smaller(relative, absolute) ELSE 0
           bonus == Larger(1, stats.xp_bonus + m.value * sign * real)
           mutant == [stats EXCEPT ![m.stat] = new, !.xp_bonus = bonus]
           low == Smaller(mutant.atk, mutant.atk2)
           high == Larger(mutant.atk, mutant.atk2)
<1>1. /\ m.stat \in MobStats /\ m.value \in Int
      /\ m.base = -1 \/ m.base \in Nat \ {0}
      BY DEF MutationRules
<1>2. old \in Nat /\ sign \in Int /\ stats.xp_bonus \in Nat
  <2>1. old \in Nat
        BY <1>1, MobStatParts
  <2>2. stats.xp_bonus \in Nat
        BY MobBlockParts
  <2> QED BY <2>1, <2>2
<1>3. Changed(stats, m, intensity) = [mutant EXCEPT !.atk = low, !.atk2 = high]
  <2>1. stats.xp_bonus = stats["xp_bonus"] /\ m.stat # "xp_bonus"
        BY <1>1 DEF MobStats
  <2> QED BY <2>1 DEF Changed
<1> HIDE DEF old, sign
<1>4. new \in Nat
  <2> DEFINE much == old * sign
             more == much * intensity
             by == Quotient(more, 256)
  <2>1. much \in Int
        BY <1>2
  <2>2. more \in Int
    <3> HIDE DEF much
    <3> QED BY <2>1
  <2>3. by \in Int
    <3> HIDE DEF more
    <3> QED BY <2>2, QuotientType
  <2>4. new = Larger(0, old + by)
        OBVIOUS
  <2> HIDE DEF by
  <2> QED BY <1>2, <2>3, <2>4 DEF Larger
<1> HIDE DEF new
<1>5. (new - old) * 256 \in Int
      BY <1>2, <1>4
<1>6. relative \in Int
      BY <1>2, <1>5, QuotientType
<1>7. absolute \in Int
      BY <1>1, <1>5, <1>6, QuotientType
<1> HIDE DEF relative, absolute
<1>8. real \in Int
      BY <1>6, <1>7 DEF Larger, Smaller
<1> HIDE DEF real
<1>9. bonus \in Nat
  <2> DEFINE worth == m.value * sign
             more == worth * real
  <2>1. worth \in Int
        BY <1>1, <1>2
  <2>2. more \in Int
    <3> HIDE DEF worth
    <3> QED BY <1>8, <2>1
  <2>3. bonus = Larger(1, stats.xp_bonus + more)
        OBVIOUS
  <2> HIDE DEF more
  <2> QED BY <1>2, <2>2, <2>3 DEF Larger
<1> HIDE DEF bonus
<1>10. mutant \in MobBlocks
  <2>1. [stats EXCEPT ![m.stat] = new] \in MobBlocks
        BY <1>1, <1>4, MobStatParts
  <2>2. [[stats EXCEPT ![m.stat] = new] EXCEPT !.xp_bonus = bonus] \in MobBlocks
        BY <1>9, <2>1, BonusChanged
  <2> QED BY <2>2
<1> HIDE DEF mutant
<1>11. low \in Nat /\ high \in Nat
       BY <1>10, MobBlockParts DEF Larger, Smaller
<1> HIDE DEF low, high
<1> QED BY <1>3, <1>10, <1>11, BonusChanged

\* mob_mutate and mob_init
LEMMA MutatedType ==
    ASSUME NEW stats \in MobBlocks, NEW m \in MutationRules, NEW intensity \in Int
    PROVE  Mutated(stats, m, intensity) \in MobBlocks
<1> DEFINE steps == (Larger(intensity, -intensity) - 1) \div m.scale
           rest == IF intensity < 0 THEN intensity + steps * m.scale
                   ELSE intensity - steps * m.scale
           F(g, k) == [n \in 0 .. k |-> IF n = 0 THEN stats ELSE Changed(g[n - 1], m, m.scale)]
           Defined == {k \in Nat : \E g : g = F(g, k)}
           after == CHOOSE g : g = F(g, steps)
<1> SUFFICES ASSUME intensity # 0
             PROVE  Mutated(stats, m, intensity) \in MobBlocks
    BY DEF Mutated
<1>1. m.scale \in Nat \ {0}
      BY DEF MutationRules
<1>2. steps \in Nat
  <2> DEFINE much == Larger(intensity, -intensity) - 1
  <2>1. much \in Nat
        BY DEF Larger
  <2> HIDE DEF much
  <2>2. much \div m.scale \in Nat
        BY <1>1, <2>1
  <2> QED BY <2>2 DEF much
<1>3. 0 \in Defined
  <2>1. [n \in 0 .. 0 |-> stats] = F([n \in 0 .. 0 |-> stats], 0)
        OBVIOUS
  <2> QED BY <2>1
<1>4. ASSUME NEW k \in Nat, k \in Defined PROVE k + 1 \in Defined
  <2>1. PICK g : g = F(g, k)
        BY <1>4
  <2> DEFINE h == [n \in 0 .. k + 1 |-> IF n = 0 THEN stats ELSE Changed(g[n - 1], m, m.scale)]
  <2>2. \A n \in 0 .. k : h[n] = g[n]
        BY <2>1
  <2>3. h = F(h, k + 1)
    <3>1. \A n \in 0 .. k + 1 : n # 0 => n - 1 \in 0 .. k
          OBVIOUS
    <3> QED BY <2>2, <3>1
  <2> HIDE DEF h
  <2> QED BY <2>3
<1>5. steps \in Defined
  <2> HIDE DEF Defined, steps
  <2> QED BY <1>2, <1>3, <1>4, Induction
<1>6. Mutated(stats, m, intensity) = Changed(after[steps], m, rest)
      BY DEF Mutated
<1> HIDE DEF steps
<1>7. after = F(after, steps)
  <2>1. \E g : g = F(g, steps)
        BY <1>5
  <2> HIDE DEF F
  <2> QED BY <2>1
<1> HIDE DEF after
<1> DEFINE Good == {n \in Nat : n \in 0 .. steps => after[n] \in MobBlocks}
<1>8. 0 \in Good
      BY <1>7
<1>9. ASSUME NEW n \in Nat, n \in Good PROVE n + 1 \in Good
  <2> SUFFICES ASSUME n + 1 \in 0 .. steps PROVE after[n + 1] \in MobBlocks
        OBVIOUS
  <2>1. n \in 0 .. steps - 1 /\ after[n] \in MobBlocks
        BY <1>2, <1>9
  <2>2. n + 1 # 0 /\ (n + 1) - 1 = n
        OBVIOUS
  <2>3. after[n + 1] = Changed(after[n], m, m.scale)
        BY <1>7, <2>2
  <2> HIDE DEF F, Good
  <2> QED BY <1>1, <2>1, <2>3, ChangedType
<1>10. steps \in Good
  <2> HIDE DEF Good
  <2> QED BY <1>2, <1>8, <1>9, Induction
<1>11. after[steps] \in MobBlocks
       BY <1>2, <1>10
<1>12. rest \in Int
  <2> DEFINE back == steps * m.scale
  <2>1. back \in Int
        BY <1>1, <1>2
  <2> HIDE DEF back
  <2>2. intensity + back \in Int /\ intensity - back \in Int
        BY <2>1
  <2> QED BY <2>2 DEF back
<1> HIDE DEF rest
<1> QED BY <1>6, <1>11, <1>12, ChangedType

LEMMA BornType ==
    ASSUME NEW m \in Mutations
    PROVE  Born(Species, m, m.strength) \in MobBlocks
<1>1. m \in MutationRules /\ Species \in MobBlocks
      BY FightsAssumption
<1>2. m.strength \in Int /\ m.scale \in Int
      BY <1>1 DEF MutationRules
<1> DEFINE intensity == Larger(-240, Percent(m.strength, m.scale))
<1>3. intensity \in Int
  <2>1. Percent(m.strength, m.scale) \in Int
        BY <1>2, PercentType
  <2> QED BY <2>1 DEF Larger
<1>4. Born(Species, m, m.strength) = Mutated(Species, m, intensity)
      BY DEF Born
<1> HIDE DEF intensity
<1> QED BY <1>1, <1>3, <1>4, MutatedType

-----------------------------------------------------------------------------
(* What the death of a mob is worth. *)

Logs == [Fighters -> Nat]
Foes == [here : BOOLEAN, hp : Nat, stats : MobBlocks, dmglogv : Logs, summoned : BOOLEAN]

LEMMA FightersFinite == IsFiniteSet(Fighters) /\ me \in Fighters
<1>1. IsFiniteSet({me}) /\ IsFiniteSet(Friends)
      BY FS_Singleton, FightsAssumption
<1> QED BY <1>1, FS_Union DEF Fighters

LEMMA DivMonotone ==
    ASSUME NEW x \in Nat, NEW y \in Nat, NEW k \in Nat \ {0}, x <= y
    PROVE  x \div k <= y \div k
<1> DEFINE p == x \div k
           q == y \div k
           d == p - q
<1>1. p \in Nat /\ q \in Nat
      OBVIOUS
<1>2. k * p <= x /\ y < k * q + k
      OBVIOUS
<1> HIDE DEF p, q
<1> SUFFICES ASSUME q + 1 <= p PROVE FALSE
    BY <1>1 DEF p, q
<1>3. d >= 1 /\ d \in Int /\ p = q + d
      BY <1>1
<1> HIDE DEF d
<1>4. k * (d - 1) >= 0
      BY <1>3
<1>5. k * p = k * q + k * d /\ k * (d - 1) = k * d - k
      BY <1>1, <1>3
<1> DEFINE kp == k * p
           kq == k * q
           kd == k * d
<1>6. kp <= x /\ y < kq + k /\ kp = kq + kd /\ kd - k >= 0
      BY <1>2, <1>4, <1>5
<1>7. kp \in Int /\ kq \in Int /\ kd \in Int
      BY <1>1, <1>3
<1> HIDE DEF kp, kq, kd
<1> QED BY <1>6, <1>7

\* damage_bonus_factor
LEMMA DamageBonusType ==
    ASSUME NEW log
    PROVE  DamageBonus(log) \in Nat
<1> DEFINE n == Cardinality({f \in Fighters : log[f] > 0})
           i == Clamped(n, 1, 6)
<1>1. n \in Nat
  <2>1. {f \in Fighters : log[f] > 0} \subseteq Fighters
        OBVIOUS
  <2>2. IsFiniteSet({f \in Fighters : log[f] > 0})
        BY <2>1, FightersFinite, FS_Subset
  <2> QED BY <2>2, FS_CardinalityType
<1> HIDE DEF n
<1>2. i \in 1 .. 6
      BY <1>1 DEF Clamped, Larger, Smaller
<1>3. DamageBonus(log) = << 100, 200, 250, 275, 290, 300 >>[i]
      BY DEF DamageBonus, n
<1> HIDE DEF i
<1>4. i = 1 \/ i = 2 \/ i = 3 \/ i = 4 \/ i = 5 \/ i = 6
      BY <1>2
<1> QED BY <1>3, <1>4

\* What is raised is not less than before, and less does not become more.
LEMMA RaiseRises ==
    ASSUME NEW n \in Nat \ {0}
    PROVE  /\ Raise(n) \in Nat /\ n <= Raise(n)
           /\ \A m \in Nat \ {0} : m <= n => Raise(m) <= Raise(n)
<1> DEFINE whole(m) == (115 * m) \div 100
<1>1. \A m \in Nat \ {0} :
         /\ whole(m) \in Nat /\ m <= whole(m)
         /\ m % 20 = 0 => m < whole(m)
      OBVIOUS
<1>2. \A m \in Nat \ {0} :
         \/ Raise(m) = whole(m)
         \/ Raise(m) = whole(m) - 1 /\ m % 20 = 0
      BY DEF Raise
<1>3. ASSUME NEW m \in Nat \ {0}, m < n
      PROVE  whole(m) <= whole(n) /\ (n % 20 = 0 => whole(m) < whole(n))
      BY <1>3
<1> HIDE DEF whole
<1>4. Raise(n) \in Nat /\ n <= Raise(n)
      BY <1>1, <1>2
<1>5. ASSUME NEW m \in Nat \ {0}, m <= n PROVE Raise(m) <= Raise(n)
  <2>1. CASE m = n
        BY <1>4, <2>1
  <2>2. CASE m < n
        BY <1>1, <1>2, <1>3, <2>2
  <2> QED BY <1>5, <2>1, <2>2
<1> QED BY <1>4, <1>5

\* Whose entry is raised: nobody's without pk_mode, and of those who did more than one
\* whose entry is raised all.
FromTheTop(raised, log) ==
    /\ raised = {} \/ battle_config.pk_mode
    /\ \A f, g \in Fighters : log[f] > log[g] /\ g \in raised => f \in raised

LEMMA RaisedFromTheTop ==
    ASSUME NEW log \in Logs, NEW r, NEW here, NEW where, NEW sharing,
           NEW raised \in Raised(r, log, here, where, sharing)
    PROVE  FromTheTop(raised, log)
<1>1. ASSUME NEW killer, raised \in UpTo(killer, log)
      PROVE  \A f, g \in Fighters : log[f] > log[g] /\ g \in raised => f \in raised
  <2>1. /\ killer \in Fighters
        /\ \A f \in Fighters : /\ log[f] > log[killer] => f \in raised
                               /\ log[f] < log[killer] => f \notin raised
        BY <1>1 DEF UpTo
  <2>2. \A f \in Fighters : log[f] \in Nat
        BY DEF Logs
  <2> SUFFICES ASSUME NEW f \in Fighters, NEW g \in Fighters, log[f] > log[g], g \in raised
               PROVE  f \in raised
      OBVIOUS
  <2>3. ~(log[g] < log[killer])
        BY <2>1
  <2>4. log[f] > log[killer]
        BY <2>1, <2>2, <2>3
  <2> QED BY <2>1, <2>4
<1>2. CASE here = {} \/ ~Stronger(1)
      BY <1>2 DEF Raised, FromTheTop
<1>3. CASE here # {} /\ Stronger(1)
  <2>1. \/ raised = {}
        \/ raised = Fighters
        \/ \E killer : raised \in UpTo(killer, log)
        BY <1>3 DEF Raised
  <2>2. battle_config.pk_mode
        BY <1>3 DEF Stronger
  <2> QED BY <1>1, <2>1, <2>2 DEF FromTheTop
<1> QED BY <1>2, <1>3

\* per of mob_damage: who did not do less does not get less, and nobody gets more
\* than twice what the mob was worth, or with pk_mode that raised.
LEMMA ShareBounds ==
    ASSUME foe \in Foes, NEW worth \in Nat, NEW log \in Logs, NEW raised, NEW f \in Fighters
    PROVE  /\ Share(worth, log, f, raised) \in Nat
           /\ raised = {} \/ battle_config.pk_mode => Share(worth, log, f, raised) <= MostOf(worth)
           /\ \A g \in Fighters :
                 log[g] <= log[f] /\ (g \in raised => f \in raised)
                 => Share(worth, log, g, raised) <= Share(worth, log, f, raised)
<1> DEFINE bonus == DamageBonus(log)
           hp == 100 * GetMaxHp(foe.stats)
           all(h) == worth * log[h] * bonus
           part(h) == all(h) \div hp
           least == worth \div 256
<1>1. bonus \in Nat /\ hp \in Nat \ {0} /\ least \in Nat /\ least <= worth
  <2>1. bonus \in Nat
        BY DamageBonusType
  <2>2. GetMaxHp(foe.stats) \in Nat \ {0}
        BY GetMaxHpType DEF Foes
  <2> QED BY <2>1, <2>2
<1> DEFINE exp(h) == Larger(1, Larger(least, Smaller(2 * worth, part(h))))
           none == foe.summoned /\ ~battle_config.alchemist_summon_reward
<1>2. \A h \in Fighters : Share(worth, log, h, raised) = IF none THEN 0
                                                       ELSE IF h \in raised THEN Raise(exp(h))
                                                       ELSE exp(h)
      BY DEF Share
<1> HIDE DEF none
<1> HIDE DEF bonus, hp, least
<1>3. ASSUME NEW h \in Fighters
      PROVE  all(h) \in Nat /\ part(h) \in Nat
  <2>1. log[h] \in Nat
        BY DEF Logs
  <2> DEFINE much == worth * log[h]
  <2>2. much \in Nat
        BY <2>1
  <2> HIDE DEF much
  <2>3. much * bonus \in Nat
        BY <1>1, <2>2
  <2>4. all(h) \in Nat
        BY <2>3 DEF much
  <2> HIDE DEF all
  <2> QED BY <1>1, <2>4
<1>4. ASSUME NEW g \in Fighters, log[g] <= log[f]
      PROVE  part(g) <= part(f)
  <2> DEFINE d == log[f] - log[g]
  <2>1. log[f] \in Nat /\ log[g] \in Nat
        BY DEF Logs
  <2>2. d \in Nat /\ log[f] = log[g] + d
        BY <1>4, <2>1
  <2> HIDE DEF d
  <2> DEFINE x == worth * log[g]
             y == worth * log[f]
             e == worth * d
  <2>3. x \in Nat /\ e \in Nat /\ y = x + e
        BY <2>1, <2>2
  <2> HIDE DEF x, y, e
  <2>4. x * bonus \in Nat /\ e * bonus \in Nat /\ y * bonus = x * bonus + e * bonus
        BY <1>1, <2>3
  <2> DEFINE xb == x * bonus
             yb == y * bonus
             eb == e * bonus
  <2>5. xb \in Nat /\ eb \in Nat /\ yb = xb + eb
        BY <2>4
  <2> HIDE DEF xb, yb, eb
  <2>6. xb <= yb /\ yb \in Nat
        BY <2>5
  <2>7. all(g) = xb /\ all(f) = yb
        BY DEF x, y, xb, yb
  <2> HIDE DEF all
  <2> QED BY <1>1, <1>3, <2>6, <2>7, DivMonotone
<1> HIDE DEF part
<1>5. ASSUME NEW h \in Fighters
      PROVE  exp(h) \in Nat \ {0} /\ exp(h) <= Larger(1, 2 * worth)
      BY <1>1, <1>3 DEF Larger, Smaller
<1>6. ASSUME NEW g \in Fighters, log[g] <= log[f]
      PROVE  exp(g) <= exp(f)
  <2>1. part(g) <= part(f) /\ part(g) \in Nat /\ part(f) \in Nat
        BY <1>3, <1>4, <1>6
  <2> QED BY <1>1, <2>1 DEF Larger, Smaller
<1> HIDE DEF exp
<1>7. ASSUME NEW h \in Fighters
      PROVE  Raise(exp(h)) \in Nat /\ exp(h) <= Raise(exp(h))
      BY <1>5, RaiseRises
<1>8. Share(worth, log, f, raised) \in Nat
      BY <1>2, <1>5, <1>7
<1>9. ASSUME raised = {} \/ battle_config.pk_mode
      PROVE  Share(worth, log, f, raised) <= MostOf(worth)
  <2> DEFINE most == Larger(1, 2 * worth)
  <2>1. most \in Nat \ {0} /\ exp(f) <= most /\ exp(f) \in Nat \ {0}
        BY <1>5 DEF Larger
  <2>2. MostOf(worth) = IF battle_config.pk_mode THEN Raise(most) ELSE most
        BY DEF MostOf
  <2> HIDE DEF most
  <2>3. Raise(most) \in Nat /\ most <= Raise(most) /\ Raise(exp(f)) <= Raise(most)
        BY <2>1, RaiseRises
  <2>4. CASE battle_config.pk_mode
        BY <1>2, <1>7, <2>1, <2>2, <2>3, <2>4
  <2>5. CASE raised = {} /\ ~battle_config.pk_mode
        BY <1>2, <2>1, <2>2, <2>5
  <2> QED BY <1>9, <2>4, <2>5
<1>10. ASSUME NEW g \in Fighters, log[g] <= log[f], g \in raised => f \in raised
       PROVE  Share(worth, log, g, raised) <= Share(worth, log, f, raised)
  <2>1. exp(g) <= exp(f) /\ exp(g) \in Nat \ {0} /\ exp(f) \in Nat \ {0}
        BY <1>5, <1>6, <1>10
  <2>2. Raise(exp(g)) <= Raise(exp(f))
        BY <2>1, RaiseRises
  <2> QED BY <1>2, <1>7, <1>10, <2>1, <2>2
<1> QED BY <1>8, <1>9, <1>10

\* What a party shares is a number.
Together(worth, log, raised, S) == SumOver(S, LAMBDA f : Share(worth, log, f, raised))

LEMMA SharedType ==
    ASSUME foe \in Foes, NEW worth \in Nat, NEW log \in Logs, NEW raised,
           NEW S \in SUBSET Fighters
    PROVE  Together(worth, log, raised, S) \in Nat
<1> DEFINE c == [f \in S |-> Share(worth, log, f, raised)]
           F(g) == [T \in SUBSET S |-> IF T = {} THEN 0
                                       ELSE LET x == CHOOSE y \in T : TRUE
                                            IN Share(worth, log, x, raised) + g[T \ {x}]]
           plus == CHOOSE g : g = F(g)
<1>1. IsFiniteSet(S)
      BY FightersFinite, FS_Subset
<1>2. c \in [S -> Nat]
  <2>1. ASSUME NEW f \in S PROVE Share(worth, log, f, raised) \in Nat
        BY ShareBounds
  <2> QED BY <2>1
<1>3. \A g : IsSum(g, S, c) <=> g = F(g)
  <2> TAKE g
  <2>1. ASSUME NEW T \in SUBSET S, T # {}
        PROVE  c[CHOOSE y \in T : TRUE] = Share(worth, log, CHOOSE y \in T : TRUE, raised)
    <3> DEFINE x == CHOOSE y \in T : TRUE
    <3>1. x \in S
          BY <2>1
    <3> HIDE DEF x
    <3>2. c[x] = Share(worth, log, x, raised)
          BY <3>1
    <3> QED BY <3>2 DEF x
  <2> HIDE DEF c
  <2> QED BY <2>1 DEF IsSum
<1>4. IsSum(plus, S, c)
  <2>1. \E g : IsSum(g, S, c)
    <3> HIDE DEF c
    <3> QED BY <1>1, SumExists
  <2> HIDE DEF F
  <2> QED BY <2>1, <1>3
<1>5. Together(worth, log, raised, S) = plus[S]
      BY DEF Together, SumOver
<1> HIDE DEF plus, c
<1> QED BY <1>1, <1>2, <1>4, <1>5, SumType

\* party_exp_share and the rest of mob_damage
Paid(worth, log, where, sharing, raised, P) ==
    /\ P \in [Fighters -> Nat]
    /\ \A f \in Fighters :
          /\ P[f] > 0 => log[f] > 0 \/ \E g \in sharing \cap Fighters : f \in sharing /\ log[g] > 0
          /\ f \notin sharing => P[f] = 0 \/ (P[f] = Share(worth, log, f, raised) /\ log[f] > 0)
          /\ where[f] # "here" => P[f] = 0

LEMMA PayoutIs ==
    ASSUME foe \in Foes, NEW worth \in Nat, NEW log \in Logs, NEW raised,
           NEW sharing \in SUBSET Fighters, NEW where \in [Fighters -> {"here", "dead", "away"}]
    PROVE  Paid(worth, log, where, sharing, raised, Payout(worth, log, where, sharing, raised))
<1> DEFINE P == Payout(worth, log, where, sharing, raised)
           earned == {f \in Fighters : log[f] > 0 /\ where[f] = "here"}
           base_exp == Together(worth, log, raised, earned \cap sharing)
           members == {f \in sharing : where[f] # "away"}
           n == Cardinality(members)
           part == base_exp \div n + 1
<1>1. P = [f \in Fighters |->
              IF where[f] # "here" \/ f \notin earned \cup sharing THEN 0
              ELSE IF f \notin sharing THEN Share(worth, log, f, raised)
              ELSE IF earned \cap sharing = {} THEN 0
              ELSE part]
      BY DEF Payout, Together
<1>2. base_exp \in Nat
  <2>1. earned \cap sharing \in SUBSET Fighters
        OBVIOUS
  <2> HIDE DEF earned
  <2> QED BY <2>1, SharedType
<1>3. ASSUME earned \cap sharing # {} PROVE part \in Nat
  <2>1. members \subseteq Fighters /\ members # {}
        BY <1>3
  <2>2. IsFiniteSet(members)
        BY <2>1, FightersFinite, FS_Subset
  <2>3. n \in Nat \ {0}
        BY <2>1, <2>2, FS_CardinalityType, FS_EmptySet
  <2> HIDE DEF n, base_exp
  <2> QED BY <1>2, <2>3
<1> HIDE DEF part
<1>4. ASSUME NEW f \in Fighters PROVE P[f] \in Nat
  <2>1. Share(worth, log, f, raised) \in Nat
        BY ShareBounds
  <2> HIDE DEF P
  <2> QED BY <1>1, <1>3, <2>1
<1>5. P \in [Fighters -> Nat]
  <2> HIDE DEF earned
  <2>1. P = [f \in Fighters |-> P[f]]
    <3> HIDE DEF P
    <3> QED BY <1>1
  <2> HIDE DEF P
  <2> QED BY <1>4, <2>1
<1> HIDE DEF P
<1>6. ASSUME NEW f \in Fighters
      PROVE  /\ P[f] > 0 => log[f] > 0 \/ \E g \in sharing \cap Fighters : f \in sharing /\ log[g] > 0
             /\ f \notin sharing => P[f] = 0 \/ (P[f] = Share(worth, log, f, raised) /\ log[f] > 0)
             /\ where[f] # "here" => P[f] = 0
  <2>1. CASE where[f] # "here" \/ f \notin earned \cup sharing
    <3>1. P[f] = 0
          BY <1>1, <2>1
    <3> QED BY <3>1
  <2>2. CASE ~(where[f] # "here" \/ f \notin earned \cup sharing) /\ f \notin sharing
    <3>1. P[f] = Share(worth, log, f, raised) /\ f \in earned
          BY <1>1, <2>2
    <3> QED BY <2>2, <3>1
  <2>3. CASE ~(where[f] # "here" \/ f \notin earned \cup sharing) /\ f \in sharing
                 /\ earned \cap sharing = {}
    <3>1. P[f] = 0
          BY <1>1, <2>3
    <3> QED BY <2>3, <3>1
  <2>4. CASE ~(where[f] # "here" \/ f \notin earned \cup sharing) /\ f \in sharing
                 /\ earned \cap sharing # {}
    <3>1. PICK g \in earned \cap sharing : TRUE
          BY <2>4
    <3> QED BY <2>4, <3>1
  <2> QED BY <2>1, <2>2, <2>3, <2>4
<1> QED BY <1>5, <1>6 DEF P, Paid

\* RewardsAreFair, of any payout
Fair(P, log, sharing, worth) ==
    \A f \in Fighters :
       /\ P[f] > 0 => log[f] > 0 \/ \E g \in sharing : f \in sharing /\ log[g] > 0
       /\ f \notin sharing => P[f] <= MostOf(worth)
       /\ \A g \in Fighters \ sharing :
             f \notin sharing /\ log[f] > log[g] /\ P[f] > 0 => P[f] >= P[g]

LEMMA MostType ==
    ASSUME NEW worth \in Nat
    PROVE  MostOf(worth) \in Nat
<1> DEFINE most == Larger(1, 2 * worth)
<1>1. most \in Nat \ {0}
      BY DEF Larger
<1>2. MostOf(worth) = IF battle_config.pk_mode THEN Raise(most) ELSE most
      BY DEF MostOf
<1> HIDE DEF most
<1> QED BY <1>1, <1>2, RaiseRises

LEMMA PaidIsFair ==
    ASSUME foe \in Foes, NEW worth \in Nat, NEW log \in Logs, NEW sharing, NEW where, NEW raised, NEW P,
           FromTheTop(raised, log),
           Paid(worth, log, where, sharing, raised, P)
    PROVE  Fair(P, log, sharing, worth)
<1> SUFFICES ASSUME NEW f \in Fighters
             PROVE  /\ P[f] > 0 => log[f] > 0 \/ \E g \in sharing : f \in sharing /\ log[g] > 0
                    /\ f \notin sharing => P[f] <= MostOf(worth)
                    /\ \A g \in Fighters \ sharing :
                          f \notin sharing /\ log[f] > log[g] /\ P[f] > 0 => P[f] >= P[g]
    BY DEF Fair
<1>1. /\ P[f] > 0 => log[f] > 0 \/ \E g \in sharing \cap Fighters : f \in sharing /\ log[g] > 0
      /\ f \notin sharing => P[f] = 0 \/ P[f] = Share(worth, log, f, raised)
      BY DEF Paid
<1>2. P[f] > 0 => log[f] > 0 \/ \E g \in sharing : f \in sharing /\ log[g] > 0
      BY <1>1
<1>3. /\ Share(worth, log, f, raised) \in Nat
      /\ Share(worth, log, f, raised) <= MostOf(worth)
      /\ \A g \in Fighters :
            log[g] <= log[f] /\ (g \in raised => f \in raised)
            => Share(worth, log, g, raised) <= Share(worth, log, f, raised)
      BY ShareBounds DEF FromTheTop
<1>4. MostOf(worth) \in Nat
      BY MostType
<1>5. f \notin sharing => P[f] <= MostOf(worth)
      BY <1>1, <1>3, <1>4
<1>6. ASSUME NEW g \in Fighters \ sharing, f \notin sharing, log[f] > log[g], P[f] > 0
      PROVE  P[f] >= P[g]
  <2>1. P[f] = Share(worth, log, f, raised)
        BY <1>1, <1>6
  <2>2. log[f] \in Nat /\ log[g] \in Nat
        BY DEF Logs
  <2>3. Share(worth, log, g, raised) <= Share(worth, log, f, raised)
    <3>1. log[g] <= log[f]
          BY <1>6, <2>2
    <3>2. g \in raised => f \in raised
          BY <1>6 DEF FromTheTop
    <3> QED BY <1>3, <3>1, <3>2
  <2>4. P[g] = 0 \/ P[g] = Share(worth, log, g, raised)
        BY <1>6 DEF Paid
  <2> QED BY <1>3, <2>1, <2>3, <2>4
<1> QED BY <1>2, <1>5, <1>6

LEMMA WorthType ==
    ASSUME foe \in Foes
    PROVE  BaseWorth \in Nat /\ JobWorth \in Nat
<1>1. foe.stats \in MobBlocks /\ Species \in MobBlocks
      BY FightsAssumption DEF Foes
<1>2. foe.stats.xp_bonus \in Nat /\ Species.base_exp \in Nat /\ Species.job_exp \in Nat
      BY <1>1, MobBlockParts
<1> DEFINE x == foe.stats.xp_bonus
           y == Species.base_exp
           all == y * x
<1>3. all \in Nat
  <2>1. x \in Nat /\ y \in Nat
        BY <1>2
  <2> HIDE DEF x, y
  <2> QED BY <2>1
<1>4. BaseWorth = all \div 1024
      BY DEF BaseWorth
<1> HIDE DEF all
<1> QED BY <1>2, <1>3, <1>4 DEF JobWorth

\* A blow for the foe, and the log of what was done in this life of it
FoeInv == foe \in Foes /\ did \in Logs /\ (foe.here => foe.dmglogv = did)

\* RewardsAreFair, of a state that pays nothing or what was paid before
LEMMA StillFair ==
    ASSUME FoeInv, FoeInv',
           \/ RewardsAreFair /\ UNCHANGED << did, paid, shared >> /\ foe'.stats = foe.stats
           \/ paid' = Nothing
    PROVE  RewardsAreFair'
<1>1. CASE RewardsAreFair /\ UNCHANGED << did, paid, shared >> /\ foe'.stats = foe.stats
      BY <1>1 DEF RewardsAreFair, BaseWorth
<1>2. CASE paid' = Nothing
  <2>1. BaseWorth' \in Nat
    <3>1. foe'.stats \in MobBlocks /\ Species \in MobBlocks
          BY FightsAssumption DEF FoeInv, Foes
    <3>2. foe'.stats.xp_bonus \in Nat /\ Species.base_exp \in Nat
          BY <3>1, MobBlockParts
    <3> DEFINE x == foe'.stats.xp_bonus
               y == Species.base_exp
               all == y * x
    <3>3. all \in Nat
      <4>1. x \in Nat /\ y \in Nat
            BY <3>2
      <4> HIDE DEF x, y
      <4> QED BY <4>1
    <3>4. BaseWorth' = all \div 1024
          BY DEF BaseWorth
    <3> HIDE DEF all
    <3> QED BY <3>3, <3>4
  <2>2. \A f \in Fighters : paid'[f] = 0
        BY <1>2 DEF Nothing
  <2>3. MostOf(BaseWorth') \in Nat
        BY <2>1, MostType
  <2> QED BY <2>2, <2>3 DEF RewardsAreFair, MostOf, Raise, Inexact, Larger
<1> QED BY <1>1, <1>2

LEMMA ReducedType ==
    ASSUME FoeInv, foe.here, NEW damage \in Nat, NEW by,
           foe' = Reduced(damage, by),
           did' = [f \in Fighters |-> did[f] + IF f = by THEN foe.hp - foe'.hp ELSE 0]
    PROVE  /\ FoeInv' /\ foe'.stats = foe.stats
           /\ did' = foe'.dmglogv
<1> DEFINE lost == Smaller(damage, foe.hp)
           log == [f \in Fighters |-> foe.dmglogv[f] + IF f = by THEN lost ELSE 0]
<1>1. foe.hp \in Nat /\ foe.here \in BOOLEAN /\ did \in Logs /\ foe.dmglogv = did
      BY DEF FoeInv, Foes
<1>2. lost \in Nat /\ foe.hp - lost \in Nat
      BY <1>1 DEF Smaller
<1>3. foe' = [foe EXCEPT !.hp = foe.hp - lost, !.here = (foe.here /\ lost < foe.hp),
                         !.dmglogv = log]
      BY DEF Reduced
<1> HIDE DEF lost
<1>4. log \in Logs
      BY <1>1, <1>2 DEF Logs
<1>5. foe' \in Foes /\ foe'.hp = foe.hp - lost /\ foe'.dmglogv = log /\ foe'.stats = foe.stats
  <2> HIDE DEF log
  <2>1. (foe.here /\ lost < foe.hp) \in BOOLEAN
        OBVIOUS
  <2> QED BY <1>2, <1>3, <1>4, <2>1 DEF FoeInv, Foes
<1>6. did' = log
  <2>1. foe.hp - foe'.hp = lost
        BY <1>1, <1>2, <1>5
  <2> QED BY <1>1, <2>1
<1> HIDE DEF log
<1> QED BY <1>4, <1>5, <1>6 DEF FoeInv

-----------------------------------------------------------------------------
(* The steps of a fight. *)

LEMMA LivedNot ==
    ASSUME NEW r \in Characters
    PROVE  Lived(r, r)
BY DEF Lived

\* What a death pays to the character
LEMMA RewardedRises ==
    ASSUME NEW r \in Characters, NEW base \in Nat, NEW job \in Nat
    PROVE  /\ Risen(r, Rewarded(r, base, job))
           /\ ~LevelledUp(r, base, job) => Rewarded(r, base, job).base_level = r.base_level
<1>1. CASE base = 0
  <2>1. Rewarded(r, base, job) = r
        BY <1>1 DEF Rewarded
  <2> QED BY <2>1, RisenNot
<1>2. CASE base # 0
  <2>1. Rewarded(r, base, job) = Gained(r, base, job)
        BY <1>2 DEF Rewarded
  <2>2. base > 0
        BY <1>2
  <2> QED BY <2>1, <2>2, GainedRises DEF LevelledUp
<1> QED BY <1>1, <1>2

\* A rise that raises no level
LEMMA RisenLives ==
    ASSUME NEW r \in Characters, NEW s, Risen(r, s), s.base_level = r.base_level
    PROVE  Lived(r, s)
<1>1. r.status_point \in Int /\ stat_p[r.base_level] \in Int
      BY LevelOf
<1>2. s.status_point = r.status_point
      BY <1>1 DEF Risen
<1> QED BY <1>2 DEF Risen, Lived, Dead

\* mob_damage: the character gets what is due, and all is calculated if it rises.
LEMMA StruckKeeps ==
    ASSUME PlayersInv, StatusInv, FoeInv, regular' = regular,
           NEW r, Lived(sd, r), NEW damage \in Nat, NEW by, NEW here, NEW drained \in Nat,
           Struck(r, damage, by, here, drained)
    PROVE  PlayersInv' /\ StatusInv' /\ FoeInv' /\ RewardsAreFair'
<1> DEFINE left_over == Reduced(damage, by)
           log == left_over.dmglogv
<1>1. /\ foe.here /\ foe' = left_over
      /\ did' = [f \in Fighters |-> did[f] + IF f = by THEN foe.hp - foe'.hp ELSE 0]
      BY DEF Struck
<1>2. FoeInv' /\ foe'.stats = foe.stats /\ did' = log
  <2>1. foe' = Reduced(damage, by)
        BY <1>1
  <2>2. FoeInv' /\ foe'.stats = foe.stats /\ did' = foe'.dmglogv
        BY <1>1, <2>1, ReducedType
  <2> QED BY <1>1, <2>2
<1>3. PICK where \in IF left_over.here THEN {[f \in Fighters |-> "away"]} ELSE Places(r, here) :
      \E sharing \in IF left_over.here THEN {{}} ELSE SUBSET Fighters :
      \E raised \in IF left_over.here THEN {{}} ELSE Raised(r, log, here, where, sharing) :
         LET job == Payout(JobWorth, log, where, sharing, raised)[me]
         IN  /\ paid' = Payout(BaseWorth, log, where, sharing, raised)
             /\ shared' = sharing
             /\ sd' \in IF drained = 0 THEN {Rewarded(r, paid'[me], job)}
                        ELSE Healed(Rewarded(r, paid'[me], job), drained)
             /\ MayKill(IF LevelledUp(r, paid'[me], job) THEN Normal(Now, sd') ELSE Now)
      BY DEF Struck
<1>4. PICK sharing \in IF left_over.here THEN {{}} ELSE SUBSET Fighters :
      \E raised \in IF left_over.here THEN {{}} ELSE Raised(r, log, here, where, sharing) :
         LET job == Payout(JobWorth, log, where, sharing, raised)[me]
         IN  /\ paid' = Payout(BaseWorth, log, where, sharing, raised)
             /\ shared' = sharing
             /\ sd' \in IF drained = 0 THEN {Rewarded(r, paid'[me], job)}
                        ELSE Healed(Rewarded(r, paid'[me], job), drained)
             /\ MayKill(IF LevelledUp(r, paid'[me], job) THEN Normal(Now, sd') ELSE Now)
      BY <1>3
<1>5. PICK raised \in IF left_over.here THEN {{}} ELSE Raised(r, log, here, where, sharing) :
         LET job == Payout(JobWorth, log, where, sharing, raised)[me]
         IN  /\ paid' = Payout(BaseWorth, log, where, sharing, raised)
             /\ shared' = sharing
             /\ sd' \in IF drained = 0 THEN {Rewarded(r, paid'[me], job)}
                        ELSE Healed(Rewarded(r, paid'[me], job), drained)
             /\ MayKill(IF LevelledUp(r, paid'[me], job) THEN Normal(Now, sd') ELSE Now)
      BY <1>4
<1> DEFINE base == paid'[me]
           job == Payout(JobWorth, log, where, sharing, raised)[me]
           s == Rewarded(r, base, job)
<1>6. /\ paid' = Payout(BaseWorth, log, where, sharing, raised)
      /\ shared' = sharing
      /\ sd' \in IF drained = 0 THEN {s} ELSE Healed(s, drained)
      /\ MayKill(IF LevelledUp(r, base, job) THEN Normal(Now, sd') ELSE Now)
      BY <1>5
<1>7. where \in [Fighters -> {"here", "dead", "away"}] /\ sharing \in SUBSET Fighters
      BY DEF Places
<1>8. foe \in Foes /\ log \in Logs /\ BaseWorth \in Nat /\ JobWorth \in Nat
      BY <1>2, WorthType DEF FoeInv
<1>9. FromTheTop(raised, log)
  <2>1. CASE left_over.here
        BY <2>1 DEF FromTheTop
  <2>2. CASE ~left_over.here
    <3>1. raised \in Raised(r, log, here, where, sharing)
          BY <2>2
    <3> HIDE DEF log
    <3> QED BY <1>8, <3>1, RaisedFromTheTop
  <2> QED BY <2>1, <2>2
<1> HIDE DEF log, left_over
<1>10. /\ Paid(BaseWorth, log, where, sharing, raised, paid')
       /\ Paid(JobWorth, log, where, sharing, raised, Payout(JobWorth, log, where, sharing, raised))
      BY <1>6, <1>7, <1>8, PayoutIs
<1>11. base \in Nat /\ job \in Nat
      BY <1>10, FightersFinite DEF Paid
<1>12. RewardsAreFair'
  <2>1. Fair(paid', log, sharing, BaseWorth)
        BY <1>8, <1>10, <1>9, PaidIsFair
  <2>2. Fair(paid', did', shared', BaseWorth)
        BY <1>2, <1>6, <2>1
  <2>3. BaseWorth' = BaseWorth
        BY <1>2 DEF BaseWorth
  <2> HIDE DEF base
  <2> QED BY <2>2, <2>3 DEF RewardsAreFair, Fair
<1> HIDE DEF base, job
<1>13. r \in Characters /\ Risen(r, s) /\ s \in Characters
       BY <1>11, RewardedRises DEF Lived, Risen
<1>14. Lived(s, sd')
  <2>1. drained \in Int
        OBVIOUS
  <2>2. CASE drained = 0
        BY <1>6, <1>13, <2>2, LivedNot
  <2>3. CASE drained # 0
    <3>1. sd' \in Healed(s, drained)
          BY <1>6, <2>3
    <3> HIDE DEF s
    <3> QED BY <1>13, <2>1, <3>1, HealedLives
  <2> QED BY <2>2, <2>3
<1>15. PlayersInv'
  <2>1. Kept(sd, r) /\ Kept(r, s) /\ Kept(s, sd')
        BY <1>13, <1>14, LivedKept, RisenKept
  <2> HIDE DEF s
  <2> QED BY <2>1 DEF PlayersInv, Kept
<1>16. StatusInv'
  <2>1. CASE LevelledUp(r, base, job)
    <3>1. MayKill(Normal(Now, sd'))
          BY <1>6, <2>1
    <3>2. \A o \in Now : Outcome(o)
          BY NowOutcomes DEF StatusInv
    <3>3. CurrentOutcomes(Normal(Now, sd'), sd')
          BY <3>2, NormalCurrent
    <3> QED BY <3>1, <3>3, MayKillCurrent DEF CurrentOutcomes
  <2>2. CASE ~LevelledUp(r, base, job)
    <3>1. MayKill(Now)
          BY <1>6, <2>2
    <3>2. s.base_level = r.base_level
          BY <1>11, <1>13, <2>2, RewardedRises
    <3>3. Lived(r, s)
          BY <1>13, <3>2, RisenLives
    <3>4. Lived(sd, sd')
      <4> HIDE DEF s
      <4>1. Lived(sd, s)
            BY <3>3, LivedTwice
      <4> QED BY <1>14, <4>1, LivedTwice
    <3> QED BY <3>1, <3>4, LivedSpares, SparedCurrent
  <2> QED BY <2>1, <2>2
<1> QED BY <1>2, <1>12, <1>15, <1>16

LEMMA FoeType ==
    ASSUME foe \in Foes
    PROVE  Foe \subseteq MobBlocks
<1> SUFFICES ASSUME NEW poisoned \in BOOLEAN
             PROVE  [foe.stats EXCEPT !.hp = foe.hp, !.poisoned = poisoned] \in MobBlocks
    BY DEF Foe
<1> DEFINE hp == foe.hp
           stats == foe.stats
<1>1. stats \in MobBlocks /\ hp \in Nat
      BY DEF Foes
<1> HIDE DEF hp, stats
<1>2. [stats EXCEPT !.hp = hp, !.poisoned = poisoned] \in MobBlocks
      BY <1>1 DEF MobBlocks
<1> QED BY <1>2 DEF hp, stats

LEMMA BlocksType ==
    Builds \subseteq PcBlocks /\ Servants \subseteq MobBlocks /\ Distances \subseteq Nat
      /\ {0} \subseteq Nat
BY FightsAssumption

LEMMA SkillHitsType ==
    ASSUME foe \in Foes, NEW damage \in SkillHits
    PROVE  damage \in Nat
<1> DEFINE end(bl, b, n) == {blow.damage : blow \in MobBlows(bl, b, n, TRUE)}
<1>1. PICK bl \in Foe, b \in Builds, n \in Attackers : damage \in end(bl, b, n)
  <2>1. SkillHits = (UNION {end(bl, b, n) : bl \in Foe, b \in Builds, n \in Attackers}) \ {0}
        BY DEF SkillHits
  <2> HIDE DEF end
  <2> QED BY <2>1
<1>2. PICK blow \in MobBlows(bl, b, n, TRUE) : damage = blow.damage
      BY <1>1
<1>3. n \in Nat
  <2>1. Cardinality(Fighters) \in Nat
        BY FightersFinite, FS_CardinalityType
  <2> QED BY <2>1 DEF Attackers
<1>4. bl \in MobBlocks /\ b \in PcBlocks \cup MobBlocks
      BY FoeType, BlocksType
<1>5. TRUE \in BOOLEAN
      OBVIOUS
<1> QED BY <1>2, <1>3, <1>4, <1>5, MobBlowsType

LEMMA SelfdestructType ==
    ASSUME NEW bl \in MobBlocks
    PROVE  SelfdestructDamage(bl) \in Nat
<1>1. bl.hp \in Nat
      BY MobBlockParts
<1> QED BY <1>1 DEF SelfdestructDamage, Final, Larger

\* A blow of the character, and what it gets out of it
LEMMA OwnHitsType ==
    ASSUME foe \in Foes, NEW hit \in OwnHits
    PROVE  hit.damage \in Nat /\ hit.drained \in Nat
<1> DEFINE strokes(b) == UNION {[damage : {damage}, drained : Drained(b, damage)] :
                                   damage \in Hits({b}, Foe, Distances)}
<1>1. PICK b \in Builds : hit \in strokes(b)
  <2>1. OwnHits = UNION {strokes(b) : b \in Builds}
        BY DEF OwnHits
  <2> HIDE DEF strokes
  <2> QED BY <2>1
<1>2. PICK damage \in Hits({b}, Foe, Distances) :
              hit \in [damage : {damage}, drained : Drained(b, damage)]
      BY <1>1
<1>3. damage \in Nat
  <2>1. {b} \in SUBSET (PcBlocks \cup MobBlocks) /\ Foe \in SUBSET (PcBlocks \cup MobBlocks)
        BY BlocksType, FoeType
  <2>2. Distances \in SUBSET Nat
        BY BlocksType
  <2>3. damage \in Nat \ {0}
        BY <2>1, <2>2, FightersFinite, HitsType
  <2> QED BY <2>3
<1>4. hit.damage = damage /\ hit.drained \in Drained(b, damage)
      BY <1>2
<1>5. b.hp_drain_per \in Nat
      BY BlocksType, PcBlockParts
<1>6. hit.drained \in {(damage * b.hp_drain_per) \div 100, 0}
      BY <1>4 DEF Drained
<1> DEFINE much == damage * b.hp_drain_per
<1>7. much \in Nat
  <2> DEFINE per == b.hp_drain_per
  <2>1. per \in Nat
        BY <1>5
  <2> HIDE DEF per
  <2>2. damage * per \in Nat
        BY <1>3, <2>1
  <2> QED BY <2>2 DEF per
<1>8. hit.drained \in {much \div 100, 0}
      BY <1>6
<1> HIDE DEF much
<1> QED BY <1>3, <1>4, <1>7, <1>8

\* A blow that is struck, by whom it may be
LEMMA BlowsKeep ==
    ASSUME PlayersInv, StatusInv, FoeInv,
           Attack \/ Assist \/ ServantAttacks \/ HurtBySomethingElse
    PROVE  PlayersInv' /\ StatusInv' /\ FoeInv' /\ RewardsAreFair'
<1>1. sd \in Characters /\ Lived(sd, sd) /\ foe \in Foes /\ 0 \in Nat
      BY LivedNot DEF PlayersInv, FoeInv
<1>2. regular' = regular
      BY DEF Attack, Assist, ServantAttacks, HurtBySomethingElse, Fights
<1>3. CASE Attack
  <2>1. PICK hit \in OwnHits : Struck(sd, hit.damage, me, {me}, hit.drained)
        BY <1>3 DEF Attack
  <2>2. hit.damage \in Nat /\ hit.drained \in Nat
        BY <1>1, OwnHitsType
  <2> QED BY <1>1, <1>2, <2>1, <2>2, StruckKeeps
<1>4. CASE Assist
  <2>1. PICK f \in Friends : \E damage \in Hits(Builds, Foe, {0}) : Struck(sd, damage, f, {f}, 0)
        BY <1>4 DEF Assist
  <2>2. PICK damage \in Hits(Builds, Foe, {0}) : Struck(sd, damage, f, {f}, 0)
        BY <2>1
  <2>3. /\ Builds \in SUBSET (PcBlocks \cup MobBlocks) /\ Foe \in SUBSET (PcBlocks \cup MobBlocks)
        /\ {0} \in SUBSET Nat
        BY <1>1, BlocksType, FoeType
  <2>4. damage \in Nat \ {0}
        BY <2>3, FightersFinite, HitsType
  <2>5. damage \in Nat
        BY <2>4
  <2> QED BY <1>1, <1>2, <2>2, <2>5, StruckKeeps
<1>5. CASE ServantAttacks
  <2>1. PICK f \in Fighters :
           \E damage \in Hits(Servants, Foe, {0}) : Struck(sd, damage, f, {}, 0)
        BY <1>5 DEF ServantAttacks
  <2>2. PICK damage \in Hits(Servants, Foe, {0}) : Struck(sd, damage, f, {}, 0)
        BY <2>1
  <2>3. /\ Servants \in SUBSET (PcBlocks \cup MobBlocks) /\ Foe \in SUBSET (PcBlocks \cup MobBlocks)
        /\ {0} \in SUBSET Nat
        BY <1>1, BlocksType, FoeType
  <2>4. damage \in Nat \ {0}
        BY <2>3, FightersFinite, HitsType
  <2>5. damage \in Nat
        BY <2>4
  <2> QED BY <1>1, <1>2, <2>2, <2>5, StruckKeeps
<1>6. CASE HurtBySomethingElse
  <2>1. PICK damage \in 1 .. foe.hp : Struck(sd, damage, "nobody", {}, 0)
        BY <1>6 DEF HurtBySomethingElse
  <2>2. foe.hp \in Nat
        BY <1>1 DEF Foes
  <2>3. damage \in Nat
        BY <2>1, <2>2
  <2> QED BY <1>1, <1>2, <2>1, <2>3, StruckKeeps
<1> QED BY <1>3, <1>4, <1>5, <1>6

\* A step that leaves the foe and what it paid alone
LEMMA FoeUnchanged ==
    ASSUME FoeInv, RewardsAreFair, UNCHANGED fightVars
    PROVE  FoeInv' /\ RewardsAreFair'
<1>1. foe' = foe /\ did' = did /\ paid' = paid /\ shared' = shared
      BY DEF fightVars
<1>2. FoeInv'
      BY <1>1 DEF FoeInv
<1> QED BY <1>1, <1>2, StillFair

\* What the foe does to the character
LEMMA FoeStrikesKeep ==
    ASSUME PlayersInv, StatusInv, FoeInv, RewardsAreFair,
           FoeAttacks \/ Selfdestruct \/ \E skilllv \in 1 .. MaxPoison : FoePoisons(skilllv)
    PROVE  PlayersInv' /\ StatusInv' /\ FoeInv' /\ RewardsAreFair'
<1>1. sd \in Characters /\ Lived(sd, sd) /\ foe \in Foes /\ Foe \subseteq MobBlocks
      BY LivedNot, FoeType DEF PlayersInv, FoeInv
<1>2. CASE FoeAttacks
  <2>1. PICK damage \in Hits(Foe, Builds, {0}) : sd' \in Damaged(sd, damage)
        BY <1>2 DEF FoeAttacks
  <2>2. /\ Builds \in SUBSET (PcBlocks \cup MobBlocks) /\ Foe \in SUBSET (PcBlocks \cup MobBlocks)
        /\ {0} \in SUBSET Nat
        BY <1>1, BlocksType
  <2>3. damage \in Nat \ {0}
        BY <2>2, FightersFinite, HitsType
  <2>4. Lived(sd, sd')
        BY <1>1, <2>1, <2>3, DamagedLives
  <2>5. MayKill(Now) /\ regular' = regular /\ UNCHANGED fightVars
        BY <1>2 DEF FoeAttacks, Fights
  <2>6. StatusInv'
        BY <2>4, <2>5, LivedSpares, SparedCurrent
  <2>7. PlayersInv'
        BY <2>4, <2>5, LivedKept DEF PlayersInv, Kept
  <2> QED BY <2>5, <2>6, <2>7, FoeUnchanged
<1>3. CASE Selfdestruct
  <2>1. PICK bl \in Foe : \E r \in {sd} \cup (IF sd.on THEN Damaged(sd, SelfdestructDamage(bl)) ELSE {}) :
           Struck(r, foe.hp, "nobody", {}, 0)
        BY <1>3 DEF Selfdestruct
  <2>2. PICK r \in {sd} \cup (IF sd.on THEN Damaged(sd, SelfdestructDamage(bl)) ELSE {}) :
           Struck(r, foe.hp, "nobody", {}, 0)
        BY <2>1
  <2>3. SelfdestructDamage(bl) \in Nat
        BY <1>1, SelfdestructType
  <2>4. Lived(sd, r)
    <3>1. CASE r = sd
          BY <1>1, <3>1
    <3>2. CASE r # sd
      <4>1. r \in Damaged(sd, SelfdestructDamage(bl))
            BY <2>2, <3>2
      <4> QED BY <1>1, <2>3, <4>1, DamagedLives
    <3> QED BY <3>1, <3>2
  <2>5. foe.hp \in Nat /\ 0 \in Nat
        BY <1>1 DEF Foes
  <2>6. regular' = regular
        BY <1>3 DEF Selfdestruct, Fights
  <2> QED BY <2>2, <2>4, <2>5, <2>6, StruckKeeps
<1>4. CASE \E skilllv \in 1 .. MaxPoison : FoePoisons(skilllv)
  <2>1. PICK skilllv \in 1 .. MaxPoison : FoePoisons(skilllv)
        BY <1>4
  <2>2. regular' = regular /\ UNCHANGED fightVars
        BY <2>1 DEF FoePoisons, Fights
  <2>3. PICK r \in UNION {Damaged(sd, damage) : damage \in SkillHits} :
           \/ sd' = r /\ MayKill(Now)
           \/ sd' = Poisoned(r, skilllv) /\ Once
        BY <2>1 DEF FoePoisons
  <2>4. PICK damage \in SkillHits : r \in Damaged(sd, damage)
        BY <2>3
  <2>5. damage \in Nat
        BY <1>1, SkillHitsType
  <2>6. Lived(sd, r) /\ Kept(sd, r) /\ r \in Characters
    <3>1. Lived(sd, r)
          BY <1>1, <2>4, <2>5, DamagedLives
    <3> QED BY <3>1, LivedKept DEF Lived
  <2>7. CASE sd' = r /\ MayKill(Now)
    <3>1. StatusInv'
      <4>1. Lived(sd, sd')
            BY <2>6, <2>7
      <4> QED BY <2>7, <4>1, LivedSpares, SparedCurrent
    <3>2. PlayersInv'
          BY <2>2, <2>6, <2>7 DEF PlayersInv, Kept
    <3> QED BY <2>2, <3>1, <3>2, FoeUnchanged
  <2>8. CASE sd' = Poisoned(r, skilllv) /\ Once
    <3>1. StatusInv'
          BY <2>8, OnceCurrent
    <3>2. Kept(r, sd')
          BY <2>6, <2>8, PoisonedType, AlikeKept
    <3>3. PlayersInv'
          BY <2>2, <2>6, <3>2 DEF PlayersInv, Kept
    <3> QED BY <2>2, <3>1, <3>3, FoeUnchanged
  <2> QED BY <2>3, <2>7, <2>8
<1> QED BY <1>2, <1>3, <1>4

LEMMA BothUnchanged ==
    ASSUME PlayersInv, StatusInv, UNCHANGED << sd, regular, statusVars >>
    PROVE  PlayersInv' /\ StatusInv'
<1>1. sd' = sd /\ regular' = regular /\ pc' = pc /\ calc' = calc
      BY DEF statusVars
<1> QED BY <1>1 DEF PlayersInv, Accounted, Costs, StatusInv, Whole, Current, Paramc, Parame,
              Anomalies, SumOver

\* mob_heal, mob_delete, mob_spawn
LEMMA FoeLivesKeep ==
    ASSUME PlayersInv, StatusInv, FoeInv, RewardsAreFair,
           FoeLeaves \/ FoeLosesMaster \/ FoeSpawns \/ \E heal \in 1 .. MaxHp : FoeHeal(heal)
    PROVE  PlayersInv' /\ StatusInv' /\ FoeInv' /\ RewardsAreFair'
<1>1. foe \in Foes /\ did \in Logs /\ (foe.here => foe.dmglogv = did)
      BY DEF FoeInv
<1>2. CASE FoeLeaves
  <2>1. foe' = [foe EXCEPT !.here = FALSE, !.hp = 0] /\ UNCHANGED << did, paid, shared >>
        BY <1>2 DEF FoeLeaves
  <2>2. FoeInv' /\ foe'.stats = foe.stats
        BY <1>1, <2>1 DEF FoeInv, Foes
  <2>3. UNCHANGED << sd, regular, statusVars >>
        BY <1>2 DEF FoeLeaves, Fights
  <2> QED BY <2>1, <2>2, <2>3, StillFair, BothUnchanged
<1>3. CASE FoeSpawns
  <2>1. PICK m \in Mutations, summoned \in BOOLEAN :
            foe' = Spawned(Born(Species, m, m.strength), summoned)
        BY <1>3 DEF FoeSpawns
  <2> DEFINE stats == Born(Species, m, m.strength)
  <2>2. stats \in MobBlocks
        BY BornType
  <2>3. foe' = [here |-> TRUE, hp |-> GetMaxHp(stats), stats |-> stats, dmglogv |-> Nothing,
                summoned |-> summoned]
        BY <2>1 DEF Spawned
  <2>4. did' = Nothing /\ paid' = Nothing
        BY <1>3 DEF FoeSpawns
  <2> HIDE DEF stats
  <2>5. GetMaxHp(stats) \in Nat
        BY <2>2, GetMaxHpType
  <2>6. Nothing \in Logs
        BY DEF Nothing, Logs
  <2>7. FoeInv'
        BY <2>2, <2>3, <2>4, <2>5, <2>6 DEF FoeInv, Foes
  <2>8. UNCHANGED << sd, regular, statusVars >>
        BY <1>3 DEF FoeSpawns, Fights
  <2> QED BY <2>4, <2>7, <2>8, StillFair, BothUnchanged
<1>4. CASE \E heal \in 1 .. MaxHp : FoeHeal(heal)
  <2>1. PICK heal \in 1 .. MaxHp : FoeHeal(heal)
        BY <1>4
  <2> DEFINE hp == Smaller(foe.hp + heal, GetMaxHp(foe.stats))
  <2>2. foe' = [foe EXCEPT !.hp = hp] /\ UNCHANGED << did, paid, shared >>
        BY <2>1 DEF FoeHeal
  <2>3. hp \in Nat
    <3>1. foe.hp \in Nat /\ GetMaxHp(foe.stats) \in Nat /\ heal \in Nat
          BY <1>1, <2>1, GetMaxHpType, Numbers DEF Foes
    <3> QED BY <3>1 DEF Smaller
  <2> HIDE DEF hp
  <2>4. FoeInv' /\ foe'.stats = foe.stats
        BY <1>1, <2>2, <2>3 DEF FoeInv, Foes
  <2>5. UNCHANGED << sd, regular, statusVars >>
        BY <2>1 DEF FoeHeal, Fights
  <2> QED BY <2>2, <2>4, <2>5, StillFair, BothUnchanged
<1>5. CASE FoeLosesMaster
  <2>1. foe' = [foe EXCEPT !.summoned = FALSE] /\ UNCHANGED << did, paid, shared >>
        BY <1>5 DEF FoeLosesMaster
  <2>2. FoeInv' /\ foe'.stats = foe.stats
        BY <1>1, <2>1 DEF FoeInv, Foes
  <2>3. UNCHANGED << sd, regular, statusVars >>
        BY <1>5 DEF FoeLosesMaster, Fights
  <2> QED BY <2>1, <2>2, <2>3, StillFair, BothUnchanged
<1> QED BY <1>2, <1>3, <1>4, <1>5

-----------------------------------------------------------------------------
(* The invariant of a fight, and the theorems. *)

FightInv == PlayersInv /\ StatusInv /\ FoeInv /\ RewardsAreFair

LEMMA FightBegins ==
    ASSUME FightInit
    PROVE  FightInv
<1>1. PlayersInv /\ StatusInv
      BY FreshAccounted, StatusInitCurrent DEF FightInit, StatusInit
<1>2. /\ foe = [here |-> TRUE, hp |-> GetMaxHp(Species), stats |-> Species, dmglogv |-> Nothing,
                summoned |-> FALSE]
      /\ did = Nothing /\ paid = Nothing /\ shared = {}
      BY DEF FightInit
<1>3. Species \in MobBlocks /\ GetMaxHp(Species) \in Nat /\ Nothing \in Logs
      BY FightsAssumption, GetMaxHpType DEF Nothing, Logs
<1>4. FoeInv
      BY <1>2, <1>3 DEF FoeInv, Foes
<1>5. RewardsAreFair
  <2>1. BaseWorth \in Nat
        BY <1>4, WorthType DEF FoeInv
  <2>2. \A f \in Fighters : paid[f] = 0
        BY <1>2 DEF Nothing
  <2>3. MostOf(BaseWorth) \in Nat
        BY <2>1, MostType
  <2> QED BY <2>2, <2>3 DEF RewardsAreFair
<1> QED BY <1>1, <1>4, <1>5 DEF FightInv

LEMMA FightGoesOn ==
    ASSUME FightInv, [FightNext]_everything
    PROVE  FightInv'
<1>1. PlayersInv /\ StatusInv /\ FoeInv /\ RewardsAreFair
      BY DEF FightInv
<1>2. CASE StatusNext /\ UNCHANGED fightVars
  <2>1. StatusInv'
        BY <1>1, <1>2, StatusNextCurrent
  <2>2. PlayersInv'
    <3>1. Next \/ UNCHANGED << sd, regular >>
          BY <1>2, StatusNextMoves
    <3>2. CASE Next
          BY <1>1, <3>2, NextKept
    <3>3. CASE UNCHANGED << sd, regular >>
          BY <1>1, <3>3 DEF PlayersInv, Accounted, Costs
    <3> QED BY <3>1, <3>2, <3>3
  <2> QED BY <1>1, <1>2, <2>1, <2>2, FoeUnchanged DEF FightInv
<1>3. CASE Attack \/ Assist \/ ServantAttacks \/ HurtBySomethingElse
      BY <1>1, <1>3, BlowsKeep DEF FightInv
<1>4. CASE FoeAttacks \/ Selfdestruct \/ \E skilllv \in 1 .. MaxPoison : FoePoisons(skilllv)
      BY <1>1, <1>4, FoeStrikesKeep DEF FightInv
<1>5. CASE FoeLeaves \/ FoeLosesMaster \/ FoeSpawns \/ \E heal \in 1 .. MaxHp : FoeHeal(heal)
      BY <1>1, <1>5, FoeLivesKeep DEF FightInv
<1>6. CASE UNCHANGED everything
  <2>1. UNCHANGED << sd, regular, statusVars >> /\ UNCHANGED fightVars
        BY <1>6 DEF everything, allVars, vars
  <2> QED BY <1>1, <2>1, BothUnchanged, FoeUnchanged DEF FightInv
<1> QED BY <1>2, <1>3, <1>4, <1>5, <1>6 DEF FightNext

LEMMA FightInvariant == FightSpec => []FightInv
BY FightBegins, FightGoesOn, PTL DEF FightSpec

\* TypeOK: whatever fights, scripts and game masters do to a character, its numbers
\* keep the types of the source (mmo_charstatus).
THEOREM CharactersAreTyped == FightSpec => []TypeOK
<1>1. FightInv => TypeOK
      BY DEF FightInv, PlayersInv, TypeOK
<1> QED BY <1>1, FightInvariant, PTL

\* StatusPointsAccounted: as long as nobody gives or takes status points as such, what
\* a character has spent on its parameters and what it has left is what the table
\* stat_p says of its level, by whatever ways it came there (pc_checkbaselevelup,
\* pc_setparam, pc_resetstate, @blvl ...).
THEOREM PointsAreAccounted == FightSpec => []StatusPointsAccounted
<1>1. FightInv => StatusPointsAccounted
  <2>1. FightInv => TypeOK /\ (regular => Accounted(sd))
        BY DEF FightInv, PlayersInv, TypeOK
  <2> QED BY <2>1, AccountedIs
<1> QED BY <1>1, FightInvariant, PTL

\* StatusIsCurrent: pc_calcstatus has been called for everything that it depends on.
THEOREM StatusStaysCurrent == FightSpec => []StatusIsCurrent
<1>1. FightInv => StatusIsCurrent
      BY DEF FightInv, StatusInv, Current, StatusIsCurrent
<1> QED BY <1>1, FightInvariant, PTL

\* RewardsAreFair: mob_damage and party_exp_share pay the death of a mob to those who
\* killed it, not more than twice what it is worth (with pk_mode 15 percent more), and
\* not less to who did more.
THEOREM RewardsStayFair == FightSpec => []RewardsAreFair
<1>1. FightInv => RewardsAreFair
      BY DEF FightInv
<1> QED BY <1>1, FightInvariant, PTL
=============================================================================
