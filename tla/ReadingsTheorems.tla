--------------------------- MODULE ReadingsTheorems ---------------------------
(***************************************************************************)
(* What the proofs about series of readings share: induction, the first and *)
(* the last of finitely many hours, and hours in order.                     *)
(***************************************************************************)
EXTENDS Readings, FiniteSetTheorems, WellFoundedInduction, TLAPS

LEMMA InductionOverNat ==
  ASSUME NEW S, 0 \in S, \A n \in Nat : n \in S => n + 1 \in S
  PROVE  \A n \in Nat : n \in S
<1> SUFFICES ASSUME NEW k \in Nat, k \notin S PROVE FALSE
  OBVIOUS
<1> DEFINE T == Nat \ S
<1> DEFINE R == {pair \in Nat \X Nat : pair[1] < pair[2]}
<1>1. IsWellFoundedOn(R, Nat)
  BY NatLessThanWellFounded DEF OpToRel
<1>2. T \subseteq Nat /\ T # {}
  OBVIOUS
<1>3. PICK x \in T : \A y \in T : ~(<<y, x>> \in R)
  <2> HIDE DEF T, R
  <2> QED
    BY <1>1, <1>2, WFMin
<1>4. x \in Nat /\ x # 0 /\ x \notin S
  OBVIOUS
<1>5. x - 1 \in Nat /\ <<x - 1, x>> \in R
  BY <1>4
<1>6. x - 1 \in S
  BY <1>3, <1>5
<1>7. (x - 1) + 1 \in S
  BY <1>5, <1>6
<1> QED BY <1>4, <1>7

HourSet(S) == S \subseteq Int /\ S # {} /\ IsFiniteSet(S)

(* A finite set of hours has a first and a last one.                         *)
LEMMA Extremes ==
  ASSUME NEW S, HourSet(S)
  PROVE  /\ Max(S) \in S /\ \A x \in S : x <= Max(S)
         /\ Min(S) \in S /\ \A x \in S : Min(S) <= x
<1> DEFINE Bounded(T) == (\E m \in T : \A x \in T : m >= x) /\ (\E m \in T : \A x \in T : m <= x)
           K == {n \in Nat : \A T \in SUBSET Int : (IsFiniteSet(T) /\ Cardinality(T) = n /\ n # 0) => Bounded(T)}
<1>1. 0 \in K
  OBVIOUS
<1>2. ASSUME NEW n \in Nat, n \in K PROVE n + 1 \in K
  <2> SUFFICES ASSUME NEW T \in SUBSET Int, IsFiniteSet(T), Cardinality(T) = n + 1
               PROVE  Bounded(T)
    OBVIOUS
  <2>1. PICK y : y \in T
    BY FS_EmptySet
  <2> DEFINE U == T \ {y}
  <2>2. IsFiniteSet(U) /\ Cardinality(U) = n /\ U \in SUBSET Int /\ T = U \cup {y}
    BY <2>1, FS_RemoveElement
  <2>3. CASE n = 0
    <3>1. U = {}
      BY <2>2, <2>3, FS_EmptySet
    <3> QED BY <2>1, <2>2, <3>1
  <2>4. CASE n # 0
    <3>1. Bounded(U)
      BY <1>2, <2>2, <2>4
    <3> HIDE DEF U
    <3>2. PICK m \in U : \A x \in U : m >= x
      BY <3>1
    <3>3. PICK l \in U : \A x \in U : l <= x
      BY <3>1
    <3>4. \E k \in T : \A x \in T : k >= x
      <4>1. CASE m >= y
        BY <2>2, <3>2, <4>1
      <4>2. CASE ~(m >= y)
        BY <2>1, <2>2, <3>2, <4>2
      <4> QED BY <4>1, <4>2
    <3>5. \E k \in T : \A x \in T : k <= x
      <4>1. CASE l <= y
        BY <2>2, <3>3, <4>1
      <4>2. CASE ~(l <= y)
        BY <2>1, <2>2, <3>3, <4>2
      <4> QED BY <4>1, <4>2
    <3> QED BY <3>4, <3>5
  <2> QED BY <2>3, <2>4
<1>3. \A n \in Nat : n \in K
  <2> HIDE DEF K
  <2> QED BY <1>1, <1>2, InductionOverNat
<1>4. Cardinality(S) \in Nat /\ Cardinality(S) # 0
  BY FS_CardinalityType, FS_EmptySet DEF HourSet
<1>5. Bounded(S)
  BY <1>3, <1>4 DEF HourSet
<1> QED BY <1>5 DEF Max, Min, HourSet

LEMMA LeastOrMost == \A a, b \in Int : /\ Least(a, b) \in {a, b} /\ Least(a, b) <= a /\ Least(a, b) <= b
                                       /\ Most(a, b) \in {a, b} /\ Most(a, b) >= a /\ Most(a, b) >= b
BY DEF Least, Most

(* Hours in order, where they are contiguous.                                *)
LEMMA IntervalInOrder ==
  ASSUME NEW a \in Int, NEW b \in Int, a <= b
  PROVE  Hourly(a .. b) = [n \in 1 .. b - a + 1 |-> a + n - 1]
<1>1. Cardinality(a .. b) = b - a + 1
  BY FS_Interval
<1>2. ASSUME NEW n \in 1 .. b - a + 1
      PROVE  (CHOOSE h \in a .. b : Cardinality({g \in a .. b : g < h}) = n - 1) = a + n - 1
  <2>1. ASSUME NEW h \in a .. b PROVE Cardinality({g \in a .. b : g < h}) = h - a
    <3>1. {g \in a .. b : g < h} = a .. h - 1
      BY <2>1
    <3>2. a \in Int /\ h - 1 \in Int
      BY <2>1
    <3>3. Cardinality(a .. h - 1) = IF a > h - 1 THEN 0 ELSE (h - 1) - a + 1
      BY <3>2, FS_Interval
    <3>4. (IF a > h - 1 THEN 0 ELSE (h - 1) - a + 1) = h - a
      BY <2>1
    <3>5. Cardinality({g \in a .. b : g < h}) = Cardinality(a .. h - 1)
      BY <3>1, Zenon
    <3> QED BY <3>3, <3>4, <3>5, Zenon
  <2>2. a + n - 1 \in a .. b
    OBVIOUS
  <2>3. Cardinality({g \in a .. b : g < a + n - 1}) = n - 1
    BY <2>1, <2>2
  <2>4. ASSUME NEW h \in a .. b, Cardinality({g \in a .. b : g < h}) = n - 1 PROVE h = a + n - 1
    BY <2>1, <2>4
  <2> QED BY <2>2, <2>3, <2>4
<1> QED BY <1>1, <1>2 DEF Hourly, InOrder

LEMMA FiniteImage ==
  ASSUME NEW D, NEW T, NEW f \in [D -> T], IsFiniteSet(D), \A y \in T : \E r \in D : f[r] = y
  PROVE  IsFiniteSet(T)
<1>1. f \in Surjection(D, T)
  BY DEF Surjection
<1> QED BY <1>1, FS_Surjection

-----------------------------------------------------------------------------
(* In a strict order of finitely many members each place is some member's, and *)
(* no two share one.                                                         *)
LEMMA Ranks ==
  ASSUME NEW S, IsFiniteSet(S), NEW R,
         \A x \in S : <<x, x>> \notin R,
         \A x, y, z \in S : <<x, y>> \in R /\ <<y, z>> \in R => <<x, z>> \in R,
         \A x, y \in S : x # y => <<x, y>> \in R \/ <<y, x>> \in R
  PROVE  /\ \A x \in S : Cardinality({y \in S : <<y, x>> \in R}) \in 0 .. Cardinality(S) - 1
         /\ \A x, z \in S : <<x, z>> \in R =>
              Cardinality({y \in S : <<y, x>> \in R}) < Cardinality({y \in S : <<y, z>> \in R})
         /\ \A n \in 1 .. Cardinality(S) : \E x \in S : Cardinality({y \in S : <<y, x>> \in R}) = n - 1
<1> DEFINE Before(x) == {y \in S : <<y, x>> \in R}
           k == Cardinality(S)
<1>1. k \in Nat
  BY FS_CardinalityType
<1>2. \A x : IsFiniteSet(Before(x)) /\ Cardinality(Before(x)) \in Nat
  BY FS_Subset, FS_CardinalityType
<1>3. ASSUME NEW T \in SUBSET S, NEW U \in SUBSET T, NEW x \in T, x \notin U
      PROVE  Cardinality(U) < Cardinality(T)
  <2>1. IsFiniteSet(T) /\ IsFiniteSet(U)
    BY FS_Subset
  <2>2. Cardinality(U) <= Cardinality(T) /\ (Cardinality(T) = Cardinality(U) => T = U)
    BY <2>1, FS_Subset
  <2>3. Cardinality(U) \in Nat /\ Cardinality(T) \in Nat
    BY <2>1, FS_CardinalityType
  <2> QED BY <1>3, <2>2, <2>3
<1>4. ASSUME NEW x \in S PROVE Cardinality(Before(x)) \in 0 .. k - 1
  <2>1. x \notin Before(x) /\ Before(x) \subseteq S
    OBVIOUS
  <2> HIDE DEF Before
  <2>2. Cardinality(Before(x)) < k
    BY <1>3, <2>1
  <2> QED BY <1>1, <1>2, <2>2
<1>5. ASSUME NEW x \in S, NEW z \in S, <<x, z>> \in R
      PROVE  Cardinality(Before(x)) < Cardinality(Before(z))
  <2>1. x \in Before(z) /\ x \notin Before(x) /\ Before(x) \subseteq Before(z) /\ Before(z) \subseteq S
    BY <1>5
  <2> HIDE DEF Before
  <2> QED BY <1>3, <2>1
<1>6. \A n \in 1 .. k : \E x \in S : Cardinality(Before(x)) = n - 1
  <2> DEFINE f == [x \in S |-> Cardinality(Before(x)) + 1]
  <2>1. f \in [S -> 1 .. k]
    <3> HIDE DEF Before, k
    <3> QED BY <1>1, <1>4
  <2>2. \A x, y \in S : f[x] = f[y] => x = y
    <3> SUFFICES ASSUME NEW x \in S, NEW y \in S, f[x] = f[y], x # y PROVE FALSE
      OBVIOUS
    <3>1. <<x, y>> \in R \/ <<y, x>> \in R
      OBVIOUS
    <3>2. Cardinality(Before(x)) < Cardinality(Before(y)) \/ Cardinality(Before(y)) < Cardinality(Before(x))
      BY <1>5, <3>1
    <3>3. Cardinality(Before(x)) \in Nat /\ Cardinality(Before(y)) \in Nat
      BY <1>2
    <3>4. f[x] = Cardinality(Before(x)) + 1 /\ f[y] = Cardinality(Before(y)) + 1
      OBVIOUS
    <3>5. Cardinality(Before(x)) + 1 = Cardinality(Before(y)) + 1
      BY <3>4, Zenon
    <3> HIDE DEF Before, f
    <3> QED BY <3>2, <3>3, <3>5
  <2> HIDE DEF f
  <2>3. f \in Injection(S, 1 .. k)
    BY <2>1, <2>2 DEF Injection, IsInjective
  <2>4. IsFiniteSet(1 .. k) /\ Cardinality(1 .. k) = IF 1 > k THEN 0 ELSE k - 1 + 1
    BY <1>1, FS_Interval
  <2>5. Cardinality(1 .. k) = k
    <3> HIDE DEF k
    <3> QED BY <1>1, <2>4
  <2>6. f \in Surjection(S, 1 .. k)
    <3>1. k = Cardinality(S)
      OBVIOUS
    <3> HIDE DEF k
    <3> QED BY <2>3, <2>4, <2>5, <3>1, FS_Injection
  <2>7. \A n \in 1 .. k : \E x \in S : f[x] = n
    BY <2>6 DEF Surjection
  <2>8. \A x \in S : f[x] = Cardinality(Before(x)) + 1
    BY DEF f
  <2> HIDE DEF Before
  <2>9. \A x \in S : f[x] - 1 = Cardinality(Before(x))
    BY <1>2, <2>8
  <2> QED BY <2>7, <2>9
<1> QED BY <1>4, <1>5, <1>6

Preceding(S, h) == {g \in S : g < h}

(* The hours of a finite set in their order: each once, rising, the n-th with  *)
(* n - 1 before it.                                                          *)
LEMMA HourlyOrders ==
  ASSUME NEW S, S \subseteq Int, IsFiniteSet(S)
  PROVE  /\ Cardinality(S) \in Nat
         /\ DOMAIN Hourly(S) = 1 .. Cardinality(S)
         /\ \A n \in DOMAIN Hourly(S) : /\ Hourly(S)[n] \in S
                                        /\ Cardinality(Preceding(S, Hourly(S)[n])) = n - 1
         /\ \A x \in S : \E n \in DOMAIN Hourly(S) : Hourly(S)[n] = x
         /\ \A m, n \in DOMAIN Hourly(S) : m < n => Hourly(S)[m] < Hourly(S)[n]
         /\ \A x \in S, n \in DOMAIN Hourly(S) :
              Cardinality(Preceding(S, x)) = n - 1 => x = Hourly(S)[n]
<1> DEFINE R == {pair \in Int \X Int : pair[1] < pair[2]}
           Rank(x) == Cardinality(Preceding(S, x))
           hours == Hourly(S)
           k == Cardinality(S)
<1>0. k \in Nat
  BY FS_CardinalityType
<1>1. \A x, y \in Int : <<x, y>> \in R <=> x < y
  OBVIOUS
<1>2. \A x \in S : Preceding(S, x) = {y \in S : <<y, x>> \in R}
  <2> HIDE DEF R
  <2> QED BY <1>1 DEF Preceding
<1>3. /\ \A x \in S : <<x, x>> \notin R
      /\ \A x, y, z \in S : <<x, y>> \in R /\ <<y, z>> \in R => <<x, z>> \in R
      /\ \A x, y \in S : x # y => <<x, y>> \in R \/ <<y, x>> \in R
  OBVIOUS
<1> HIDE DEF R
<1>4. /\ \A x \in S : Rank(x) \in 0 .. k - 1
      /\ \A x, z \in S : x < z => Rank(x) < Rank(z)
      /\ \A n \in 1 .. k : \E x \in S : Rank(x) = n - 1
  <2>1. /\ \A x \in S : Cardinality({y \in S : <<y, x>> \in R}) \in 0 .. Cardinality(S) - 1
        /\ \A x, z \in S : <<x, z>> \in R =>
             Cardinality({y \in S : <<y, x>> \in R}) < Cardinality({y \in S : <<y, z>> \in R})
        /\ \A n \in 1 .. Cardinality(S) : \E x \in S : Cardinality({y \in S : <<y, x>> \in R}) = n - 1
    BY <1>3, Ranks
  <2> QED BY <1>1, <1>2, <2>1
<1>5. hours = [n \in 1 .. k |-> CHOOSE x \in S : Rank(x) = n - 1]
  BY DEF Hourly, InOrder, Preceding
<1> HIDE DEF Rank, hours, k
<1>6. \A n \in 1 .. k : hours[n] \in S /\ Rank(hours[n]) = n - 1
  BY <1>4, <1>5
<1>7. \A x, y \in S : Rank(x) = Rank(y) => x = y
  <2> SUFFICES ASSUME NEW x \in S, NEW y \in S, Rank(x) = Rank(y), x # y PROVE FALSE
    OBVIOUS
  <2>1. x < y \/ y < x
    OBVIOUS
  <2> QED BY <1>4, <2>1
<1>8. \A x \in S : \E n \in 1 .. k : hours[n] = x
  <2> SUFFICES ASSUME NEW x \in S PROVE \E n \in 1 .. k : hours[n] = x
    OBVIOUS
  <2>1. Rank(x) + 1 \in 1 .. k /\ (Rank(x) + 1) - 1 = Rank(x)
    BY <1>0, <1>4
  <2> QED BY <1>6, <1>7, <2>1
<1>9. \A m, n \in 1 .. k : m < n => hours[m] < hours[n]
  <2> SUFFICES ASSUME NEW m \in 1 .. k, NEW n \in 1 .. k, m < n PROVE hours[m] < hours[n]
    OBVIOUS
  <2>1. hours[m] \in Int /\ hours[n] \in Int /\ hours[m] \in S /\ hours[n] \in S
    BY <1>6
  <2>2. Rank(hours[m]) = m - 1 /\ Rank(hours[n]) = n - 1
    BY <1>6
  <2>3. ~(hours[n] < hours[m]) /\ hours[n] # hours[m]
    <3>1. hours[n] < hours[m] => Rank(hours[n]) < Rank(hours[m])
      BY <1>4, <2>1
    <3> QED BY <1>0, <2>2, <3>1
  <2> QED BY <2>1, <2>3
<1>10. \A x \in S, n \in 1 .. k : Rank(x) = n - 1 => x = hours[n]
  BY <1>6, <1>7
<1>11. DOMAIN hours = 1 .. k
  BY <1>5
<1> QED BY <1>0, <1>6, <1>8, <1>9, <1>10, <1>11 DEF Rank, hours, k

(* The hours up to one of them come first, in the same order.                *)
LEMMA HourlyPrefix ==
  ASSUME NEW S, S \subseteq Int, IsFiniteSet(S), NEW h \in Int, NEW T, T = {x \in S : x <= h}
  PROVE  \A n \in DOMAIN Hourly(T) : Hourly(T)[n] = Hourly(S)[n]
<1>1. T \subseteq Int /\ IsFiniteSet(T) /\ T \subseteq S
  BY FS_Subset
<1>a. \A x : x \in T <=> x \in S /\ x <= h
  OBVIOUS
<1>2. Cardinality(T) \in Nat /\ Cardinality(S) \in Nat /\ Cardinality(T) <= Cardinality(S)
  BY <1>1, FS_Subset, FS_CardinalityType
<1>3. DOMAIN Hourly(T) = 1 .. Cardinality(T) /\ DOMAIN Hourly(S) = 1 .. Cardinality(S)
  BY <1>1, HourlyOrders
<1>4. ASSUME NEW x \in T PROVE Preceding(T, x) = Preceding(S, x)
  <2>1. x \in Int /\ x <= h
    BY <1>1, <1>a
  <2>2. \A g \in S : g < x => g \in T
    BY <1>a, <2>1
  <2> QED BY <1>1, <2>2 DEF Preceding
<1>5. ASSUME NEW n \in DOMAIN Hourly(T) PROVE Hourly(T)[n] = Hourly(S)[n] /\ n \in DOMAIN Hourly(S)
  <2>1. n \in DOMAIN Hourly(S)
    BY <1>2, <1>3
  <2>2. Hourly(T)[n] \in T /\ Cardinality(Preceding(T, Hourly(T)[n])) = n - 1
    BY <1>1, HourlyOrders
  <2>3. Hourly(T)[n] \in S /\ Cardinality(Preceding(S, Hourly(T)[n])) = n - 1
    BY <1>1, <1>4, <2>2
  <2> QED BY <2>1, <2>3, HourlyOrders
<1> QED BY <1>5

LEMMA HourlyPrefixDomain ==
  ASSUME NEW S, S \subseteq Int, IsFiniteSet(S), NEW h \in Int, NEW T, T = {x \in S : x <= h}
  PROVE  /\ DOMAIN Hourly(T) = {n \in DOMAIN Hourly(S) : Hourly(S)[n] <= h}
         /\ \A n \in DOMAIN Hourly(T) : 1 .. n \subseteq DOMAIN Hourly(T)
<1>1. T \subseteq Int /\ IsFiniteSet(T) /\ T \subseteq S
  BY FS_Subset
<1>a. \A x : x \in T <=> x \in S /\ x <= h
  OBVIOUS
<1>2. Cardinality(T) \in Nat /\ Cardinality(S) \in Nat /\ Cardinality(T) <= Cardinality(S)
  BY <1>1, FS_Subset, FS_CardinalityType
<1>3. DOMAIN Hourly(T) = 1 .. Cardinality(T) /\ DOMAIN Hourly(S) = 1 .. Cardinality(S)
  BY <1>1, HourlyOrders
<1>4. ASSUME NEW x \in T PROVE Preceding(T, x) = Preceding(S, x)
  <2>1. x \in Int /\ x <= h
    BY <1>1, <1>a
  <2>2. \A g \in S : g < x => g \in T
    BY <1>a, <2>1
  <2> QED BY <1>1, <2>2 DEF Preceding
<1>5. ASSUME NEW n \in DOMAIN Hourly(T) PROVE Hourly(T)[n] = Hourly(S)[n] /\ n \in DOMAIN Hourly(S)
  <2>1. n \in DOMAIN Hourly(S)
    BY <1>2, <1>3
  <2> QED BY <2>1, HourlyPrefix
<1>6. ASSUME NEW n \in DOMAIN Hourly(S), Hourly(S)[n] <= h PROVE n \in DOMAIN Hourly(T)
  <2>1. Hourly(S)[n] \in T /\ Cardinality(Preceding(S, Hourly(S)[n])) = n - 1
    BY <1>6, HourlyOrders
  <2>2. Cardinality(Preceding(T, Hourly(S)[n])) = n - 1
    BY <1>4, <2>1
  <2>3. PICK m \in DOMAIN Hourly(T) : Hourly(T)[m] = Hourly(S)[n]
    <3>1. \A x \in T : \E m \in DOMAIN Hourly(T) : Hourly(T)[m] = x
      BY <1>1, HourlyOrders
    <3> QED BY <2>1, <3>1
  <2>4. Cardinality(Preceding(T, Hourly(S)[n])) = m - 1
    BY <1>1, <2>3, HourlyOrders
  <2> QED BY <1>2, <1>3, <2>2, <2>3, <2>4
<1>7. ASSUME NEW n \in DOMAIN Hourly(T) PROVE Hourly(S)[n] <= h
  <2>1. Hourly(T)[n] \in T
    BY <1>1, HourlyOrders
  <2> QED BY <1>5, <2>1
<1>8. \A n \in DOMAIN Hourly(T) : 1 .. n \subseteq DOMAIN Hourly(T)
  <2> DEFINE k == Cardinality(T)
  <2>1. k \in Nat => \A n \in 1 .. k : 1 .. n \subseteq 1 .. k
    <3> HIDE DEF k
    <3> QED OBVIOUS
  <2> QED BY <1>2, <1>3, <2>1
<1> QED BY <1>5, <1>6, <1>7, <1>8

LEMMA RowsUpTo ==
  ASSUME NEW S, S \subseteq Int, IsFiniteSet(S), NEW h \in Int, NEW T, T = {x \in S : x <= h}
  PROVE  /\ DOMAIN Hourly(T) = {n \in DOMAIN Hourly(S) : Hourly(S)[n] <= h}
         /\ \A n \in DOMAIN Hourly(T) : Hourly(T)[n] = Hourly(S)[n] /\ 1 .. n \subseteq DOMAIN Hourly(T)
<1>1. DOMAIN Hourly(T) = {n \in DOMAIN Hourly(S) : Hourly(S)[n] <= h}
  BY HourlyPrefixDomain
<1>2. \A n \in DOMAIN Hourly(T) : Hourly(T)[n] = Hourly(S)[n]
  BY HourlyPrefix
<1>3. \A n \in DOMAIN Hourly(T) : 1 .. n \subseteq DOMAIN Hourly(T)
  BY HourlyPrefixDomain
<1> QED BY <1>1, <1>2, <1>3
=============================================================================
