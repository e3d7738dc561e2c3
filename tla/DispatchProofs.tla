--------------------------- MODULE DispatchProofs ---------------------------
(***************************************************************************)
(* Theorems about RollingDispatch for every battery, horizon, day length    *)
(* and number of origins.  Running totals and schedules are recursive       *)
(* functions; what they compute is proved by induction over a set of        *)
(* natural numbers, from the well-foundedness of <.                         *)
(***************************************************************************)
EXTENDS RollingDispatch, WellFoundedInduction, SequenceTheorems, TLAPS

LEMMA InductionOverNat ==
  ASSUME NEW S, 0 \in S, \A n \in Nat : n \in S => n + 1 \in S
  PROVE  \A n \in Nat : n \in S
<1> SUFFICES ASSUME NEW k \in Nat, k \notin S PROVE FALSE
  OBVIOUS
<1> DEFINE T == Nat \ S
<1> DEFINE R == {pair \in Nat \X Nat : pair[1] < pair[2]}
<1>1. IsWellFoundedOn(R, Nat)
  BY NatLessThanWellFounded DEF OpToRel
<1>2. T \subseteq Nat /\ T # {}
  OBVIOUS
<1>3. PICK x \in T : \A y \in T : ~(<<y, x>> \in R)
  <2> HIDE DEF T, R
  <2> QED
    BY <1>1, <1>2, WFMin
<1>4. x \in Nat /\ x # 0 /\ x \notin S
  OBVIOUS
<1>5. x - 1 \in Nat /\ <<x - 1, x>> \in R
  BY <1>4
<1>6. x - 1 \in S
  BY <1>3, <1>5
<1>7. (x - 1) + 1 \in S
  BY <1>5, <1>6
<1> QED
  BY <1>4, <1>7

-----------------------------------------------------------------------------
(* f holds the running totals of the first k weights.                        *)
Sums(f, w, k) == f[0] = 0 /\ \A n \in 1 .. k : f[n] = f[n - 1] + w[n]

LEMMA SumsExist ==
  ASSUME NEW w
  PROVE  \A k \in Nat :
           \E g : g = [n \in 0 .. k |-> IF n = 0 THEN 0 ELSE g[n - 1] + w[n]]
<1> DEFINE Good(g, k) == g = [n \in 0 .. k |-> IF n = 0 THEN 0 ELSE g[n - 1] + w[n]]
<1> DEFINE S == {k \in Nat : \E g : Good(g, k)}
<1>1. 0 \in S
  <2> DEFINE g == [n \in 0 .. 0 |-> 0]
  <2>1. Good(g, 0)
    OBVIOUS
  <2> QED
    BY <2>1
<1>2. ASSUME NEW k \in Nat, k \in S PROVE k + 1 \in S
  <2>1. PICK g : Good(g, k)
    BY <1>2
  <2> DEFINE h == [n \in 0 .. k + 1 |-> IF n = k + 1 THEN g[k] + w[k + 1] ELSE g[n]]
  <2>2. \A n \in 0 .. k : g[n] = IF n = 0 THEN 0 ELSE g[n - 1] + w[n]
    BY <2>1
  <2>3. \A n \in 0 .. k + 1 : h[n] = IF n = 0 THEN 0 ELSE h[n - 1] + w[n]
    BY <2>2
  <2>4. Good(h, k + 1)
    BY <2>3
  <2>5. \E x : Good(x, k + 1)
    <3> HIDE DEF h, Good
    <3> QED
      BY <2>4
  <2> QED
    BY <2>5
<1> HIDE DEF S
<1>3. \A k \in Nat : k \in S
  BY <1>1, <1>2, InductionOverNat
<1> SUFFICES ASSUME NEW k \in Nat PROVE \E g : Good(g, k)
  OBVIOUS
<1>4. k \in S
  BY <1>3
<1> QED
  BY <1>4, Zenon DEF S

(* The same totals, later ones counted from position s on.                   *)
LEMMA SumsShift ==
  ASSUME NEW f, NEW w, NEW g, NEW v, NEW s \in Nat, NEW k \in Nat,
         Sums(f, w, s + k), Sums(g, v, k), f[s] \in Int,
         \A n \in 1 .. k : v[n] = w[s + n] /\ v[n] \in Int
  PROVE  \A n \in 0 .. k : f[s + n] = f[s] + g[n] /\ g[n] \in Int
<1> DEFINE S == {n \in Nat : n <= k => f[s + n] = f[s] + g[n] /\ g[n] \in Int}
<1>1. 0 \in S
  BY DEF Sums
<1>2. ASSUME NEW n \in Nat, n \in S PROVE n + 1 \in S
  <2> SUFFICES ASSUME n + 1 <= k
               PROVE  f[s + (n + 1)] = f[s] + g[n + 1] /\ g[n + 1] \in Int
    OBVIOUS
  <2>1. f[s + n] = f[s] + g[n] /\ g[n] \in Int
    BY <1>2
  <2>2. f[s + (n + 1)] = f[s + n] + w[s + (n + 1)]
    BY DEF Sums
  <2>3. g[n + 1] = g[n] + v[n + 1] /\ v[n + 1] = w[s + (n + 1)] /\ v[n + 1] \in Int
    BY DEF Sums
  <2> QED
    BY <2>1, <2>2, <2>3
<1> HIDE DEF S
<1>3. \A n \in Nat : n \in S
  BY <1>1, <1>2, InductionOverNat
<1> QED
  BY <1>3 DEF S

LEMMA SumsGrow ==
  ASSUME NEW f, NEW w, NEW k \in Nat, Sums(f, w, k), \A n \in 1 .. k : w[n] \in Nat
  PROVE  \A n \in 0 .. k : f[n] \in Nat /\ (1 <= n => w[1] <= f[n])
<1> DEFINE S == {n \in Nat : n <= k => f[n] \in Nat /\ (1 <= n => w[1] <= f[n])}
<1>1. 0 \in S
  BY DEF Sums
<1>2. ASSUME NEW n \in Nat, n \in S PROVE n + 1 \in S
  <2> SUFFICES ASSUME n + 1 <= k
               PROVE  f[n + 1] \in Nat /\ w[1] <= f[n + 1]
    OBVIOUS
  <2>1. f[n] \in Nat /\ (1 <= n => w[1] <= f[n])
    BY <1>2
  <2>2. f[n + 1] = f[n] + w[n + 1] /\ w[n + 1] \in Nat /\ w[1] \in Nat
    BY DEF Sums
  <2> QED
    BY <2>1, <2>2
<1> HIDE DEF S
<1>3. \A n \in Nat : n \in S
  BY <1>1, <1>2, InductionOverNat
<1> QED
  BY <1>3 DEF S

LEMMA SumsOfNothing ==
  ASSUME NEW f, NEW w, NEW k \in Nat, Sums(f, w, k), \A n \in 1 .. k : w[n] = 0
  PROVE  f[k] = 0
<1> DEFINE S == {n \in Nat : n <= k => f[n] = 0}
<1>1. 0 \in S
  BY DEF Sums
<1>2. ASSUME NEW n \in Nat, n \in S PROVE n + 1 \in S
  BY <1>2 DEF Sums
<1> HIDE DEF S
<1>3. \A n \in Nat : n \in S
  BY <1>1, <1>2, InductionOverNat
<1> QED
  BY <1>3 DEF S

-----------------------------------------------------------------------------
(* Throughput.                                                               *)
Weights(rows, first, day) == [n \in 1 .. Len(rows) |-> Moved(rows, first, day, n)]

LEMMA ThroughputSums ==
  ASSUME NEW rows, Len(rows) \in Nat, NEW first, NEW day
  PROVE  \E f : /\ Sums(f, Weights(rows, first, day), Len(rows))
                /\ Throughput(rows, first, day) = f[Len(rows)]
<1> DEFINE upto[n \in 0 .. Len(rows)] ==
             IF n = 0 THEN 0 ELSE upto[n - 1] + Moved(rows, first, day, n)
<1> DEFINE w == Weights(rows, first, day)
<1>1. Throughput(rows, first, day) = upto[Len(rows)]
  BY DEF Throughput
<1>2. PICK g : g = [n \in 0 .. Len(rows) |-> IF n = 0 THEN 0 ELSE g[n - 1] + w[n]]
  <2> HIDE DEF w
  <2> QED
    BY SumsExist
<1>3. \A n \in 1 .. Len(rows) : w[n] = Moved(rows, first, day, n)
  BY DEF Weights
<1> HIDE DEF w
<1>4. g = [n \in 0 .. Len(rows) |->
             IF n = 0 THEN 0 ELSE g[n - 1] + Moved(rows, first, day, n)]
  BY <1>2, <1>3
<1>5. upto = [n \in 0 .. Len(rows) |->
                IF n = 0 THEN 0 ELSE upto[n - 1] + Moved(rows, first, day, n)]
  BY <1>4
<1> HIDE DEF upto
<1>6. Sums(upto, w, Len(rows))
  BY <1>3, <1>5 DEF Sums
<1> QED
  BY <1>1, <1>6 DEF w

Counted(rows) == \A n \in 1 .. Len(rows) : rows[n].charge \in Nat /\ rows[n].discharge \in Nat

LEMMA MovedNat ==
  ASSUME NEW rows, Counted(rows), NEW first, NEW day, NEW n \in 1 .. Len(rows)
  PROVE  /\ Moved(rows, first, day, n) \in Nat
         /\ Weights(rows, first, day)[n] = Moved(rows, first, day, n)
  BY DEF Counted, Moved, Weights

LEMMA ThroughputGrows ==
  ASSUME NEW rows, Len(rows) \in Nat, Counted(rows), NEW first, NEW day
  PROVE  /\ Throughput(rows, first, day) \in Nat
         /\ 1 <= Len(rows) => Moved(rows, first, day, 1) <= Throughput(rows, first, day)
<1> DEFINE w == Weights(rows, first, day)
<1>1. PICK f : Sums(f, w, Len(rows)) /\ Throughput(rows, first, day) = f[Len(rows)]
  BY ThroughputSums
<1>2. \A n \in 1 .. Len(rows) : w[n] \in Nat /\ w[n] = Moved(rows, first, day, n)
  BY MovedNat
<1> HIDE DEF w
<1>3. \A n \in 0 .. Len(rows) : f[n] \in Nat /\ (1 <= n => w[1] <= f[n])
  BY <1>1, <1>2, SumsGrow
<1> QED
  BY <1>1, <1>2, <1>3

LEMMA ThroughputOfNothing ==
  ASSUME NEW rows, Len(rows) \in Nat, NEW first, NEW day,
         \A n \in 1 .. Len(rows) : Day(first + n) # day
  PROVE  Throughput(rows, first, day) = 0
<1> DEFINE w == Weights(rows, first, day)
<1>1. PICK f : Sums(f, w, Len(rows)) /\ Throughput(rows, first, day) = f[Len(rows)]
  BY ThroughputSums
<1>2. \A n \in 1 .. Len(rows) : w[n] = 0
  BY DEF Weights, Moved
<1> HIDE DEF w
<1> QED
  BY <1>1, <1>2, SumsOfNothing

LEMMA ThroughputAppend ==
  ASSUME NEW R, NEW rows \in Seq(R), NEW r \in R, NEW first, NEW day,
         Counted(Append(rows, r))
  PROVE  /\ Counted(rows)
         /\ Throughput(Append(rows, r), first, day) =
              Throughput(rows, first, day) + Moved(Append(rows, r), first, day, Len(rows) + 1)
<1> DEFINE more == Append(rows, r)
<1> DEFINE w == Weights(more, first, day)
<1> DEFINE v == Weights(rows, first, day)
<1>1. /\ Len(rows) \in Nat /\ Len(more) = Len(rows) + 1
      /\ \A n \in 1 .. Len(rows) : more[n] = rows[n]
  OBVIOUS
<1>2. Counted(rows)
  BY <1>1 DEF Counted
<1>3. PICK f : Sums(f, w, Len(more)) /\ Throughput(more, first, day) = f[Len(more)]
  <2> HIDE DEF more
  <2> QED
    BY <1>1, ThroughputSums
<1>4. PICK g : Sums(g, v, Len(rows)) /\ Throughput(rows, first, day) = g[Len(rows)]
  BY <1>1, ThroughputSums
<1>5. \A n \in 1 .. Len(rows) : v[n] = w[0 + n] /\ v[n] \in Int
  <2> SUFFICES ASSUME NEW n \in 1 .. Len(rows) PROVE v[n] = w[0 + n] /\ v[n] \in Int
    OBVIOUS
  <2>1. w[n] = Moved(more, first, day, n)
    BY <1>1 DEF Weights
  <2>2. v[n] = Moved(rows, first, day, n) /\ v[n] \in Nat
    BY <1>2, MovedNat
  <2>3. Moved(more, first, day, n) = Moved(rows, first, day, n)
    BY <1>1 DEF Moved
  <2> HIDE DEF w, v, more
  <2> QED
    BY <2>1, <2>2, <2>3
<1>6. w[Len(rows) + 1] = Moved(more, first, day, Len(rows) + 1)
  BY <1>1 DEF Weights
<1> HIDE DEF w, v, more
<1>7. Sums(f, w, 0 + Len(rows)) /\ f[0] \in Int /\ f[0] = 0
  BY <1>1, <1>3 DEF Sums
<1>8. f[0 + Len(rows)] = f[0] + g[Len(rows)] /\ g[Len(rows)] \in Int
  <2>1. Len(rows) \in Nat /\ 0 \in Nat /\ Len(rows) \in 0 .. Len(rows)
    BY <1>1
  <2>2. \A n \in 0 .. Len(rows) : f[0 + n] = f[0] + g[n] /\ g[n] \in Int
    BY <2>1, <1>4, <1>5, <1>7, SumsShift, Zenon
  <2> QED
    BY <2>1, <2>2, Zenon
<1>9. f[Len(rows) + 1] = f[Len(rows)] + w[Len(rows) + 1]
  BY <1>1, <1>3 DEF Sums
<1>10. Throughput(more, first, day) =
         Throughput(rows, first, day) + Moved(more, first, day, Len(rows) + 1)
  BY <1>1, <1>3, <1>4, <1>6, <1>7, <1>8, <1>9
<1> QED
  BY <1>2, <1>10 DEF more

LEMMA ThroughputTail ==
  ASSUME NEW R, NEW rows \in Seq(R), rows # << >>, NEW first \in Int, NEW day,
         Counted(rows)
  PROVE  /\ Counted(Tail(rows))
         /\ Throughput(rows, first, day) =
              Moved(rows, first, day, 1) + Throughput(Tail(rows), first + 1, day)
<1> DEFINE rest == Tail(rows)
<1> DEFINE w == Weights(rows, first, day)
<1> DEFINE v == Weights(rest, first + 1, day)
<1>1. /\ Len(rows) \in Nat /\ Len(rest) \in Nat /\ Len(rows) = 1 + Len(rest)
      /\ \A n \in 1 .. Len(rest) : rest[n] = rows[1 + n]
  OBVIOUS
<1>2. Counted(rest)
  BY <1>1 DEF Counted
<1>3. PICK f : Sums(f, w, Len(rows)) /\ Throughput(rows, first, day) = f[Len(rows)]
  BY <1>1, ThroughputSums
<1>4. PICK g : Sums(g, v, Len(rest)) /\ Throughput(rest, first + 1, day) = g[Len(rest)]
  <2> HIDE DEF rest
  <2> QED
    BY <1>1, ThroughputSums
<1>5. \A n \in 1 .. Len(rest) : v[n] = w[1 + n] /\ v[n] \in Int
  <2> SUFFICES ASSUME NEW n \in 1 .. Len(rest) PROVE v[n] = w[1 + n] /\ v[n] \in Int
    OBVIOUS
  <2>1. w[1 + n] = Moved(rows, first, day, 1 + n)
    <3> HIDE DEF rest
    <3> QED
      BY <1>1 DEF Weights
  <2>2. v[n] = Moved(rest, first + 1, day, n) /\ v[n] \in Nat
    <3> HIDE DEF rest
    <3> QED
      BY <1>2, MovedNat
  <2>3. (first + 1) + n = first + (1 + n)
    BY <1>1
  <2>4. Moved(rest, first + 1, day, n) = Moved(rows, first, day, 1 + n)
    BY <1>1, <2>3 DEF Moved
  <2> HIDE DEF w, v, rest
  <2> QED
    BY <2>1, <2>2, <2>4
<1>6. w[1] = Moved(rows, first, day, 1) /\ w[1] \in Nat
  <2> HIDE DEF rest
  <2> QED
    BY <1>1, MovedNat
<1> HIDE DEF w, v, rest
<1>7. f[0] = 0 /\ f[1] = f[1 - 1] + w[1]
  BY <1>1, <1>3 DEF Sums
<1>8. f[1] = w[1] /\ f[1] \in Int /\ Sums(f, w, 1 + Len(rest))
  BY <1>1, <1>3, <1>6, <1>7
<1>9. f[1 + Len(rest)] = f[1] + g[Len(rest)] /\ g[Len(rest)] \in Int
  <2> DEFINE one == 1
  <2> DEFINE k == Len(rest)
  <2>1. /\ one \in Nat /\ k \in Nat /\ k \in 0 .. k
        /\ Sums(f, w, one + k) /\ Sums(g, v, k) /\ f[one] \in Int
        /\ \A n \in 1 .. k : v[n] = w[one + n] /\ v[n] \in Int
    BY <1>1, <1>4, <1>5, <1>8
  <2> HIDE DEF one, k
  <2>2. \A n \in 0 .. k : f[one + n] = f[one] + g[n] /\ g[n] \in Int
    BY <2>1, SumsShift
  <2>3. f[one + k] = f[one] + g[k] /\ g[k] \in Int
    BY <2>1, <2>2, Zenon
  <2> QED
    BY <2>3 DEF one, k
<1>10. Throughput(rows, first, day) =
         Moved(rows, first, day, 1) + Throughput(rest, first + 1, day)
  BY <1>1, <1>3, <1>4, <1>6, <1>8, <1>9
<1> QED
  BY <1>2, <1>10 DEF rest

-----------------------------------------------------------------------------
(* Schedules(b, level) are the sequences of Horizon rows in which each row   *)
(* continues the one before it within the bounds.                            *)
Linked(b, level, rows, n) ==
  /\ rows[n].soc \in EffectiveMin(b) .. b.maxSoc
  /\ \E m \in Moves(b) : rows[n] = Row(b, Before(rows, level, n), m[1], m[2])

Chains(b, level, k) ==
  {rows \in Seq(Rows(b)) : Len(rows) = k /\ \A n \in 1 .. k : Linked(b, level, rows, n)}

Longer(b, level, S) ==
  UNION {{Append(rows, next) : next \in Extended(b, level, rows)} : rows \in S}

LEMMA BatteryNumbers ==
  ASSUME NEW b, ValidBattery(b)
  PROVE  /\ b.maxCharge \in Nat /\ b.maxDischarge \in Nat /\ b.budget \in Nat
         /\ b.gain \in Nat \ {0} /\ b.draw \in Nat \ {0} /\ b.keep \in Nat
         /\ b.minSoc \in Nat /\ b.maxSoc \in Nat
         /\ b.initial \in b.minSoc .. b.maxSoc /\ b.terminal \in b.minSoc .. b.maxSoc
         /\ EffectiveMin(b) \in b.minSoc .. b.maxSoc
  BY DEF ValidBattery, EffectiveMin

LEMMA MovesNumbers ==
  ASSUME NEW b, ValidBattery(b), NEW m \in Moves(b)
  PROVE  /\ m[1] \in 0 .. b.maxCharge /\ m[2] \in 0 .. b.maxDischarge
         /\ m[1] = 0 \/ m[2] = 0
<1>1. b.maxCharge \in Nat /\ b.maxDischarge \in Nat
  BY BatteryNumbers
<1>2. \/ \E c \in 0 .. b.maxCharge : m = <<c, 0>>
      \/ \E d \in 0 .. b.maxDischarge : m = <<0, d>>
  BY DEF Moves
<1> QED
  BY <1>1, <1>2

LEMMA RowFields ==
  \A b, level, c, d : /\ Row(b, level, c, d).charge = c
                      /\ Row(b, level, c, d).discharge = d
                      /\ Row(b, level, c, d).soc = After(b, level, c, d)
  BY DEF Row

LEMMA RowsMembers ==
  ASSUME NEW b, NEW row \in Rows(b)
  PROVE  /\ row.charge \in 0 .. b.maxCharge /\ row.discharge \in 0 .. b.maxDischarge
         /\ row.soc \in b.minSoc .. b.maxSoc
  BY DEF Rows

LEMMA RowInRows ==
  ASSUME NEW b, ValidBattery(b), NEW level, NEW c \in 0 .. b.maxCharge,
         NEW d \in 0 .. b.maxDischarge,
         Row(b, level, c, d).soc \in EffectiveMin(b) .. b.maxSoc
  PROVE  Row(b, level, c, d) \in Rows(b)
<1>1. After(b, level, c, d) \in EffectiveMin(b) .. b.maxSoc
  BY RowFields
<1>2. After(b, level, c, d) \in b.minSoc .. b.maxSoc
  BY <1>1, BatteryNumbers
<1> QED
  BY <1>2 DEF Row, Rows

LEMMA ExtendedInRows ==
  ASSUME NEW b, ValidBattery(b), NEW level, NEW rows
  PROVE  Extended(b, level, rows) \subseteq Rows(b)
<1> SUFFICES ASSUME NEW next \in Extended(b, level, rows) PROVE next \in Rows(b)
  OBVIOUS
<1>1. PICK m \in Moves(b) : next = Row(b, Before(rows, level, Len(rows) + 1), m[1], m[2])
  BY DEF Extended
<1>2. next.soc \in EffectiveMin(b) .. b.maxSoc
  BY DEF Extended
<1> QED
  BY <1>1, <1>2, MovesNumbers, RowInRows

LEMMA CountedRows ==
  ASSUME NEW b, ValidBattery(b), NEW rows \in Seq(Rows(b))
  PROVE  Counted(rows)
<1> SUFFICES ASSUME NEW n \in 1 .. Len(rows)
             PROVE  rows[n].charge \in Nat /\ rows[n].discharge \in Nat
  BY DEF Counted
<1>1. rows[n] \in Rows(b)
  OBVIOUS
<1>2. rows[n].charge \in 0 .. b.maxCharge /\ rows[n].discharge \in 0 .. b.maxDischarge
  BY <1>1, RowsMembers
<1> QED
  BY <1>2, BatteryNumbers

LEMMA LinkedAppend ==
  ASSUME NEW b, NEW level, NEW R, NEW rows \in Seq(R), NEW next \in R
  PROVE  /\ \A n \in 1 .. Len(rows) :
              Linked(b, level, Append(rows, next), n) <=> Linked(b, level, rows, n)
         /\ Linked(b, level, Append(rows, next), Len(rows) + 1)
              <=> next \in Extended(b, level, rows)
<1> DEFINE more == Append(rows, next)
<1>1. /\ Len(rows) \in Nat /\ more[Len(rows) + 1] = next
      /\ \A n \in 1 .. Len(rows) : more[n] = rows[n]
  OBVIOUS
<1> HIDE DEF more
<1>2. \A n \in 1 .. Len(rows) + 1 : Before(more, level, n) = Before(rows, level, n)
  BY <1>1 DEF Before
<1>3. \A n \in 1 .. Len(rows) : Linked(b, level, more, n) <=> Linked(b, level, rows, n)
  BY <1>1, <1>2 DEF Linked
<1>4. Linked(b, level, more, Len(rows) + 1) <=>
        /\ next.soc \in EffectiveMin(b) .. b.maxSoc
        /\ \E m \in Moves(b) :
             next = Row(b, Before(rows, level, Len(rows) + 1), m[1], m[2])
  BY <1>1, <1>2 DEF Linked
<1>5. Linked(b, level, more, Len(rows) + 1) <=> next \in Extended(b, level, rows)
  BY <1>4 DEF Extended
<1> QED
  BY <1>3, <1>5 DEF more

LEMMA ChainsStart ==
  ASSUME NEW b, NEW level
  PROVE  Chains(b, level, 0) = {<< >>}
<1>1. \A rows \in Seq(Rows(b)) : Len(rows) = 0 <=> rows = << >>
  OBVIOUS
<1>2. << >> \in Seq(Rows(b))
  OBVIOUS
<1>3. 1 .. 0 = {}
  OBVIOUS
<1>4. \A rows : rows \in Chains(b, level, 0) <=> rows \in Seq(Rows(b)) /\ Len(rows) = 0
  BY <1>3 DEF Chains
<1> QED
  BY <1>1, <1>2, <1>4

LEMMA ChainsGrow ==
  ASSUME NEW b, ValidBattery(b), NEW level, NEW k \in Nat
  PROVE  Chains(b, level, k + 1) = Longer(b, level, Chains(b, level, k))
<1>1. ASSUME NEW rows \in Chains(b, level, k + 1)
      PROVE  rows \in Longer(b, level, Chains(b, level, k))
  <2>1. /\ rows \in Seq(Rows(b)) /\ Len(rows) = k + 1
        /\ \A n \in 1 .. k + 1 : Linked(b, level, rows, n)
    BY <1>1 DEF Chains
  <2> DEFINE front == SubSeq(rows, 1, k)
  <2> DEFINE next == rows[k + 1]
  <2>2. /\ front \in Seq(Rows(b)) /\ Len(front) = k /\ next \in Rows(b)
        /\ rows = Append(front, next)
    BY <2>1
  <2> HIDE DEF front, next
  <2>3. \A n \in 1 .. k : Linked(b, level, front, n)
    <3>1. \A n \in 1 .. Len(front) :
            Linked(b, level, Append(front, next), n) <=> Linked(b, level, front, n)
      BY <2>2, LinkedAppend
    <3> QED
      BY <2>1, <2>2, <3>1
  <2>4. next \in Extended(b, level, front)
    <3>1. Linked(b, level, Append(front, next), Len(front) + 1)
            <=> next \in Extended(b, level, front)
      BY <2>2, LinkedAppend
    <3> QED
      BY <2>1, <2>2, <3>1
  <2>5. front \in Chains(b, level, k)
    BY <2>2, <2>3 DEF Chains
  <2> QED
    BY <2>2, <2>4, <2>5 DEF Longer
<1>2. ASSUME NEW rows \in Longer(b, level, Chains(b, level, k))
      PROVE  rows \in Chains(b, level, k + 1)
  <2>1. PICK front \in Chains(b, level, k) :
          \E next \in Extended(b, level, front) : rows = Append(front, next)
    BY <1>2 DEF Longer
  <2>2. PICK next \in Extended(b, level, front) : rows = Append(front, next)
    BY <2>1
  <2>3. /\ front \in Seq(Rows(b)) /\ Len(front) = k
        /\ \A n \in 1 .. k : Linked(b, level, front, n)
    BY <2>1 DEF Chains
  <2>4. next \in Rows(b)
    BY <2>2, ExtendedInRows
  <2>5. rows \in Seq(Rows(b)) /\ Len(rows) = k + 1
    BY <2>2, <2>3, <2>4
  <2>6. \A n \in 1 .. k : Linked(b, level, rows, n)
    BY <2>2, <2>3, <2>4, LinkedAppend
  <2>7. Linked(b, level, rows, k + 1)
    BY <2>2, <2>3, <2>4, LinkedAppend
  <2>8. \A n \in 1 .. k + 1 : n \in 1 .. k \/ n = k + 1
    OBVIOUS
  <2> QED
    BY <2>5, <2>6, <2>7, <2>8 DEF Chains
<1> QED
  BY <1>1, <1>2

LEMMA SchedulesAreChains ==
  ASSUME NEW b, ValidBattery(b), NEW level
  PROVE  Schedules(b, level) = Chains(b, level, Horizon)
<1> USE HorizonAssumption
<1> DEFINE upto[n \in 0 .. Horizon] ==
             IF n = 0 THEN {<< >>}
             ELSE UNION {{Append(rows, next) : next \in Extended(b, level, rows)}
                           : rows \in upto[n - 1]}
<1> DEFINE C == [n \in 0 .. Horizon |-> Chains(b, level, n)]
<1>1. Schedules(b, level) = upto[Horizon]
  BY DEF Schedules
<1>2. \A n \in 0 .. Horizon : C[n] = IF n = 0 THEN {<< >>} ELSE Longer(b, level, C[n - 1])
  <2> SUFFICES ASSUME NEW n \in 0 .. Horizon
               PROVE  C[n] = IF n = 0 THEN {<< >>} ELSE Longer(b, level, C[n - 1])
    OBVIOUS
  <2>1. CASE n = 0
    BY <2>1, ChainsStart
  <2>2. CASE n # 0
    <3>1. n - 1 \in Nat /\ n - 1 \in 0 .. Horizon /\ (n - 1) + 1 = n
      BY <2>2
    <3>2. Chains(b, level, (n - 1) + 1) = Longer(b, level, Chains(b, level, n - 1))
      BY <3>1, ChainsGrow
    <3> QED
      BY <2>2, <3>1, <3>2
  <2> QED
    BY <2>1, <2>2
<1>3. C = [n \in 0 .. Horizon |->
             IF n = 0 THEN {<< >>}
             ELSE UNION {{Append(rows, next) : next \in Extended(b, level, rows)}
                           : rows \in C[n - 1]}]
  BY <1>2 DEF Longer
<1>4. upto = [n \in 0 .. Horizon |->
                IF n = 0 THEN {<< >>}
                ELSE UNION {{Append(rows, next) : next \in Extended(b, level, rows)}
                              : rows \in upto[n - 1]}]
  <2> HIDE DEF C
  <2> QED
    BY <1>3
<1> HIDE DEF upto
<1>5. \A n \in 0 .. Horizon :
        upto[n] = IF n = 0 THEN {<< >>} ELSE Longer(b, level, upto[n - 1])
  BY <1>4 DEF Longer
<1> DEFINE S == {n \in Nat : n <= Horizon => upto[n] = Chains(b, level, n)}
<1>6. 0 \in S
  <2>1. upto[0] = {<< >>}
    BY <1>5
  <2> QED
    BY <2>1, ChainsStart
<1>7. ASSUME NEW n \in Nat, n \in S PROVE n + 1 \in S
  <2> SUFFICES ASSUME n + 1 <= Horizon PROVE upto[n + 1] = Chains(b, level, n + 1)
    OBVIOUS
  <2>1. upto[n] = Chains(b, level, n)
    BY <1>7
  <2>2. upto[n + 1] = Longer(b, level, upto[n])
    BY <1>5
  <2> QED
    BY <2>1, <2>2, ChainsGrow
<1> HIDE DEF S
<1>8. \A n \in Nat : n \in S
  BY <1>6, <1>7, InductionOverNat
<1>9. upto[Horizon] = Chains(b, level, Horizon)
  BY <1>8 DEF S
<1> QED
  BY <1>1, <1>9

LEMMA LinkedRow ==
  ASSUME NEW b, ValidBattery(b), NEW level, NEW rows, NEW n, Linked(b, level, rows, n)
  PROVE  /\ rows[n] = Row(b, Before(rows, level, n), rows[n].charge, rows[n].discharge)
         /\ rows[n].charge \in 0 .. b.maxCharge /\ rows[n].discharge \in 0 .. b.maxDischarge
         /\ rows[n].charge = 0 \/ rows[n].discharge = 0
         /\ rows[n].soc \in EffectiveMin(b) .. b.maxSoc
<1>1. PICK m \in Moves(b) : rows[n] = Row(b, Before(rows, level, n), m[1], m[2])
  BY DEF Linked
<1>2. rows[n].charge = m[1] /\ rows[n].discharge = m[2]
  BY <1>1, RowFields
<1> QED
  BY <1>1, <1>2, MovesNumbers DEF Linked

(* What the solver promises of the row that is applied.                      *)
Promised(b, level, moved, first, rows) ==
  /\ rows \in Seq(Rows(b)) /\ Len(rows) = Horizon /\ rows[1] \in Rows(b)
  /\ \A n \in 1 .. Horizon : Linked(b, level, rows, n)
  /\ rows[1] = Row(b, level, rows[1].charge, rows[1].discharge)
  /\ rows[1].charge = 0 \/ rows[1].discharge = 0
  /\ rows[1].soc \in EffectiveMin(b) .. b.maxSoc
  /\ rows[Horizon].soc = b.terminal
  /\ \A n \in 1 .. Horizon :
       Throughput(rows, first, Day(first + n)) <= b.budget - moved[Day(first + n)]

LEMMA FeasibleRows ==
  ASSUME NEW b, ValidBattery(b), NEW level, NEW moved, NEW first,
         NEW rows \in Feasible(b, level, moved, first)
  PROVE  Promised(b, level, moved, first, rows)
<1> USE HorizonAssumption
<1>1. rows \in Chains(b, level, Horizon)
  BY SchedulesAreChains DEF Feasible
<1>2. /\ rows \in Seq(Rows(b)) /\ Len(rows) = Horizon
      /\ \A n \in 1 .. Horizon : Linked(b, level, rows, n)
  BY <1>1 DEF Chains
<1>3. 1 \in 1 .. Horizon /\ rows[1] \in Rows(b) /\ Before(rows, level, 1) = level
  BY <1>2 DEF Before
<1>4. Linked(b, level, rows, 1)
  BY <1>2, <1>3
<1>5. /\ rows[1] = Row(b, level, rows[1].charge, rows[1].discharge)
      /\ rows[1].charge = 0 \/ rows[1].discharge = 0
      /\ rows[1].soc \in EffectiveMin(b) .. b.maxSoc
  BY <1>3, <1>4, LinkedRow
<1>6. /\ rows[Horizon].soc = b.terminal
      /\ \A n \in 1 .. Horizon :
           Throughput(rows, first, Day(first + n)) <= b.budget - moved[Day(first + n)]
  BY DEF Feasible, Remaining
<1> QED
  BY <1>2, <1>3, <1>5, <1>6 DEF Promised

LEMMA PhysicalAppend ==
  ASSUME NEW b, NEW level, NEW first, NEW R, NEW rows \in Seq(R), NEW next \in R,
         IsPhysical(b, rows, level, first),
         next.charge \in 0 .. b.maxCharge, next.discharge \in 0 .. b.maxDischarge,
         next.charge = 0 \/ next.discharge = 0,
         next.soc \in EffectiveMin(b) .. b.maxSoc,
         next = Row(b, Before(rows, level, Len(rows) + 1), next.charge, next.discharge),
         \A d \in Days : Throughput(Append(rows, next), first, d) <= b.budget
  PROVE  IsPhysical(b, Append(rows, next), level, first)
<1> DEFINE more == Append(rows, next)
<1>1. /\ Len(rows) \in Nat /\ DOMAIN rows = 1 .. Len(rows)
      /\ DOMAIN more = 1 .. Len(rows) + 1 /\ more[Len(rows) + 1] = next
      /\ \A n \in 1 .. Len(rows) : more[n] = rows[n]
  OBVIOUS
<1>2. \A d \in Days : Throughput(more, first, d) <= b.budget
  OBVIOUS
<1> HIDE DEF more
<1>3. \A n \in 1 .. Len(rows) + 1 : Before(more, level, n) = Before(rows, level, n)
  BY <1>1 DEF Before
<1> DEFINE Good(seq, n) ==
             /\ seq[n].charge \in 0 .. b.maxCharge
             /\ seq[n].discharge \in 0 .. b.maxDischarge
             /\ seq[n].charge = 0 \/ seq[n].discharge = 0
             /\ seq[n].soc \in EffectiveMin(b) .. b.maxSoc
             /\ seq[n] = Row(b, Before(seq, level, n), seq[n].charge, seq[n].discharge)
<1>4. \A n \in 1 .. Len(rows) : Good(rows, n)
  BY <1>1 DEF IsPhysical
<1>5. \A n \in 1 .. Len(rows) : Good(more, n)
  BY <1>1, <1>3, <1>4
<1>6. Good(more, Len(rows) + 1)
  BY <1>1, <1>3
<1> HIDE DEF Good
<1>7. \A n \in DOMAIN more : Good(more, n)
  BY <1>1, <1>5, <1>6
<1>8. IsPhysical(b, more, level, first)
  BY <1>2, <1>7 DEF IsPhysical, Good
<1> QED
  BY <1>8 DEF more

-----------------------------------------------------------------------------
(* A baseline's schedule has a row for each step of the horizon.             *)
NumberRows == [charge : Int, discharge : Int, soc : Int]

LEMMA GrantedType ==
  ASSUME NEW b, ValidBattery(b), NEW level \in Int,
         NEW request \in {"charge", "discharge", "idle"}
  PROVE  Granted(b, level, request) \in NumberRows
<1>1. ASSUME NEW c \in Int, NEW d \in Int PROVE Row(b, level, c, d) \in NumberRows
  <2>1. c * b.gain \in Int /\ d * b.draw \in Int /\ level * b.keep \in Int
    BY BatteryNumbers
  <2>2. After(b, level, c, d) \in Int
    BY <2>1 DEF After, Kept
  <2> QED
    BY <2>2 DEF Row, NumberRows
<1>2. Kept(b, level) \in Int
  <2>1. level * b.keep \in Int
    BY BatteryNumbers
  <2> QED
    BY <2>1 DEF Kept
<1>3. /\ NonNegative(b.maxSoc - Kept(b, level)) \in Int
      /\ NonNegative(Kept(b, level) - EffectiveMin(b)) \in Int
  BY <1>2, BatteryNumbers DEF NonNegative
<1>4. /\ NonNegative(b.maxSoc - Kept(b, level)) \div b.gain \in Int
      /\ NonNegative(Kept(b, level) - EffectiveMin(b)) \div b.draw \in Int
  BY <1>3, BatteryNumbers
<1>5. /\ Least(b.maxCharge, NonNegative(b.maxSoc - Kept(b, level)) \div b.gain) \in Int
      /\ Least(b.maxDischarge,
               NonNegative(Kept(b, level) - EffectiveMin(b)) \div b.draw) \in Int
  BY <1>4, BatteryNumbers DEF Least
<1> QED
  BY <1>1, <1>5 DEF Granted

LEMMA SequentialRows ==
  ASSUME NEW b, ValidBattery(b), NEW level \in Int,
         NEW requests \in [1 .. Horizon -> {"charge", "discharge", "idle"}]
  PROVE  /\ SequentialSchedule(b, level, requests) \in Seq(NumberRows)
         /\ Len(SequentialSchedule(b, level, requests)) = Horizon
<1> USE HorizonAssumption
<1> DEFINE upto[n \in 0 .. Horizon] ==
             IF n = 0 THEN << >>
             ELSE Append(upto[n - 1],
                         Granted(b, Before(upto[n - 1], level, n), requests[n]))
<1> DEFINE Further(rows, n) == Append(rows, Granted(b, Before(rows, level, n), requests[n]))
<1> DEFINE Good(g, k) ==
             /\ g = [n \in 0 .. k |-> IF n = 0 THEN << >> ELSE Further(g[n - 1], n)]
             /\ \A n \in 0 .. k : g[n] \in Seq(NumberRows) /\ Len(g[n]) = n
<1> DEFINE S == {k \in Nat : k <= Horizon => \E g : Good(g, k)}
<1>1. SequentialSchedule(b, level, requests) = upto[Horizon]
  BY DEF SequentialSchedule
<1>2. 0 \in S
  <2> DEFINE g == [n \in 0 .. 0 |-> << >>]
  <2>1. Good(g, 0)
    OBVIOUS
  <2>2. \E x : Good(x, 0)
    <3> HIDE DEF g, Good
    <3> QED
      BY <2>1
  <2> QED
    BY <2>2
<1>3. ASSUME NEW k \in Nat, k \in S PROVE k + 1 \in S
  <2>1. ASSUME k + 1 <= Horizon, NEW g, Good(g, k) PROVE \E x : Good(x, k + 1)
    <3>1. \A n \in 0 .. k : /\ g[n] = IF n = 0 THEN << >> ELSE Further(g[n - 1], n)
                            /\ g[n] \in Seq(NumberRows) /\ Len(g[n]) = n
      BY <2>1
    <3>2. Before(g[k], level, k + 1) \in Int
      <4>1. CASE k = 0
        BY <4>1 DEF Before
      <4>2. CASE k # 0
        <5>1. k \in 1 .. Len(g[k]) /\ g[k] \in Seq(NumberRows)
          BY <3>1, <4>2
        <5>2. g[k][k] \in NumberRows
          BY <5>1
        <5>3. g[k][k].soc \in Int
          BY <5>2 DEF NumberRows
        <5> QED
          BY <4>2, <5>3 DEF Before
      <4> QED
        BY <4>1, <4>2
    <3>3. Granted(b, Before(g[k], level, k + 1), requests[k + 1]) \in NumberRows
      BY <2>1, <3>2, GrantedType
    <3>4. Further(g[k], k + 1) \in Seq(NumberRows) /\ Len(Further(g[k], k + 1)) = k + 1
      BY <3>1, <3>3
    <3> HIDE DEF Further
    <3> DEFINE h == [n \in 0 .. k + 1 |-> IF n = k + 1 THEN Further(g[k], k + 1) ELSE g[n]]
    <3>5. h[k + 1] = Further(g[k], k + 1) /\ \A n \in 0 .. k : h[n] = g[n]
      OBVIOUS
    <3>11. h = [n \in 0 .. k + 1 |-> h[n]]
      OBVIOUS
    <3> HIDE DEF h
    <3>6. \A n \in 0 .. k + 1 : n = k + 1 \/ n \in 0 .. k
      OBVIOUS
    <3>7. \A n \in 0 .. k + 1 : h[n] \in Seq(NumberRows) /\ Len(h[n]) = n
      BY <3>1, <3>4, <3>5, <3>6
    <3>8. \A n \in 0 .. k + 1 : h[n] = IF n = 0 THEN << >> ELSE Further(h[n - 1], n)
      <4> SUFFICES ASSUME NEW n \in 0 .. k + 1
                   PROVE  h[n] = IF n = 0 THEN << >> ELSE Further(h[n - 1], n)
        OBVIOUS
      <4>1. CASE n = k + 1
        <5>1. h[n - 1] = g[k] /\ n # 0 /\ h[n] = Further(g[k], n)
          <6>1. n - 1 = k /\ k \in 0 .. k /\ n # 0
            BY <4>1
          <6> QED
            BY <3>5, <4>1, <6>1
        <5> QED
          BY <5>1
      <4>2. CASE n \in 0 .. k
        <5>1. h[n] = g[n] /\ (n # 0 => h[n - 1] = g[n - 1])
          <6>1. n # 0 => n - 1 \in 0 .. k
            BY <4>2
          <6> QED
            BY <3>5, <4>2, <6>1
        <5>2. g[n] = IF n = 0 THEN << >> ELSE Further(g[n - 1], n)
          BY <3>1, <4>2
        <5>3. CASE n = 0
          BY <5>1, <5>2, <5>3
        <5>4. CASE n # 0
          BY <5>1, <5>2, <5>4
        <5> QED
          BY <5>3, <5>4
      <4> QED
        BY <3>6, <4>1, <4>2
    <3>9. h = [n \in 0 .. k + 1 |-> IF n = 0 THEN << >> ELSE Further(h[n - 1], n)]
      BY <3>8, <3>11
    <3>10. Good(h, k + 1)
      BY <3>7, <3>9
    <3> HIDE DEF Good
    <3> QED
      BY <3>10
  <2> HIDE DEF Good
  <2> QED
    BY <1>3, <2>1
<1> HIDE DEF S
<1>4. Horizon \in S
  <2>1. \A k \in Nat : k \in S
    BY <1>2, <1>3, InductionOverNat
  <2> QED
    BY <2>1
<1>5. PICK g : Good(g, Horizon)
  <2> HIDE DEF Good
  <2> QED
    BY <1>4 DEF S
<1>6. upto = [n \in 0 .. Horizon |-> IF n = 0 THEN << >> ELSE Further(upto[n - 1], n)]
  BY <1>5
<1> HIDE DEF upto, Further
<1> DEFINE U == {n \in Nat : n <= Horizon => upto[n] = g[n]}
<1>7. 0 \in U
  <2>1. upto[0] = << >> /\ g[0] = << >>
    BY <1>5, <1>6
  <2> QED
    BY <2>1
<1>8. ASSUME NEW n \in Nat, n \in U PROVE n + 1 \in U
  <2> SUFFICES ASSUME n + 1 <= Horizon PROVE upto[n + 1] = g[n + 1]
    OBVIOUS
  <2>1. upto[n] = g[n]
    BY <1>8
  <2>2. upto[n + 1] = Further(upto[n], n + 1)
    BY <1>6
  <2>3. g[n + 1] = Further(g[n], n + 1)
    BY <1>5
  <2> QED
    BY <2>1, <2>2, <2>3
<1> HIDE DEF U
<1>9. upto[Horizon] = g[Horizon]
  <2>1. Horizon \in U
    BY <1>7, <1>8, InductionOverNat
  <2> QED
    BY <2>1 DEF U
<1> QED
  BY <1>1, <1>5, <1>9

-----------------------------------------------------------------------------
(* While the MILP is rolled, the day's throughput and the state of charge    *)
(* handed to the next solve are those of the rows applied so far.            *)
Carried ==
  strategy = "optimized" =>
    /\ Len(applied["optimized"]) = origin
    /\ soc = Before(applied["optimized"], battery.initial, origin + 1)
    /\ \A d \in Days : used[d] = Throughput(applied["optimized"], start, d)

DispatchInv == TypeOK /\ Carried /\ AppliedIsPhysical

LEMMA BatteryOK == TypeOK => ValidBattery(battery)
  BY BatteryAssumption DEF TypeOK

LEMMA ApplyType ==
  ASSUME TypeOK, NEW row \in Rows(battery), strategy \in Strategies, origin < Origins,
         Apply(row), UNCHANGED <<battery, start, strategy>>, used' \in [Days -> Nat]
  PROVE  TypeOK'
<1>1. origin' \in 0 .. Origins
  BY HorizonAssumption DEF TypeOK, Apply
<1>2. soc' \in battery.minSoc .. battery.maxSoc
  BY RowsMembers DEF Apply
<1>3. applied' \in [Strategies -> Seq(Rows(battery))]
  BY DEF TypeOK, Apply
<1> QED
  BY <1>1, <1>2, <1>3 DEF TypeOK

LEMMA OptimizeRow ==
  ASSUME TypeOK, Optimize
  PROVE  \E rows \in Feasible(battery, soc, used, start + origin) :
           /\ Apply(rows[1])
           /\ used' = [used EXCEPT ![Day(start + origin + 1)] =
                         @ + rows[1].charge + rows[1].discharge]
           /\ rows[1] \in Rows(battery)
           /\ rows[1].charge \in Nat /\ rows[1].discharge \in Nat
<1>1. PICK rows \in Feasible(battery, soc, used, start + origin) :
        /\ Apply(rows[1])
        /\ used' = [used EXCEPT ![Day(start + origin + 1)] =
                      @ + rows[1].charge + rows[1].discharge]
  BY DEF Optimize
<1>2. Promised(battery, soc, used, start + origin, rows)
  BY <1>1, BatteryOK, FeasibleRows
<1>3. rows[1] \in Rows(battery)
  BY <1>2 DEF Promised
<1>4. rows[1].charge \in Nat /\ rows[1].discharge \in Nat
  BY <1>3, RowsMembers, BatteryOK, BatteryNumbers
<1> QED
  BY <1>1, <1>3, <1>4

(* What used becomes, day by day.                                            *)
LEMMA UsedAfter ==
  ASSUME used \in [Days -> Nat], NEW day, NEW c \in Nat, NEW e \in Nat,
         used' = [used EXCEPT ![day] = @ + c + e]
  PROVE  /\ used' \in [Days -> Nat]
         /\ \A d \in Days : used'[d] = used[d] + (IF day = d THEN c + e ELSE 0)
<1>1. \A d \in Days : used[d] \in Nat
  OBVIOUS
<1>2. \A d \in Days : used'[d] = used[d] + (IF day = d THEN c + e ELSE 0)
  BY <1>1
<1>3. DOMAIN used' = Days
  OBVIOUS
<1>4. \A d \in Days : used'[d] \in Nat
  BY <1>1, <1>2
<1>5. used' = [d \in Days |-> used'[d]]
  OBVIOUS
<1> QED
  BY <1>2, <1>4, <1>5

LEMMA DispatchTypeInductive == TypeOK /\ [Next]_vars => TypeOK'
<1> SUFFICES ASSUME TypeOK, [Next]_vars PROVE TypeOK'
  OBVIOUS
<1> USE HorizonAssumption
<1>1. CASE Optimize
  <2>1. PICK rows \in Feasible(battery, soc, used, start + origin) :
          /\ Apply(rows[1])
          /\ used' = [used EXCEPT ![Day(start + origin + 1)] =
                        @ + rows[1].charge + rows[1].discharge]
          /\ rows[1] \in Rows(battery)
          /\ rows[1].charge \in Nat /\ rows[1].discharge \in Nat
    BY <1>1, OptimizeRow
  <2>2. used' \in [Days -> Nat]
    BY <2>1, UsedAfter DEF TypeOK
  <2>3. /\ strategy \in Strategies /\ origin < Origins
        /\ UNCHANGED <<battery, start, strategy>>
    BY <1>1 DEF Optimize, Strategies
  <2> QED
    BY <2>1, <2>2, <2>3, ApplyType
<1>2. CASE Baseline
  <2>1. PICK r \in Requests :
          LET rows == SequentialSchedule(battery, soc, r)
          IN  IF IsPhysical(battery, rows, soc, start + origin)
              THEN Apply(rows[1]) /\ UNCHANGED <<battery, start, strategy, used>>
              ELSE Fail
    BY <1>2 DEF Baseline
  <2> DEFINE rows == SequentialSchedule(battery, soc, r)
  <2>2. strategy \in Strategies /\ origin < Origins
    BY <1>2 DEF Baseline, Strategies
  <2>3. CASE IsPhysical(battery, rows, soc, start + origin)
    <3>1. r \in [1 .. Horizon -> {"charge", "discharge", "idle"}]
      BY DEF Requests, RuleRequests
    <3>2. soc \in Int
      BY BatteryOK, BatteryNumbers DEF TypeOK
    <3>3. rows \in Seq(NumberRows) /\ Len(rows) = Horizon
      BY <3>1, <3>2, BatteryOK, SequentialRows
    <3>4. Apply(rows[1]) /\ UNCHANGED <<battery, start, strategy, used>>
      BY <2>1, <2>3
    <3> HIDE DEF rows
    <3>5. 1 \in DOMAIN rows /\ Before(rows, soc, 1) = soc
      BY <3>3 DEF Before
    <3>6. /\ rows[1].charge \in 0 .. battery.maxCharge
          /\ rows[1].discharge \in 0 .. battery.maxDischarge
          /\ rows[1].soc \in EffectiveMin(battery) .. battery.maxSoc
          /\ rows[1] = Row(battery, soc, rows[1].charge, rows[1].discharge)
      BY <2>3, <3>5 DEF IsPhysical
    <3>7. rows[1] \in Rows(battery)
      BY <3>6, BatteryOK, RowInRows
    <3> QED
      BY <2>2, <3>4, <3>7, ApplyType DEF TypeOK
  <2>4. CASE ~IsPhysical(battery, rows, soc, start + origin)
    BY <2>1, <2>4 DEF Fail, TypeOK
  <2> QED
    BY <2>3, <2>4
<1>3. CASE Infeasible \/ StepFails
  BY <1>3 DEF Infeasible, StepFails, Fail, TypeOK
<1>4. CASE FinishStrategy
  <2>1. strategy' \in Strategies \cup {"done", "failed"}
    BY <1>4 DEF FinishStrategy, Following, Strategies
  <2>2. soc' \in battery.minSoc .. battery.maxSoc
    BY <1>4, BatteryOK, BatteryNumbers DEF FinishStrategy
  <2>3. origin' \in 0 .. Origins /\ used' \in [Days -> Nat]
    BY <1>4 DEF FinishStrategy
  <2> QED
    BY <1>4, <2>1, <2>2, <2>3 DEF FinishStrategy, TypeOK
<1>5. CASE UNCHANGED vars
  BY <1>5 DEF vars, TypeOK
<1> QED
  BY <1>1, <1>2, <1>3, <1>4, <1>5 DEF Next

(* Only the optimized strategy's own steps touch what it applied.            *)
LEMMA OptimizedRowsKept ==
  ASSUME TypeOK, [Next]_vars, ~Optimize
  PROVE  /\ applied'["optimized"] = applied["optimized"]
         /\ UNCHANGED <<battery, start>>
         /\ strategy' = "optimized" => UNCHANGED vars
<1>1. CASE Baseline
  <2>1. strategy # "optimized" /\ strategy' # "optimized"
    BY <1>1 DEF Baseline, Fail
  <2>2. UNCHANGED <<battery, start>>
    BY <1>1 DEF Baseline, Fail
  <2>3. \/ applied' = applied
        \/ \E row : applied' = [applied EXCEPT ![strategy] = Append(@, row)]
    BY <1>1 DEF Baseline, Fail, Apply
  <2> QED
    BY <2>1, <2>2, <2>3 DEF TypeOK, Strategies
<1>2. CASE Infeasible \/ StepFails
  BY <1>2 DEF Infeasible, StepFails, Fail
<1>3. CASE FinishStrategy
  <2>1. strategy' # "optimized"
    BY <1>3 DEF FinishStrategy, Following, Strategies
  <2> QED
    BY <1>3, <2>1 DEF FinishStrategy
<1>4. CASE UNCHANGED vars
  BY <1>4 DEF vars
<1> QED
  BY <1>1, <1>2, <1>3, <1>4 DEF Next

LEMMA DispatchInductive == DispatchInv /\ [Next]_vars => DispatchInv'
<1> SUFFICES ASSUME DispatchInv, [Next]_vars PROVE DispatchInv'
  OBVIOUS
<1> USE HorizonAssumption
<1>0. TypeOK /\ Carried /\ AppliedIsPhysical /\ TypeOK' /\ ValidBattery(battery)
  BY DispatchTypeInductive, BatteryOK DEF DispatchInv
<1>1. CASE ~Optimize
  <2>1. /\ applied'["optimized"] = applied["optimized"]
        /\ UNCHANGED <<battery, start>>
        /\ strategy' = "optimized" => UNCHANGED vars
    BY <1>0, <1>1, OptimizedRowsKept
  <2>2. AppliedIsPhysical'
    BY <1>0, <2>1 DEF AppliedIsPhysical
  <2>3. Carried'
    BY <1>0, <2>1 DEF Carried, vars
  <2> QED
    BY <1>0, <2>2, <2>3 DEF DispatchInv
<1>2. CASE Optimize
  <2> DEFINE old == applied["optimized"]
  <2>1. PICK rows \in Feasible(battery, soc, used, start + origin) :
          /\ Apply(rows[1])
          /\ used' = [used EXCEPT ![Day(start + origin + 1)] =
                        @ + rows[1].charge + rows[1].discharge]
          /\ rows[1] \in Rows(battery)
          /\ rows[1].charge \in Nat /\ rows[1].discharge \in Nat
    BY <1>0, <1>2, OptimizeRow
  <2> DEFINE row == rows[1]
  <2>2. /\ strategy = "optimized" /\ UNCHANGED <<battery, start, strategy>>
        /\ origin' = origin + 1 /\ soc' = row.soc
    BY <1>2, <2>1 DEF Optimize, Apply
  <2>3. /\ old \in Seq(Rows(battery)) /\ applied'["optimized"] = Append(old, row)
        /\ start \in Int /\ origin \in Nat /\ start + origin \in Int
        /\ used \in [Days -> Nat]
    BY <1>0, <2>1, <2>2 DEF Apply, TypeOK, Strategies
  <2>4. /\ rows \in Seq(Rows(battery)) /\ Len(rows) = Horizon
        /\ row = Row(battery, soc, row.charge, row.discharge)
        /\ row.charge = 0 \/ row.discharge = 0
        /\ row.soc \in EffectiveMin(battery) .. battery.maxSoc
        /\ \A n \in 1 .. Horizon :
             Throughput(rows, start + origin, Day(start + origin + n))
               <= battery.budget - used[Day(start + origin + n)]
    <3>1. Promised(battery, soc, used, start + origin, rows)
      BY <1>0, <2>1, FeasibleRows
    <3> QED
      BY <3>1 DEF Promised
  <2>5. row \in Rows(battery) /\ row.charge \in Nat /\ row.discharge \in Nat
    BY <2>1
  <2> HIDE DEF old, row
  <2>6. /\ Len(old) = origin /\ soc = Before(old, battery.initial, origin + 1)
        /\ \A d \in Days : used[d] = Throughput(old, start, d)
    BY <1>0, <2>2 DEF Carried, old
  <2>7. Append(old, row) \in Seq(Rows(battery)) /\ Counted(Append(old, row))
        /\ Append(old, row)[origin + 1] = row /\ Len(Append(old, row)) = origin + 1
    <3>1. Append(old, row) \in Seq(Rows(battery))
      BY <2>3, <2>5
    <3>2. Counted(Append(old, row))
      BY <1>0, <3>1, CountedRows
    <3>3. Append(old, row)[origin + 1] = row /\ Len(Append(old, row)) = origin + 1
      BY <2>3, <2>5, <2>6
    <3> QED
      BY <3>1, <3>2, <3>3
  <2>8. \A d \in Days : Throughput(Append(old, row), start, d) =
          Throughput(old, start, d) + Moved(Append(old, row), start, d, origin + 1)
    BY <2>3, <2>5, <2>6, <2>7, ThroughputAppend
  <2>9. \A d \in Days : Moved(Append(old, row), start, d, origin + 1) =
          IF Day(start + origin + 1) = d THEN row.charge + row.discharge ELSE 0
    <3>1. start + (origin + 1) = start + origin + 1
      BY <2>3
    <3> QED
      BY <2>7, <3>1 DEF Moved
  <2>10. \A d \in Days : used'[d] = used[d] +
           (IF Day(start + origin + 1) = d THEN row.charge + row.discharge ELSE 0)
    BY <2>1, <2>3, UsedAfter DEF row
  <2>11. \A d \in Days : used'[d] = Throughput(Append(old, row), start, d)
    BY <2>6, <2>8, <2>9, <2>10
  <2>12. \A d \in Days : Throughput(Append(old, row), start, d) <= battery.budget
    <3> SUFFICES ASSUME NEW d \in Days
                 PROVE  Throughput(Append(old, row), start, d) <= battery.budget
      OBVIOUS
    <3>1. CASE Day(start + origin + 1) = d
      <4>1. Moved(rows, start + origin, d, 1) = row.charge + row.discharge
        BY <3>1 DEF Moved, row
      <4>2. Counted(rows)
        BY <1>0, <2>4, CountedRows
      <4>3. /\ Throughput(rows, start + origin, d) \in Nat
            /\ Moved(rows, start + origin, d, 1) <= Throughput(rows, start + origin, d)
        BY <2>4, <4>2, ThroughputGrows
      <4>4. Throughput(rows, start + origin, d) <= battery.budget - used[d]
        <5>1. 1 \in 1 .. Horizon
          OBVIOUS
        <5> QED
          BY <2>4, <3>1, <5>1
      <4>5. used[d] \in Nat /\ battery.budget \in Nat
        BY <1>0, <2>3, BatteryNumbers
      <4>6. used'[d] = used[d] + (row.charge + row.discharge)
        BY <2>10, <3>1
      <4> QED
        BY <2>5, <2>11, <4>1, <4>3, <4>4, <4>5, <4>6
    <3>2. CASE Day(start + origin + 1) # d
      <4>1. used'[d] = used[d]
        BY <2>3, <2>10, <3>2
      <4>2. Throughput(old, start, d) <= battery.budget
        BY <1>0 DEF AppliedIsPhysical, IsPhysical, old
      <4> QED
        BY <2>6, <2>11, <4>1, <4>2
    <3> QED
      BY <3>1, <3>2
  <2>13. AppliedIsPhysical'
    <3>1. IsPhysical(battery, old, battery.initial, start)
      BY <1>0 DEF AppliedIsPhysical, old
    <3>2. /\ row.charge \in 0 .. battery.maxCharge
          /\ row.discharge \in 0 .. battery.maxDischarge
      BY <2>5, RowsMembers
    <3>3. row = Row(battery, Before(old, battery.initial, Len(old) + 1),
                    row.charge, row.discharge)
      BY <2>4, <2>6
    <3>4. IsPhysical(battery, Append(old, row), battery.initial, start)
      BY <2>3, <2>4, <2>5, <2>12, <3>1, <3>2, <3>3, PhysicalAppend
    <3> QED
      BY <2>2, <2>3, <3>4 DEF AppliedIsPhysical
  <2>14. Carried'
    <3>1. Before(Append(old, row), battery.initial, origin + 1 + 1) = row.soc
      <4>1. origin + 1 + 1 # 1 /\ (origin + 1 + 1) - 1 = origin + 1
        BY <2>3
      <4> QED
        BY <2>7, <4>1 DEF Before
    <3> QED
      BY <2>2, <2>3, <2>7, <2>11, <3>1 DEF Carried
  <2> QED
    BY <1>0, <2>13, <2>14 DEF DispatchInv
<1> QED
  BY <1>1, <1>2

LEMMA DispatchInit == Init => DispatchInv
<1> SUFFICES ASSUME Init PROVE DispatchInv
  OBVIOUS
<1> USE HorizonAssumption
<1>1. ValidBattery(battery)
  BY BatteryAssumption DEF Init
<1>2. applied["optimized"] = << >> /\ Len(<< >>) = 0
  BY DEF Init, Strategies
<1>3. TypeOK
  <2>1. soc \in battery.minSoc .. battery.maxSoc /\ origin \in 0 .. Origins
    BY <1>1, BatteryNumbers DEF Init
  <2>2. used \in [Days -> Nat]
    BY DEF Init
  <2>3. applied \in [Strategies -> Seq(Rows(battery))]
    <3>1. << >> \in Seq(Rows(battery))
      OBVIOUS
    <3> QED
      BY <3>1 DEF Init
  <2>4. start \in 0 .. StepsPerDay - 1 /\ battery \in Batteries
    BY DEF Init
  <2>5. strategy \in Strategies \cup {"done", "failed"}
    BY DEF Init, Strategies
  <2> QED
    BY <2>1, <2>2, <2>3, <2>4, <2>5 DEF TypeOK
<1>4. \A d \in Days : Throughput(<< >>, start, d) = 0
  <2> DEFINE none == << >>
  <2>1. Len(none) \in Nat /\ \A n \in 1 .. Len(none) : FALSE
    OBVIOUS
  <2> HIDE DEF none
  <2>2. \A d \in Days : Throughput(none, start, d) = 0
    BY <2>1, ThroughputOfNothing
  <2> QED
    BY <2>2 DEF none
<1>5. Carried
  BY <1>2, <1>4 DEF Init, Carried, Before
<1>6. AppliedIsPhysical
  <2>1. DOMAIN << >> = {}
    OBVIOUS
  <2> QED
    BY <1>1, <1>2, <1>4, <2>1, BatteryNumbers DEF AppliedIsPhysical, IsPhysical
<1> QED
  BY <1>3, <1>5, <1>6 DEF DispatchInv

LEMMA DispatchInvariant == Spec => []DispatchInv
BY DispatchInit, DispatchInductive, PTL DEF Spec

(* The state of charge each origin starts from satisfies the specification,  *)
(* as with_initial_soc demands, and only rows within the battery's bounds    *)
(* are applied (rolling_horizon_simulation, simulation.py:172-210, and       *)
(* _rolling_baseline).                                                       *)
THEOREM DispatchTypeCorrect == Spec => []TypeOK
<1>1. DispatchInv => TypeOK
  BY DEF DispatchInv
<1> QED
  BY <1>1, DispatchInvariant, PTL

(* The first rows of the many schedules the solver returns are together one  *)
(* schedule that a single validation would pass: continuous in the state of  *)
(* charge, within power and reserve, and no day over the cycle limit, for    *)
(* every battery, horizon and number of origins                              *)
(* (rolling_horizon_simulation, simulation.py:172-210).                      *)
THEOREM AppliedPhysicalCorrect == Spec => []AppliedIsPhysical
<1>1. DispatchInv => AppliedIsPhysical
  BY DEF DispatchInv
<1> QED
  BY <1>1, DispatchInvariant, PTL

-----------------------------------------------------------------------------
(* From one feasible schedule to the next: what is left of it, and an idle   *)
(* row at the terminal target.                                               *)
Idle(b) == Row(b, b.terminal, 0, 0)

Shifted(b, rows) == Append(Tail(rows), Idle(b))

LEMMA DayMonotone ==
  ASSUME NEW m \in Nat, NEW n \in Nat, m <= n
  PROVE  Day(m) \in Nat /\ Day(n) \in Nat /\ Day(m) <= Day(n)
  BY HorizonAssumption DEF Day

LEMMA DaysCover ==
  ASSUME NEW n \in Nat, n <= StepsPerDay + Origins + Horizon
  PROVE  Day(n) \in Days
<1>1. StepsPerDay + Origins + Horizon \in Nat
  BY HorizonAssumption
<1>2. Day(n) \in Nat /\ Day(n) <= Day(StepsPerDay + Origins + Horizon)
      /\ Day(StepsPerDay + Origins + Horizon) \in Nat
  BY <1>1, DayMonotone
<1> QED
  BY <1>2 DEF Days, Day

LEMMA IdleRow ==
  ASSUME NEW b, ValidBattery(b), b.keep = 100
  PROVE  Idle(b).charge = 0 /\ Idle(b).discharge = 0 /\ Idle(b).soc = b.terminal
<1>1. b.terminal \in Int /\ 0 * b.gain = 0 /\ 0 * b.draw = 0
  BY BatteryNumbers
<1>2. Kept(b, b.terminal) = b.terminal
  BY <1>1 DEF Kept
<1>3. After(b, b.terminal, 0, 0) = b.terminal
  BY <1>1, <1>2 DEF After
<1> QED
  BY <1>3 DEF Idle, Row

LEMMA ShiftedRows ==
  ASSUME NEW b, ValidBattery(b), b.keep = 100, NEW level,
         NEW rows \in Seq(Rows(b)), Len(rows) = Horizon,
         \A n \in 1 .. Horizon : Linked(b, level, rows, n),
         rows[Horizon].soc = b.terminal
  PROVE  /\ Idle(b) \in Rows(b)
         /\ Shifted(b, rows) \in Chains(b, rows[1].soc, Horizon)
         /\ Shifted(b, rows)[Horizon].soc = b.terminal
<1> USE HorizonAssumption
<1> DEFINE rest == Tail(rows)
<1> DEFINE next == Idle(b)
<1>1. /\ Horizon \in Nat /\ rest \in Seq(Rows(b)) /\ Len(rest) = Horizon - 1
      /\ \A n \in 1 .. Horizon - 1 : rest[n] = rows[n + 1]
  OBVIOUS
<1>2. next.charge = 0 /\ next.discharge = 0 /\ next.soc = b.terminal
  BY IdleRow
<1>3. b.terminal \in EffectiveMin(b) .. b.maxSoc
  BY DEF Linked
<1>4. <<0, 0>> \in Moves(b)
  BY BatteryNumbers DEF Moves
<1>5. next \in Rows(b)
  <2>1. 0 \in 0 .. b.maxCharge /\ 0 \in 0 .. b.maxDischarge
    BY BatteryNumbers
  <2> QED
    BY <1>2, <1>3, <2>1, RowInRows DEF Idle
<1> HIDE DEF rest, next
<1>6. \A n \in 1 .. Horizon : Before(rest, rows[1].soc, n) = Before(rows, level, n + 1)
  <2> SUFFICES ASSUME NEW n \in 1 .. Horizon
               PROVE  Before(rest, rows[1].soc, n) = Before(rows, level, n + 1)
    OBVIOUS
  <2>1. CASE n = 1
    BY <2>1 DEF Before
  <2>2. CASE n # 1
    <3>1. n - 1 \in 1 .. Horizon - 1 /\ (n - 1) + 1 = n /\ (n + 1) - 1 = n /\ n + 1 # 1
      BY <2>2
    <3>2. rest[n - 1] = rows[n]
      BY <1>1, <3>1
    <3> QED
      BY <2>2, <3>1, <3>2 DEF Before
  <2> QED
    BY <2>1, <2>2
<1>7. \A n \in 1 .. Horizon - 1 : Linked(b, rows[1].soc, rest, n)
  <2> SUFFICES ASSUME NEW n \in 1 .. Horizon - 1 PROVE Linked(b, rows[1].soc, rest, n)
    OBVIOUS
  <2>1. n + 1 \in 1 .. Horizon /\ n \in 1 .. Horizon
    OBVIOUS
  <2>2. Linked(b, level, rows, n + 1)
    BY <2>1
  <2>3. rest[n] = rows[n + 1] /\ Before(rest, rows[1].soc, n) = Before(rows, level, n + 1)
    BY <1>1, <1>6, <2>1
  <2> QED
    BY <2>2, <2>3 DEF Linked
<1>8. next \in Extended(b, rows[1].soc, rest)
  <2>1. Before(rest, rows[1].soc, Horizon) = Before(rows, level, Horizon + 1)
    BY <1>1, <1>6
  <2>2. Before(rows, level, Horizon + 1) = b.terminal
    BY <1>1 DEF Before
  <2>3. next = Row(b, Before(rest, rows[1].soc, Len(rest) + 1), 0, 0)
    BY <1>1, <2>1, <2>2 DEF next, Idle
  <2>4. <<0, 0>>[1] = 0 /\ <<0, 0>>[2] = 0
    OBVIOUS
  <2>5. \E m \in Moves(b) :
          next = Row(b, Before(rest, rows[1].soc, Len(rest) + 1), m[1], m[2])
    BY <1>4, <2>3, <2>4
  <2> QED
    BY <1>2, <1>3, <2>5 DEF Extended
<1> DEFINE more == Append(rest, next)
<1>9. /\ more \in Seq(Rows(b)) /\ Len(more) = Horizon /\ more[Horizon] = next
  BY <1>1, <1>5
<1>10. /\ \A n \in 1 .. Horizon - 1 : Linked(b, rows[1].soc, more, n)
       /\ Linked(b, rows[1].soc, more, Horizon)
  <2>1. /\ \A n \in 1 .. Len(rest) :
             Linked(b, rows[1].soc, more, n) <=> Linked(b, rows[1].soc, rest, n)
        /\ Linked(b, rows[1].soc, more, Len(rest) + 1)
             <=> next \in Extended(b, rows[1].soc, rest)
    BY <1>1, <1>5, LinkedAppend
  <2> HIDE DEF more
  <2>2. Len(rest) + 1 = Horizon
    BY <1>1
  <2> QED
    BY <1>1, <1>7, <1>8, <2>1, <2>2
<1> HIDE DEF more
<1>11. \A n \in 1 .. Horizon : n \in 1 .. Horizon - 1 \/ n = Horizon
  OBVIOUS
<1>12. more \in Chains(b, rows[1].soc, Horizon)
  BY <1>9, <1>10, <1>11 DEF Chains
<1>13. more = Shifted(b, rows)
  BY DEF more, Shifted, rest, next
<1> QED
  BY <1>2, <1>5, <1>9, <1>12, <1>13 DEF next

LEMMA ShiftedThroughput ==
  ASSUME NEW b, ValidBattery(b), b.keep = 100, NEW rows \in Seq(Rows(b)),
         Len(rows) = Horizon, Idle(b) \in Rows(b), NEW first \in Int, NEW day
  PROVE  Throughput(rows, first, day) =
           Moved(rows, first, day, 1) + Throughput(Shifted(b, rows), first + 1, day)
<1> USE HorizonAssumption
<1> DEFINE rest == Tail(rows)
<1>1. /\ rows # << >> /\ rest \in Seq(Rows(b)) /\ Len(rest) + 1 = Horizon
      /\ Append(rest, Idle(b)) \in Seq(Rows(b))
      /\ Append(rest, Idle(b))[Horizon] = Idle(b)
  OBVIOUS
<1>2. Counted(rows) /\ Counted(Append(rest, Idle(b))) /\ Counted(rest)
  <2> HIDE DEF rest
  <2> QED
    BY <1>1, CountedRows
<1>3. Throughput(rows, first, day) =
        Moved(rows, first, day, 1) + Throughput(rest, first + 1, day)
  BY <1>1, <1>2, ThroughputTail
<1> HIDE DEF rest
<1>4. Throughput(Append(rest, Idle(b)), first + 1, day) =
        Throughput(rest, first + 1, day)
          + Moved(Append(rest, Idle(b)), first + 1, day, Len(rest) + 1)
  BY <1>1, <1>2, ThroughputAppend
<1>5. Moved(Append(rest, Idle(b)), first + 1, day, Len(rest) + 1) = 0
  BY <1>1, IdleRow DEF Moved
<1>6. Throughput(rest, first + 1, day) \in Nat
  BY <1>1, <1>2, ThroughputGrows
<1>7. Throughput(Append(rest, Idle(b)), first + 1, day) = Throughput(rest, first + 1, day)
  BY <1>4, <1>5, <1>6
<1> QED
  BY <1>3, <1>7 DEF Shifted, rest

LEMMA FeasibleNext ==
  ASSUME DispatchInv, battery.keep = 100, Optimize, origin + 1 < Origins
  PROVE  Feasible(battery, soc', used', start + origin') # {}
<1> USE HorizonAssumption
<1>1. TypeOK /\ Carried /\ AppliedIsPhysical /\ ValidBattery(battery)
  BY BatteryOK DEF DispatchInv
<1>2. PICK rows \in Feasible(battery, soc, used, start + origin) :
        /\ Apply(rows[1])
        /\ used' = [used EXCEPT ![Day(start + origin + 1)] =
                      @ + rows[1].charge + rows[1].discharge]
        /\ rows[1] \in Rows(battery)
        /\ rows[1].charge \in Nat /\ rows[1].discharge \in Nat
  BY <1>1, OptimizeRow
<1> DEFINE first == start + origin
<1> DEFINE more == Shifted(battery, rows)
<1>3. Promised(battery, soc, used, first, rows)
  BY <1>1, <1>2, FeasibleRows
<1>4. /\ first \in Nat /\ start + origin' = first + 1 /\ soc' = rows[1].soc
      /\ first + 1 <= StepsPerDay + Origins /\ strategy = "optimized"
      /\ used \in [Days -> Nat]
  BY <1>1, <1>2 DEF TypeOK, Apply, Optimize
<1>5. /\ rows \in Seq(Rows(battery)) /\ Len(rows) = Horizon
      /\ \A n \in 1 .. Horizon : Linked(battery, soc, rows, n)
      /\ rows[Horizon].soc = battery.terminal
  BY <1>3 DEF Promised
<1>6. /\ Idle(battery) \in Rows(battery)
      /\ more \in Chains(battery, rows[1].soc, Horizon)
      /\ more[Horizon].soc = battery.terminal
  BY <1>1, <1>5, ShiftedRows
<1>7. more \in Schedules(battery, soc')
  BY <1>1, <1>4, <1>6, SchedulesAreChains
<1>8. \A d \in Days : used'[d] = used[d] + Moved(rows, first, d, 1)
  BY <1>2, <1>4, UsedAfter DEF Moved
<1>9. \A d : Throughput(rows, first, d) =
               Moved(rows, first, d, 1) + Throughput(more, first + 1, d)
  BY <1>1, <1>4, <1>5, <1>6, ShiftedThroughput
<1> HIDE DEF first, more
<1>10. ASSUME NEW n \in 1 .. Horizon
       PROVE  Throughput(more, first + 1, Day(first + 1 + n))
                <= Remaining(battery, used', Day(first + 1 + n))
  <2> DEFINE d == Day(first + 1 + n)
  <2>1. d \in Days
    <3>1. first + 1 + n \in Nat /\ first + 1 + n <= StepsPerDay + Origins + Horizon
      BY <1>4
    <3> QED
      BY <3>1, DaysCover
  <2> HIDE DEF d
  <2>2. used[d] \in Nat /\ battery.budget \in Nat
    BY <1>1, <1>4, <2>1, BatteryNumbers
  <2>3. /\ Moved(rows, first, d, 1) \in Nat /\ Throughput(more, first + 1, d) \in Nat
        /\ Throughput(rows, first, d) \in Nat
    <3>1. Counted(rows) /\ 1 \in 1 .. Len(rows)
      BY <1>1, <1>5, CountedRows
    <3>2. more \in Seq(Rows(battery)) /\ Len(more) = Horizon
      BY <1>6 DEF Chains
    <3>3. Counted(more)
      BY <1>1, <3>2, CountedRows
    <3> QED
      BY <1>5, <3>1, <3>2, <3>3, MovedNat, ThroughputGrows
  <2>4. Throughput(rows, first, d) <= battery.budget - used[d]
    <3>1. CASE \E m \in 1 .. Horizon : Day(first + m) = d
      BY <1>3, <3>1 DEF Promised
    <3>2. CASE \A m \in 1 .. Horizon : Day(first + m) # d
      <4>1. Throughput(rows, first, d) = 0
        BY <1>5, <3>2, ThroughputOfNothing
      <4>2. used[d] = Throughput(applied["optimized"], start, d)
        BY <1>1, <1>4, <2>1 DEF Carried
      <4>3. Throughput(applied["optimized"], start, d) <= battery.budget
        BY <1>1, <2>1 DEF AppliedIsPhysical, IsPhysical
      <4> QED
        BY <2>2, <4>1, <4>2, <4>3
    <3> QED
      BY <3>1, <3>2
  <2>5. used'[d] = used[d] + Moved(rows, first, d, 1)
    BY <1>8, <2>1
  <2>6. Throughput(rows, first, d) = Moved(rows, first, d, 1) + Throughput(more, first + 1, d)
    BY <1>9
  <2>7. Throughput(more, first + 1, d) <= battery.budget - used'[d]
    BY <2>2, <2>3, <2>4, <2>5, <2>6
  <2> QED
    BY <2>7 DEF Remaining, d
<1>11. more \in Feasible(battery, soc', used', first + 1)
  BY <1>6, <1>7, <1>10 DEF Feasible
<1> QED
  BY <1>4, <1>11

(* Without self-discharge a feasible solve is followed by feasible ones to   *)
(* the end of the range, for every battery, horizon and choice of schedules: *)
(* the rest of the schedule just applied, and then waiting at the terminal   *)
(* target, is always among what the next solve may return                    *)
(* (rolling_horizon_simulation, simulation.py:172-210).                      *)
THEOREM StaysFeasibleCorrect == Spec => []StaysFeasible
<1>1. Init => StaysFeasible
  BY DEF Init, StaysFeasible
<1>2. DispatchInv /\ StaysFeasible /\ [Next]_vars => StaysFeasible'
  <2> SUFFICES ASSUME DispatchInv, StaysFeasible, [Next]_vars,
                      battery'.keep = 100, strategy' = "optimized",
                      origin' \in 1 .. Origins - 1
               PROVE  Feasible(battery', soc', used', start' + origin') # {}
    BY DEF StaysFeasible
  <2>1. CASE Optimize
    <3>1. UNCHANGED <<battery, start>> /\ origin' = origin + 1
      BY <2>1 DEF Optimize, Apply
    <3>2. origin + 1 < Origins
      BY <3>1, HorizonAssumption
    <3>3. Feasible(battery, soc', used', start + origin') # {}
      BY <2>1, <3>1, <3>2, FeasibleNext
    <3> QED
      BY <3>1, <3>3
  <2>2. CASE ~Optimize
    <3>1. UNCHANGED vars
      BY <2>2, OptimizedRowsKept DEF DispatchInv
    <3> QED
      BY <3>1 DEF vars, StaysFeasible
  <2> QED
    BY <2>1, <2>2
<1> QED
  BY <1>1, <1>2, DispatchInvariant, PTL DEF Spec
=============================================================================
