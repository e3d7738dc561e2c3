-------------------------- MODULE ForecastingProofs --------------------------
(***************************************************************************)
(* Theorems about Forecasting for any trainers, targets, horizons, windows, *)
(* tables and bounds.  First what the window search, the features and the   *)
(* baselines promise of any frame, then the invariants: TrainingInv follows *)
(* a version from the baseline it is compared with to the alias it is       *)
(* given, LearnInv a training from its frame to its windows; RowsInv says   *)
(* that a row and the prediction it comes from name one version, ServingInv *)
(* what every row says of its hour; DispatchInv says which part of a        *)
(* dispatch's lineage has been checked, RequestInv which series a reader    *)
(* may still find, and CacheInv since when each summary that is held        *)
(* somewhere was true.                                                      *)
(***************************************************************************)
EXTENDS Forecasting, ReadingsTheorems

LEMMA SegmentsAreIntervals ==
  ASSUME NEW hours, HourSet(hours), NEW segment \in Segments(hours)
  PROVE  \E a, b \in Int : a <= b /\ segment = a .. b /\ segment \subseteq hours
<1>1. PICK h \in hours : segment = SegmentOf(hours, h)
  BY DEF Segments
<1>2. h \in Int /\ h \in segment /\ segment \subseteq hours
  BY <1>1 DEF HourSet, SegmentOf, Least, Most
<1>3. HourSet(segment)
  BY <1>2, FS_Subset DEF HourSet
<1> DEFINE a == Min(segment)
           b == Max(segment)
<1>4. /\ a \in segment /\ b \in segment /\ a \in Int /\ b \in Int /\ a <= b
      /\ segment \subseteq a .. b
  <2>1. a \in segment /\ b \in segment
        /\ \A x \in segment : a <= x /\ x <= b
    BY <1>3, Extremes
  <2> HIDE DEF a, b
  <2> QED BY <1>3, <2>1 DEF HourSet
<1>5. a .. h \subseteq hours /\ h .. b \subseteq hours /\ a <= h /\ h <= b
  <2> HIDE DEF a, b
  <2> QED BY <1>1, <1>2, <1>4 DEF SegmentOf, Least, Most
<1>6. a .. b \subseteq segment
  <2> HIDE DEF a, b
  <2> SUFFICES ASSUME NEW g \in a .. b PROVE g \in segment
    OBVIOUS
  <2>1. g \in Int /\ Least(g, h) .. Most(g, h) \subseteq hours
    BY <1>2, <1>4, <1>5 DEF Least, Most
  <2> QED BY <1>1, <1>2, <1>4, <2>1 DEF SegmentOf, Least, Most
<1> QED BY <1>2, <1>4, <1>6

Specifications == {GlobalFeatures, TargetFeatures}

(* The history a specification requires is the distance of one of its        *)
(* features; no other is farther.                                            *)
LEMMA RequiredReaches ==
  ASSUME NEW spec \in Specifications
  PROVE  /\ Required(spec) \in Nat /\ Week \in Nat /\ Week <= Required(spec)
         /\ Required(spec) \in spec.lags \cup spec.rolling
         /\ spec.lags \subseteq 1 .. Required(spec)
         /\ spec.rolling \subseteq 2 .. Required(spec)
<1>0. Week \in Nat \ {0} /\ Day \in Nat \ {0}
  BY WindowsAssumption
<1>1. /\ IsFiniteSet(spec.lags) /\ spec.lags \subseteq Nat \ {0} /\ Week \in spec.lags
      /\ IsFiniteSet(spec.rolling) /\ spec.rolling \subseteq Nat \ {0, 1}
  <2>1. CASE spec = GlobalFeatures
    BY <2>1, WindowsAssumption DEF GlobalFeatures
  <2>2. CASE spec = TargetFeatures
    <3>1. spec.lags = {1, Day, Week} /\ spec.rolling = TargetRolling
      BY <2>2 DEF TargetFeatures
    <3>2. IsFiniteSet({1, Day, Week})
      <4>1. IsFiniteSet({1}) /\ IsFiniteSet({Day}) /\ IsFiniteSet({Week})
        BY FS_Singleton
      <4>2. IsFiniteSet({1} \cup {Day})
        BY <4>1, FS_Union
      <4>3. {1, Day, Week} = ({1} \cup {Day}) \cup {Week}
        OBVIOUS
      <4> QED BY <4>1, <4>2, <4>3, FS_Union
    <3> QED BY <1>0, <3>1, <3>2, WindowsAssumption
  <2> QED BY <2>1, <2>2 DEF Specifications
<1> DEFINE S == spec.lags \cup spec.rolling
<1>2. HourSet(S)
  <2>1. IsFiniteSet(S)
    BY <1>1, FS_Union
  <2>2. S \subseteq Int /\ S # {}
    BY <1>1
  <2> QED BY <2>1, <2>2 DEF HourSet
<1>3. Max(S) \in S /\ \A x \in S : x <= Max(S)
  BY <1>2, Extremes
<1>4. Required(spec) = Max(S)
  BY DEF Required
<1> QED BY <1>0, <1>1, <1>3, <1>4

LEMMA NeedKnown ==
  ASSUME NEW name
  PROVE  SpecificationOf(name) \in Specifications /\ NeedOf(name) \in Nat
<1>1. SpecificationOf(name) \in Specifications
  BY DEF SpecificationOf, Specifications
<1> QED BY <1>1, RequiredReaches DEF NeedOf

(* A row of training has the features that prediction computes for its hour, *)
(* from a history without a gap.  What its features read has a value; where  *)
(* rows without one were dropped first, all of that history has.             *)
LEMMA RowsServable ==
  ASSUME NEW spec \in Specifications,
         NEW series, DOMAIN series \subseteq Int, IsFiniteSet(DOMAIN series),
         NEW row \in TrainingRows(spec, series)
  PROVE  /\ Context(spec, row.hour) \subseteq DOMAIN series
         /\ row.x = FutureRow(spec, series, row.hour)
         /\ spec.rows = "observed" => Servable(spec, series, row.hour)
         /\ \A h \in Context(spec, row.hour) : series[h] = NaN => row.hour - h \notin Read(spec)
<1> DEFINE s == Kept(spec, series)
<1>1. PICK segment \in Segments(DOMAIN s) : \E i \in DOMAIN Hourly(segment) :
        /\ IsComplete(spec, Features(spec, s, Hourly(segment), i))
        /\ row = [hour |-> Hourly(segment)[i], x |-> Features(spec, s, Hourly(segment), i)]
  BY DEF TrainingRows
<1>2. PICK i \in DOMAIN Hourly(segment) :
        /\ IsComplete(spec, Features(spec, s, Hourly(segment), i))
        /\ row = [hour |-> Hourly(segment)[i], x |-> Features(spec, s, Hourly(segment), i)]
  BY <1>1
<1>3. DOMAIN s \subseteq DOMAIN series /\ \A h \in DOMAIN s : s[h] = series[h]
  BY DEF Kept, Present
<1>4. DOMAIN s # {}
  BY <1>1 DEF Segments
<1>5. HourSet(DOMAIN s)
  BY <1>3, <1>4, FS_Subset DEF HourSet
<1>6. PICK a, b \in Int : a <= b /\ segment = a .. b /\ segment \subseteq DOMAIN s
  BY <1>1, <1>5, SegmentsAreIntervals
<1> DEFINE hours == Hourly(segment)
           t == a + i - 1
           far == Required(spec)
           x == Features(spec, s, hours, i)
<1>7. hours = [n \in 1 .. b - a + 1 |-> a + n - 1]
  BY <1>6, IntervalInOrder
<1>8. i \in 1 .. b - a + 1 /\ \A n \in 1 .. b - a + 1 : hours[n] = a + n - 1
  BY <1>2, <1>7
<1>9. t \in a .. b /\ row.hour = t /\ row.x = x
  BY <1>2, <1>6, <1>8
<1>10. /\ \A k \in spec.lags : Shifted(s, hours, i, k) # NaN
       /\ \A w \in spec.rolling, j \in Nat : j \in 1 .. w => Shifted(s, hours, i, j) # NaN
  BY <1>2 DEF IsComplete, Features
<1>11. /\ far \in Nat /\ far \in spec.lags \cup spec.rolling
       /\ spec.lags \subseteq 1 .. far /\ spec.rolling \subseteq 2 .. far
  BY RequiredReaches
<1> HIDE DEF s, hours, t, far, x
<1>12. i > far
  <2>1. Shifted(s, hours, i, far) # NaN
    BY <1>10, <1>11
  <2> QED BY <1>8, <1>11, <2>1 DEF Shifted
<1>13. \A k \in 1 .. far : /\ t - k \in a .. b /\ t - k \in DOMAIN s
                           /\ Shifted(s, hours, i, k) = series[t - k]
  <2> SUFFICES ASSUME NEW k \in 1 .. far
               PROVE  /\ t - k \in a .. b /\ t - k \in DOMAIN s
                      /\ Shifted(s, hours, i, k) = series[t - k]
    OBVIOUS
  <2>1. i - k \in 1 .. b - a + 1 /\ i > k
    BY <1>8, <1>11, <1>12
  <2>2. hours[i - k] = a + (i - k) - 1
    BY <1>8, <2>1
  <2>3. a + (i - k) - 1 = t - k /\ t - k \in a .. b
    BY <1>6, <1>8, <1>11, <2>1 DEF t
  <2>4. t - k \in DOMAIN s
    BY <1>6, <2>3
  <2> QED BY <1>3, <2>1, <2>2, <2>3, <2>4 DEF Shifted
<1>14. \A h \in Context(spec, t) : t - h \in 1 .. far /\ t - (t - h) = h
  BY <1>9, <1>11 DEF Context, far
<1>15. Context(spec, t) \subseteq DOMAIN s
  BY <1>13, <1>14
<1>16. x = FutureRow(spec, series, t)
  <2>1. \A k \in spec.lags : Shifted(s, hours, i, k) = series[t - k]
    BY <1>11, <1>13
  <2>2. \A w \in spec.rolling, j \in Nat : j \in 1 .. w => Shifted(s, hours, i, j) = series[t - j]
    BY <1>11, <1>13
  <2>3. [k \in spec.lags |-> Shifted(s, hours, i, k)] = [k \in spec.lags |-> series[t - k]]
    BY <2>1
  <2>4. \A w \in spec.rolling : [j \in 1 .. w |-> Shifted(s, hours, i, j)] = [j \in 1 .. w |-> series[t - j]]
    BY <1>11, <2>2
  <2>5. [w \in spec.rolling |-> [j \in 1 .. w |-> Shifted(s, hours, i, j)]]
          = [w \in spec.rolling |-> [j \in 1 .. w |-> series[t - j]]]
    BY <2>4
  <2> QED BY <2>3, <2>5 DEF Features, FutureRow, x
<1>17. spec.rows = "observed" => Servable(spec, series, t)
  BY <1>15 DEF Servable, Kept, s
<1>18. ASSUME NEW h \in Context(spec, t), series[h] = NaN
       PROVE  t - h \notin Read(spec)
  <2>1. Shifted(s, hours, i, t - h) = NaN
    BY <1>13, <1>14, <1>18
  <2>2. t - h \in Nat
    BY <1>11, <1>14
  <2> QED BY <1>10, <2>1, <2>2 DEF Read
<1> QED BY <1>3, <1>9, <1>15, <1>16, <1>17, <1>18

-----------------------------------------------------------------------------
FrameOK(frame) ==
  /\ IsFiniteSet(DOMAIN frame)
  /\ \A r \in DOMAIN frame : DOMAIN frame[r] \subseteq Int /\ IsFiniteSet(DOMAIN frame[r])

(* The first and the last hour that all regions have in their range.         *)
FirstOrigin(need, frame) == Max({Min(DOMAIN frame[r]) : r \in DOMAIN frame}) + need - 1
LastOrigin(frame)        == Min({Max(DOMAIN frame[r]) : r \in DOMAIN frame}) - Horizon

LEMMA RangeOfWindows ==
  ASSUME NEW need \in Nat, NEW frame, FrameOK(frame), HasData(frame)
  PROVE  FirstOrigin(need, frame) \in Int /\ LastOrigin(frame) \in Int
<1>1. \A r \in DOMAIN frame : HourSet(DOMAIN frame[r])
  BY DEF FrameOK, HasData, HourSet
<1> DEFINE lows  == {Min(DOMAIN frame[r]) : r \in DOMAIN frame}
           highs == {Max(DOMAIN frame[r]) : r \in DOMAIN frame}
<1>2. \A r \in DOMAIN frame : Min(DOMAIN frame[r]) \in Int /\ Max(DOMAIN frame[r]) \in Int
  BY <1>1, Extremes DEF HourSet
<1>3. HourSet(lows)
  <2> DEFINE f == [r \in DOMAIN frame |-> Min(DOMAIN frame[r])]
  <2>1. f \in [DOMAIN frame -> lows] /\ \A y \in lows : \E r \in DOMAIN frame : f[r] = y
    OBVIOUS
  <2>2. IsFiniteSet(lows)
    <3> HIDE DEF f, lows
    <3> QED BY <2>1, FiniteImage DEF FrameOK
  <2> QED BY <1>2, <2>2 DEF HourSet, HasData
<1>4. HourSet(highs)
  <2> DEFINE f == [r \in DOMAIN frame |-> Max(DOMAIN frame[r])]
  <2>1. f \in [DOMAIN frame -> highs] /\ \A y \in highs : \E r \in DOMAIN frame : f[r] = y
    OBVIOUS
  <2>2. IsFiniteSet(highs)
    <3> HIDE DEF f, highs
    <3> QED BY <2>1, FiniteImage DEF FrameOK
  <2> QED BY <1>2, <2>2 DEF HourSet, HasData
<1>5. Max(lows) \in Int /\ Min(highs) \in Int
  <2> HIDE DEF lows, highs
  <2> QED BY <1>3, <1>4, Extremes DEF HourSet
<1> QED BY <1>5, WindowsAssumption DEF FirstOrigin, LastOrigin

(* The search for windows, from c backward for n more of them.               *)
Found(need, frame, first, f, c, n) ==
  IF c < first \/ n = 0 THEN {}
  ELSE IF Accepted(need, frame, c) THEN {c} \cup f[c - Step][n - 1] ELSE f[c - 1][n]

Searched(need, frame, first, top, windows, f) ==
  f = [c \in first - Step .. top |-> [n \in 0 .. windows |-> Found(need, frame, first, f, c, n)]]

LEMMA SearchExists ==
  ASSUME NEW need \in Nat, NEW frame, NEW first \in Int, NEW top \in Int, NEW windows \in Nat, first - 1 <= top
  PROVE  \E f : Searched(need, frame, first, top, windows, f)
<1>0. Step \in Nat /\ Step >= 1
  BY WindowsAssumption
<1> DEFINE S == {k \in Nat : \E f : Searched(need, frame, first, first - 1 + k, windows, f)}
<1>1. 0 \in S
  <2> DEFINE f == [c \in first - Step .. first - 1 + 0 |-> [n \in 0 .. windows |-> {}]]
  <2>1. \A c \in first - Step .. first - 1 + 0 :
          [n \in 0 .. windows |-> Found(need, frame, first, f, c, n)] = [n \in 0 .. windows |-> {}]
    BY <1>0 DEF Found
  <2>2. f = [c \in first - Step .. first - 1 + 0 |-> [n \in 0 .. windows |-> Found(need, frame, first, f, c, n)]]
    BY <2>1
  <2>3. Searched(need, frame, first, first - 1 + 0, windows, f)
    BY <2>2 DEF Searched
  <2> QED BY <2>3
<1>2. ASSUME NEW k \in Nat, k \in S PROVE k + 1 \in S
  <2>1. PICK f : Searched(need, frame, first, first - 1 + k, windows, f)
    BY <1>2
  <2> DEFINE new == first + k
             old == first - Step .. first - 1 + k
             all == first - Step .. first - 1 + (k + 1)
             g == [c \in all |->
                     IF c = new THEN [n \in 0 .. windows |-> Found(need, frame, first, f, c, n)] ELSE f[c]]
  <2>2. all = old \cup {new} /\ new \notin old /\ new \in Int
    BY <1>0
  <2>3. \A c \in old : g[c] = f[c] /\ f[c] = [n \in 0 .. windows |-> Found(need, frame, first, f, c, n)]
    BY <2>1, <2>2 DEF Searched
  <2>4. ASSUME NEW c \in all, NEW n \in 0 .. windows
        PROVE  Found(need, frame, first, g, c, n) = Found(need, frame, first, f, c, n)
    <3>1. CASE c < first \/ n = 0
      BY <3>1 DEF Found
    <3>2. CASE ~(c < first \/ n = 0)
      <4>1. c - Step \in old /\ c - 1 \in old
        BY <1>0, <3>2
      <4>2. g[c - Step] = f[c - Step] /\ g[c - 1] = f[c - 1]
        BY <2>3, <4>1
      <4> HIDE DEF g
      <4> QED BY <4>2 DEF Found
    <3> QED BY <3>1, <3>2
  <2>5. ASSUME NEW c \in all
        PROVE  g[c] = [n \in 0 .. windows |-> Found(need, frame, first, g, c, n)]
    <3>1. [n \in 0 .. windows |-> Found(need, frame, first, g, c, n)]
            = [n \in 0 .. windows |-> Found(need, frame, first, f, c, n)]
      BY <2>4
    <3>2. g[c] = [n \in 0 .. windows |-> Found(need, frame, first, f, c, n)]
      <4>1. CASE c = new
        BY <4>1
      <4>2. CASE c # new
        BY <2>2, <2>3, <4>2
      <4> QED BY <4>1, <4>2
    <3> QED BY <3>1, <3>2
  <2>6. g = [c \in all |-> g[c]]
    OBVIOUS
  <2>7. g = [c \in all |-> [n \in 0 .. windows |-> Found(need, frame, first, g, c, n)]]
    <3> HIDE DEF g, all
    <3> QED BY <2>5, <2>6
  <2>8. Searched(need, frame, first, first - 1 + (k + 1), windows, g)
    <3> HIDE DEF g
    <3> QED BY <2>7 DEF Searched
  <2>9. \E h : Searched(need, frame, first, first - 1 + (k + 1), windows, h)
    <3> HIDE DEF g
    <3> QED BY <2>8
  <2> QED BY <2>9
<1>3. \A k \in Nat : k \in S
  <2> HIDE DEF S
  <2> QED BY <1>1, <1>2, InductionOverNat
<1>4. top - (first - 1) \in Nat /\ first - 1 + (top - (first - 1)) = top
  OBVIOUS
<1>5. top - (first - 1) \in S
  BY <1>3, <1>4
<1> QED BY <1>4, <1>5

LEMMA SearchFindsAccepted ==
  ASSUME NEW need \in Nat, NEW frame, NEW first \in Int, NEW top \in Int, NEW windows \in Nat, NEW f,
         Searched(need, frame, first, top, windows, f)
  PROVE  \A c \in first - Step .. top, n \in 0 .. windows :
           \A x \in f[c][n] : x \in first .. top /\ Accepted(need, frame, x)
<1>0. Step \in Nat /\ Step >= 1
  BY WindowsAssumption
<1>a. ASSUME NEW c \in first - Step .. top, NEW n \in 0 .. windows
      PROVE  f[c][n] = Found(need, frame, first, f, c, n)
  <2>1. f[c] = [m \in 0 .. windows |-> Found(need, frame, first, f, c, m)]
    BY Zenon DEF Searched
  <2> QED BY <2>1, Zenon
<1> DEFINE Right(c) == \A n \in 0 .. windows : \A x \in f[c][n] : x \in first .. top /\ Accepted(need, frame, x)
           S == {k \in Nat : \A c \in first - Step .. top : c <= first - 1 + k => Right(c)}
<1>b. \A c \in first - Step .. top : c < first => Right(c)
  BY <1>a DEF Found
<1>1. 0 \in S
  <2> SUFFICES ASSUME NEW c \in first - Step .. top, c <= first - 1 + 0 PROVE Right(c)
    OBVIOUS
  <2>1. c < first
    BY <1>0
  <2> HIDE DEF Right
  <2> QED BY <1>b, <2>1
<1>2. ASSUME NEW k \in Nat, k \in S PROVE k + 1 \in S
  <2>1. ASSUME NEW c \in first - Step .. top, c = first + k PROVE Right(c)
    <3> SUFFICES ASSUME NEW n \in 0 .. windows, NEW x \in f[c][n]
                 PROVE  x \in first .. top /\ Accepted(need, frame, x)
      OBVIOUS
    <3>1. f[c][n] = Found(need, frame, first, f, c, n)
      BY <1>a
    <3>2. n # 0
      BY <3>1 DEF Found
    <3>3. c - Step \in first - Step .. top /\ c - 1 \in first - Step .. top /\ n - 1 \in 0 .. windows
          /\ c - Step <= first - 1 + k /\ c - 1 <= first - 1 + k
      BY <1>0, <2>1, <3>2
    <3>4. Right(c - Step) /\ Right(c - 1)
      BY <1>2, <3>3
    <3>5. CASE Accepted(need, frame, c)
      <4>1. x = c \/ x \in f[c - Step][n - 1]
        BY <2>1, <3>1, <3>2, <3>5 DEF Found
      <4>2. c \in first .. top
        BY <2>1
      <4> QED BY <3>3, <3>4, <3>5, <4>1, <4>2
    <3>6. CASE ~Accepted(need, frame, c)
      BY <3>1, <3>2, <3>3, <3>4, <3>6 DEF Found
    <3> QED BY <3>5, <3>6
  <2> HIDE DEF Right
  <2> SUFFICES ASSUME NEW c \in first - Step .. top, c <= first - 1 + (k + 1) PROVE Right(c)
    OBVIOUS
  <2>2. c <= first - 1 + k \/ c = first + k
    BY <1>0
  <2> QED BY <1>2, <2>1, <2>2
<1>3. \A k \in Nat : k \in S
  <2> HIDE DEF S
  <2> QED BY <1>1, <1>2, InductionOverNat
<1> SUFFICES ASSUME NEW c \in first - Step .. top PROVE Right(c)
  OBVIOUS
<1>4. CASE c < first
  BY <1>1, <1>4
<1>5. CASE c >= first
  <2>1. c - first + 1 \in Nat /\ c <= first - 1 + (c - first + 1)
    BY <1>5
  <2>2. c - first + 1 \in S
    BY <1>3, <2>1
  <2> QED BY <2>1, <2>2
<1> QED BY <1>4, <1>5

(* Every window selected is one the search accepted.                         *)
LEMMA SelectedAccepted ==
  ASSUME NEW need \in Nat, NEW frame, FrameOK(frame), HasData(frame), NEW windows \in Nat
  PROVE  \A o \in Selected(need, frame, windows) : o \in Int /\ Accepted(need, frame, o)
<1> DEFINE first == FirstOrigin(need, frame)
           top   == Most(first - 1, LastOrigin(frame))
<1>1. first \in Int /\ top \in Int /\ first - 1 <= top
  BY RangeOfWindows DEF Most
<1> DEFINE F == CHOOSE f : f = [c \in first - Step .. top |->
                                  [n \in 0 .. windows |-> Found(need, frame, first, f, c, n)]]
<1>2. Searched(need, frame, first, top, windows, F)
  <2> HIDE DEF first, top
  <2>1. \E f : Searched(need, frame, first, top, windows, f)
    BY <1>1, SearchExists
  <2> QED BY <2>1 DEF Searched
<1>3. Selected(need, frame, windows) = F[top][windows]
  BY DEF Selected, FirstOrigin, LastOrigin, Found
<1>5. top \in first - Step .. top /\ windows \in 0 .. windows
  <2>1. Step \in Nat /\ Step >= 1
    BY WindowsAssumption
  <2> HIDE DEF first, top
  <2> QED BY <1>1, <2>1
<1> HIDE DEF F, first, top
<1> QED BY <1>1, <1>2, <1>3, <1>5, SearchFindsAccepted

-----------------------------------------------------------------------------
LEMMA SelectedSet ==
  ASSUME NEW need \in Nat, NEW frame, FrameOK(frame), HasData(frame), NEW windows \in Nat,
         NEW origins, origins = Selected(need, frame, windows)
  PROVE  /\ \A r \in DOMAIN frame : Measured(origins) \subseteq DOMAIN frame[r]
         /\ origins # {} => HourSet(Measured(origins))
<1>1. \A o \in origins : o \in Int /\ Accepted(need, frame, o)
  BY SelectedAccepted
<1>2. Horizon \in Nat /\ Horizon >= 1
  BY WindowsAssumption
<1>3. \A r \in DOMAIN frame : Measured(origins) \subseteq DOMAIN frame[r]
  BY <1>1 DEF Measured, Accepted
<1>4. PICK r \in DOMAIN frame : TRUE
  BY DEF HasData
<1>5. Measured(origins) \subseteq DOMAIN frame[r] /\ DOMAIN frame[r] \subseteq Int /\ IsFiniteSet(DOMAIN frame[r])
  BY <1>3 DEF FrameOK
<1>6. IsFiniteSet(Measured(origins))
  BY <1>5, FS_Subset
<1>7. ASSUME NEW o \in origins PROVE Measured(origins) # {}
  <2>1. o + 1 \in Validation(o)
    BY <1>1, <1>2 DEF Validation
  <2> QED BY <2>1 DEF Measured
<1> QED BY <1>3, <1>5, <1>6, <1>7 DEF HourSet

(* A frame without what comes after an hour.                                 *)
IsCut(cut, frame, h) ==
  /\ FrameOK(cut) /\ DOMAIN cut = DOMAIN frame
  /\ \A r \in DOMAIN frame :
       /\ cut[r] = Until(frame[r], h)
       /\ DOMAIN cut[r] = {g \in DOMAIN frame[r] : g <= h}
       /\ \A g \in DOMAIN cut[r] : cut[r][g] = frame[r][g]

LEMMA CutOK ==
  ASSUME NEW frame, FrameOK(frame), NEW h
  PROVE  IsCut(Cut(frame, h), frame, h)
<1>1. DOMAIN Cut(frame, h) = DOMAIN frame /\ \A r \in DOMAIN frame : Cut(frame, h)[r] = Until(frame[r], h)
  BY DEF Cut
<1>2. \A r \in DOMAIN frame :
        /\ DOMAIN Until(frame[r], h) = {g \in DOMAIN frame[r] : g <= h}
        /\ \A g \in DOMAIN Until(frame[r], h) : Until(frame[r], h)[g] = frame[r][g]
  BY DEF Until
<1>3. \A r \in DOMAIN frame : IsFiniteSet({g \in DOMAIN frame[r] : g <= h})
  BY FS_Subset DEF FrameOK
<1> QED BY <1>1, <1>2, <1>3 DEF FrameOK, IsCut

(* Tuning windows end before the final ones begin.                           *)
LEMMA TuningBehind ==
  ASSUME NEW need \in Nat, NEW frame, FrameOK(frame), HasData(frame), NEW windows \in Nat, NEW fewer \in Nat,
         NEW origins, origins = Selected(need, frame, windows),
         HasData(TuningFrame(frame, origins)),
         NEW inner, inner = Selected(need, TuningFrame(frame, origins), fewer),
         NEW r \in DOMAIN frame, NEW final \in Measured(origins),
         NEW h \in (DOMAIN TuningFrame(frame, origins)[r]) \cup Measured(inner)
  PROVE  h < final
<1> DEFINE older == TuningFrame(frame, origins)
           cut   == Min(Measured(origins)) - 1
<1>1. origins # {}
  BY DEF Measured
<1>2. HourSet(Measured(origins))
  BY <1>1, SelectedSet
<1>3. Min(Measured(origins)) \in Int /\ final \in Int /\ Min(Measured(origins)) <= final
  BY <1>2, Extremes DEF HourSet
<1>4. FrameOK(older) /\ DOMAIN older = DOMAIN frame
      /\ DOMAIN older[r] = {g \in DOMAIN frame[r] : g <= cut}
  <2>1. IsCut(older, frame, cut)
    BY CutOK DEF TuningFrame
  <2> HIDE DEF older, cut
  <2> QED BY <2>1 DEF IsCut
<1>5. h \in DOMAIN older[r]
  <2> HIDE DEF older
  <2> QED BY <1>4, SelectedSet DEF older
<1>6. h \in DOMAIN frame[r] /\ h <= cut
  <2> HIDE DEF older, cut
  <2> QED BY <1>4, <1>5
<1>7. h \in Int
  BY <1>6 DEF FrameOK
<1> QED BY <1>3, <1>6, <1>7

(* Division with a divisor that is no literal.                               *)
LEMMA Divided ==
  ASSUME NEW x \in Int, NEW lag \in Int, lag > 0
  PROVE  x % lag \in 0 .. lag - 1 /\ x \div lag \in Int /\ x = lag * (x \div lag) + (x % lag)
<1>1. x = lag * (x \div lag) + (x % lag)
  OBVIOUS
<1>2. x % lag \in 0 .. lag - 1 /\ x \div lag \in Int
  OBVIOUS
<1> QED BY <1>1, <1>2

(* No multiple of a number but 0 is smaller.                                 *)
LEMMA OnlyZero ==
  ASSUME NEW k \in Int, NEW lag \in Nat, lag >= 1, NEW r \in Int, -lag < r, r < lag, lag * k = r
  PROVE  k = 0
<1>1. CASE k >= 1
  <2>1. lag * k >= lag
    BY <1>1
  <2> QED BY <2>1
<1>2. CASE k <= -1
  <2>1. lag * k <= -lag
    BY <1>2
  <2> QED BY <2>1
<1> QED BY <1>1, <1>2

(* A number's place in a period is the same a period later.                  *)
LEMMA Periodic ==
  ASSUME NEW x \in Int, NEW lag \in Nat, lag >= 1
  PROVE  (x + lag) % lag = x % lag
<1> DEFINE d == x \div lag
           e == (x + lag) \div lag
           r == x % lag
           s == (x + lag) % lag
<1>1. r \in 0 .. lag - 1 /\ d \in Int /\ x = lag * d + r
  BY Divided
<1>2. s \in 0 .. lag - 1 /\ e \in Int /\ x + lag = lag * e + s
  <2>1. x + lag \in Int
    OBVIOUS
  <2> QED BY <2>1, Divided
<1> HIDE DEF d, e, r, s
<1>3. lag * (e - d - 1) = lag * e - lag * d - lag
  BY <1>1, <1>2
<1>4. lag * (e - d - 1) = r - s
  BY <1>1, <1>2, <1>3
<1>5. e - d - 1 = 0
  BY <1>1, <1>2, <1>4, OnlyZero
<1>6. r = s
  BY <1>1, <1>2, <1>4, <1>5
<1> QED BY <1>6 DEF r, s

(* A seasonal forecast repeats one of the last hours.                        *)
LEMMA SourceExists ==
  ASSUME NEW o \in Int, NEW lag \in Nat, lag >= 1, NEW h \in Int, o < h
  PROVE  Source(o, h, lag) \in o - lag + 1 .. o
<1> DEFINE Repeated(k) == \E g \in o - lag + 1 .. o : (o + k - g) % lag = 0
           S == {n \in Nat : \A k \in 0 .. n : Repeated(k)}
<1>1. 0 \in S
  <2>1. o \in o - lag + 1 .. o /\ (o + 0 - o) % lag = 0
    OBVIOUS
  <2>2. Repeated(0)
    BY <2>1
  <2> HIDE DEF Repeated
  <2> QED BY <2>2
<1>2. ASSUME NEW n \in Nat, n \in S PROVE n + 1 \in S
  <2>1. Repeated(n + 1)
    <3>1. CASE n + 1 < lag
      <4>1. o + (n + 1) - lag \in o - lag + 1 .. o
        BY <3>1
      <4>2. (o + (n + 1) - (o + (n + 1) - lag)) % lag = 0
        <5>1. o + (n + 1) - (o + (n + 1) - lag) = lag
          OBVIOUS
        <5>2. lag % lag = 0
          OBVIOUS
        <5> QED BY <5>1, <5>2
      <4> QED BY <4>1, <4>2
    <3>2. CASE n + 1 >= lag
      <4>1. n + 1 - lag \in 0 .. n
        BY <3>2
      <4>2. Repeated(n + 1 - lag)
        <5> HIDE DEF Repeated
        <5> QED BY <1>2, <4>1
      <4>3. PICK g \in o - lag + 1 .. o : (o + (n + 1 - lag) - g) % lag = 0
        BY <4>2
      <4>5. o + (n + 1 - lag) - g \in Int /\ o + (n + 1) - g = (o + (n + 1 - lag) - g) + lag
        BY <4>3
      <4>6. (o + (n + 1) - g) % lag = 0
        BY <4>3, <4>5, Periodic
      <4> QED BY <4>3, <4>6
    <3> QED BY <3>1, <3>2
  <2> HIDE DEF Repeated
  <2>2. \A k \in 0 .. n + 1 : k \in 0 .. n \/ k = n + 1
    OBVIOUS
  <2> QED BY <1>2, <2>1, <2>2
<1>3. \A n \in Nat : n \in S
  <2> HIDE DEF S
  <2> QED BY <1>1, <1>2, InductionOverNat
<1>4. h - o \in Nat /\ o + (h - o) = h /\ h - o \in 0 .. h - o
  OBVIOUS
<1>5. Repeated(h - o)
  <2> HIDE DEF Repeated
  <2> QED BY <1>3, <1>4
<1>6. \E g \in o - lag + 1 .. o : (h - g) % lag = 0
  BY <1>4, <1>5
<1> QED BY <1>6 DEF Source

(* Where the hours of a window are all present, nothing lacks an hour.       *)
LEMMA AcceptedSuffices ==
  ASSUME NEW spec \in Specifications,
         NEW frame, FrameOK(frame), DOMAIN frame # {}, NEW o \in Int,
         \A r \in DOMAIN frame : History(Required(spec), o) \subseteq DOMAIN frame[r],
         \A r \in DOMAIN frame : Absent(frame[r]) = {}
  PROVE  /\ Forecastable(spec, Cut(frame, o))
         /\ \A r \in DOMAIN frame, name \in Baselines :
              Sources(name, Until(frame[r], o)) \subseteq DOMAIN Until(frame[r], o)
<1> DEFINE cut == Cut(frame, o)
           far == Required(spec)
<1>0. Week \in Nat /\ Day \in Nat /\ far \in Nat /\ Week <= far /\ 1 <= Day /\ Day < Week
      /\ Horizon \in Nat
  BY RequiredReaches, WindowsAssumption
<1>a. IsCut(cut, frame, o)
  BY CutOK
<1> HIDE DEF cut, far
<1>1. DOMAIN cut = DOMAIN frame
  BY <1>a DEF IsCut
<1>2. ASSUME NEW r \in DOMAIN frame
      PROVE  /\ cut[r] = Until(frame[r], o)
             /\ DOMAIN Present(cut[r]) = DOMAIN cut[r]
             /\ DOMAIN Kept(spec, cut[r]) = DOMAIN cut[r]
             /\ o - far + 1 .. o \subseteq DOMAIN cut[r]
             /\ DOMAIN cut[r] \subseteq Int
             /\ \A g \in DOMAIN cut[r] : g <= o
             /\ o \in DOMAIN cut[r]
             /\ Max(DOMAIN cut[r]) = o
  <2>1. /\ cut[r] = Until(frame[r], o)
        /\ DOMAIN cut[r] = {g \in DOMAIN frame[r] : g <= o}
        /\ \A g \in DOMAIN cut[r] : cut[r][g] = frame[r][g]
    BY <1>a DEF IsCut
  <2>2. DOMAIN frame[r] \subseteq Int /\ o - far + 1 .. o \subseteq DOMAIN frame[r]
    BY <1>0 DEF FrameOK, History, far
  <2>3. DOMAIN Present(cut[r]) = DOMAIN cut[r] /\ DOMAIN Kept(spec, cut[r]) = DOMAIN cut[r]
    BY <2>1 DEF Kept, Present, Absent
  <2>4. o - far + 1 .. o \subseteq DOMAIN cut[r] /\ o \in DOMAIN cut[r] /\ DOMAIN cut[r] \subseteq Int
        /\ \A g \in DOMAIN cut[r] : g <= o
    <3>1. \A g \in o - far + 1 .. o : g \in DOMAIN frame[r] /\ g <= o
      BY <1>0, <2>2
    <3>2. o \in o - far + 1 .. o
      BY <1>0
    <3> QED BY <2>1, <2>2, <3>1, <3>2
  <2>5. Max(DOMAIN cut[r]) = o
    <3>1. HourSet(DOMAIN cut[r])
      BY <2>1, <2>4, FS_Subset DEF FrameOK, HourSet
    <3>2. Max(DOMAIN cut[r]) \in DOMAIN cut[r] /\ o <= Max(DOMAIN cut[r])
      BY <2>4, <3>1, Extremes
    <3> QED BY <2>4, <3>2
  <2> QED BY <2>1, <2>3, <2>4, <2>5
<1>3. Forecastable(spec, cut)
  <2> DEFINE asked == {r \in DOMAIN cut : DOMAIN Kept(spec, cut[r]) # {}}
             ends  == {Origin(spec, cut[r]) : r \in asked}
  <2>1. ASSUME NEW r \in DOMAIN cut PROVE r \in asked /\ Origin(spec, cut[r]) = o
    BY <1>1, <1>2, <2>1 DEF Origin
  <2>2. ends = {o}
    <3> HIDE DEF asked
    <3>1. asked = DOMAIN cut
      BY <2>1 DEF asked
    <3> QED BY <1>1, <2>1, <3>1
  <2>3. Cardinality(ends) = 1
    BY <2>2, FS_Singleton
  <2>4. Max(ends) = o
    <3>1. HourSet({o}) /\ Max({o}) \in {o}
      BY FS_Singleton, Extremes DEF HourSet
    <3> QED BY <2>2, <3>1
  <2>5. \A r \in DOMAIN cut : Servable(spec, cut[r], 1 + o)
    <3> SUFFICES ASSUME NEW r \in DOMAIN cut PROVE Servable(spec, cut[r], 1 + o)
      OBVIOUS
    <3>1. o - far + 1 .. o \subseteq DOMAIN Present(cut[r])
      BY <1>1, <1>2
    <3>2. (1 + o) - far = o - far + 1 /\ (1 + o) - 1 = o
      BY <1>0
    <3>3. Context(spec, 1 + o) = o - far + 1 .. o
      BY <3>2, Zenon DEF Context, far
    <3> QED BY <3>1, <3>3 DEF Servable
  <2> HIDE DEF ends
  <2>6. \A r \in asked : Servable(spec, cut[r], 1 + Max(ends))
    BY <2>4, <2>5
  <2> QED BY <2>3, <2>6 DEF Forecastable, ends
<1>4. ASSUME NEW r \in DOMAIN frame, NEW name \in Baselines
      PROVE  Sources(name, Until(frame[r], o)) \subseteq DOMAIN Until(frame[r], o)
  <2> DEFINE s == Until(frame[r], o)
  <2>1. /\ Max(DOMAIN s) = o /\ o \in DOMAIN s /\ o - far + 1 .. o \subseteq DOMAIN s
    BY <1>2
  <2> HIDE DEF s
  <2>2. ASSUME NEW lag \in {Day, Week} PROVE RepeatsFrom(s, lag) \subseteq DOMAIN s
    <3>1. lag \in Nat /\ 1 <= lag /\ lag <= Week
      BY <1>0
    <3>2. \A h \in Validation(o) : Source(o, h, lag) \in o - lag + 1 .. o
      BY <1>0, <3>1, SourceExists DEF Validation
    <3>3. o - lag + 1 .. o \subseteq o - far + 1 .. o
      BY <1>0, <3>1
    <3> QED BY <2>1, <3>2, <3>3 DEF RepeatsFrom
  <2>3. Sources(name, s) \subseteq DOMAIN s
    BY <2>1, <2>2 DEF Sources, Baselines
  <2> QED BY <2>3 DEF s
<1> QED BY <1>3, <1>4 DEF cut

-----------------------------------------------------------------------------
JobFields == {"step", "name", "frame", "tune", "origins", "inner", "todo", "tuned", "errors",
              "reference", "best", "version"}

(* From the comparison with the baselines on, a job keeps the reference that *)
(* belongs to its frame and windows.                                         *)
Comparing(job) == \/ job.step \in {"models", "register", "candidate", "champion"}
                  \/ job.step = "tune" /\ job.name = Global

JobOK(job) ==
  /\ DOMAIN job = JobFields
  /\ job.name \in Names
  /\ Comparing(job) => job.reference = Reference(job)
  /\ job.step \in {"candidate", "champion"} =>
       /\ job.version \in DOMAIN registry[job.name]
       /\ registry[job.name][job.version] = Registered(job)

IsSequence(s) == \E S : s \in Seq(S)

JobsOK == DOMAIN jobs = Trainers /\ \A t \in Trainers : JobOK(jobs[t])

RegistryOK == DOMAIN registry = Names /\ \A name \in Names : IsSequence(registry[name])

CrownsOK ==
  /\ DOMAIN aliases = Names /\ DOMAIN crowned = Names
  /\ \A name \in Names :
       /\ DOMAIN aliases[name] = {"candidate", "champion"}
       /\ aliases[name].champion # 0 =>
            /\ aliases[name].champion \in crowned[name]
            /\ aliases[name].champion \in DOMAIN registry[name]
            /\ Earned(registry[name][aliases[name].champion])

TrainingInv == JobsOK /\ RegistryOK /\ CrownsOK

LEMMA Appended ==
  ASSUME NEW s, IsSequence(s), NEW x
  PROVE  /\ IsSequence(Append(s, x))
         /\ Len(s) \in Nat /\ DOMAIN s = 1 .. Len(s)
         /\ Len(Append(s, x)) = Len(s) + 1
         /\ DOMAIN Append(s, x) = 1 .. Len(s) + 1
         /\ \A i \in DOMAIN s : Append(s, x)[i] = s[i]
         /\ Append(s, x)[Len(s) + 1] = x
<1>1. PICK S : s \in Seq(S)
  BY DEF IsSequence
<1> DEFINE T == S \cup {x}
<1>2. s \in Seq(T) /\ x \in T
  BY <1>1
<1> HIDE DEF T
<1>3. Append(s, x) \in Seq(T)
  BY <1>2
<1> QED BY <1>2, <1>3 DEF IsSequence

LEMMA VersionsArePositive ==
  ASSUME NEW s, IsSequence(s)
  PROVE  0 \notin DOMAIN s
  BY Appended

LEMMA NoJobOK == JobOK(NoJob) /\ DOMAIN NoJob = JobFields /\ NoJob.step = "idle"
  BY DEF JobOK, NoJob, JobFields, Comparing, Names

(* A trainer that moves on alone and well leaves the invariant alone.        *)
LEMMA JobStep ==
  ASSUME TrainingInv, NEW t \in Trainers,
         DOMAIN jobs' = Trainers, \A u \in Trainers \ {t} : jobs'[u] = jobs[u],
         UNCHANGED <<registry, aliases, crowned>>, JobOK(jobs[t])'
  PROVE  TrainingInv'
  BY DEF TrainingInv, JobsOK, JobOK, RegistryOK, CrownsOK, Earned, IsSequence, Comparing, Reference, Registered

LEMMA Ended ==
  ASSUME TrainingInv, NEW t \in Trainers, jobs' = Abandoned(t),
         UNCHANGED <<registry, aliases, crowned>>
  PROVE  TrainingInv'
<1>1. JobOK(jobs[t])'
  BY NoJobOK DEF Abandoned, TrainingInv, JobsOK, JobOK, Comparing, NoJob
<1> QED BY <1>1, JobStep DEF Abandoned, TrainingInv, JobsOK

LEMMA NewJobOK ==
  ASSUME NEW name, NEW frame, NEW tune
  PROVE  DOMAIN NewJob(name, frame, tune) = JobFields /\ NewJob(name, frame, tune).name = name
  BY NoJobOK DEF NewJob, JobFields

LEMMA TrainKeeps ==
  ASSUME TrainingInv, NEW t \in Trainers, Train(t)
  PROVE  TrainingInv'
<1> DEFINE job == jobs[t]
<1>0. /\ DOMAIN jobs = Trainers /\ JobOK(job) /\ DOMAIN job = JobFields
      /\ Global \in Names /\ Targets \subseteq Names
  BY TrainingAssumption DEF TrainingInv, JobsOK, JobOK, Names
<1>1. ASSUME BeginGlobal(t) PROVE TrainingInv'
  <2>1. CASE jobs' = Abandoned(t)
    BY <1>1, <2>1, Ended DEF BeginGlobal
  <2>2. CASE jobs' # Abandoned(t)
    <3>1. /\ DOMAIN jobs' = Trainers /\ \A u \in Trainers \ {t} : jobs'[u] = jobs[u]
          /\ \E frame, tune, inner :
               jobs'[t] = [NewJob(Global, frame, tune) EXCEPT !.step = "baselines", !.inner = inner]
      <4>1. PICK tune, inner :
              jobs' = [jobs EXCEPT ![t] =
                         [NewJob(Global, Loaded(Global), tune) EXCEPT !.step = "baselines", !.inner = inner]]
        BY <1>1, <2>2 DEF BeginGlobal, Abandoned
      <4>2. jobs'[t] = [NewJob(Global, Loaded(Global), tune) EXCEPT !.step = "baselines", !.inner = inner]
        BY <1>0, <4>1
      <4> QED BY <1>0, <4>1, <4>2
    <3>2. DOMAIN jobs'[t] = JobFields /\ jobs'[t].step = "baselines" /\ jobs'[t].name = Global
      BY <3>1, NewJobOK DEF JobFields
    <3>3. JobOK(jobs[t])'
      BY <1>0, <3>2 DEF JobOK, Comparing
    <3> QED BY <1>1, <3>1, <3>3, JobStep DEF BeginGlobal
  <2> QED BY <2>1, <2>2
<1>2. ASSUME BeginTarget(t) PROVE TrainingInv'
  <2>1. CASE jobs' = Abandoned(t)
    BY <1>2, <2>1, Ended DEF BeginTarget
  <2>2. CASE jobs' # Abandoned(t)
    <3>1. /\ DOMAIN jobs' = Trainers /\ \A u \in Trainers \ {t} : jobs'[u] = jobs[u]
          /\ \E name \in Targets : \E frame, tune :
               jobs'[t] = [NewJob(name, frame, tune)
                             EXCEPT !.step = IF tune THEN "tune" ELSE "baselines"]
      <4>1. PICK name \in Targets, tune \in BOOLEAN :
              jobs' = [jobs EXCEPT ![t] = [NewJob(name, Loaded(name), tune)
                                             EXCEPT !.step = IF tune THEN "tune" ELSE "baselines"]]
        BY <1>2, <2>2 DEF BeginTarget, Abandoned
      <4>2. jobs'[t] = [NewJob(name, Loaded(name), tune)
                          EXCEPT !.step = IF tune THEN "tune" ELSE "baselines"]
        BY <1>0, <4>1
      <4> QED BY <1>0, <4>1, <4>2
    <3>2. /\ DOMAIN jobs'[t] = JobFields /\ jobs'[t].step \in {"tune", "baselines"}
          /\ jobs'[t].name \in Targets
      BY <3>1, NewJobOK DEF JobFields
    <3>3. JobOK(jobs[t])'
      BY <1>0, <3>2, TrainingAssumption DEF JobOK, Comparing
    <3> QED BY <1>2, <3>1, <3>3, JobStep DEF BeginTarget
  <2> QED BY <2>1, <2>2
<1>3. ASSUME TuneGlobal(t) PROVE TrainingInv'
  <2>1. jobs' = Abandoned(t) \/
        jobs' = [jobs EXCEPT ![t] = [job EXCEPT !.tuned = @ \cup {Current(job.todo)}, !.step = "models"]]
    BY <1>3 DEF TuneGlobal, Abandoned
  <2>2. CASE jobs' = Abandoned(t)
    BY <1>3, <2>2, Ended DEF TuneGlobal
  <2>3. CASE jobs' # Abandoned(t)
    <3>1. /\ DOMAIN jobs'[t] = JobFields /\ jobs'[t].step = "models" /\ jobs'[t].name = job.name
          /\ jobs'[t].frame = job.frame /\ jobs'[t].origins = job.origins /\ jobs'[t].reference = job.reference
      BY <1>0, <2>1, <2>3 DEF JobFields
    <3>2. JobOK(jobs[t])'
      BY <1>0, <1>3, <3>1 DEF TuneGlobal, JobOK, Comparing, Reference
    <3> QED BY <1>0, <1>3, <2>1, <2>3, <3>2, JobStep DEF TuneGlobal
  <2> QED BY <2>2, <2>3
<1>4. ASSUME TuneTarget(t) PROVE TrainingInv'
  <2>1. CASE jobs' = Abandoned(t)
    BY <1>4, <2>1, Ended DEF TuneTarget
  <2>2. CASE jobs' # Abandoned(t)
    <3>1. /\ DOMAIN jobs' = Trainers /\ \A u \in Trainers \ {t} : jobs'[u] = jobs[u]
          /\ \E inner, tuned :
               jobs'[t] = [job EXCEPT !.inner = inner, !.tuned = tuned,
                                      !.step = IF tuned = Models THEN "baselines" ELSE "tune"]
      <4>1. PICK inner, tuned :
              jobs' = [jobs EXCEPT ![t] =
                         [job EXCEPT !.inner = inner, !.tuned = tuned,
                                     !.step = IF tuned = Models THEN "baselines" ELSE @]]
        BY <1>4, <2>2 DEF TuneTarget, Abandoned
      <4>2. jobs'[t] = [job EXCEPT !.inner = inner, !.tuned = tuned,
                                   !.step = IF tuned = Models THEN "baselines" ELSE "tune"]
        BY <1>0, <1>4, <4>1 DEF TuneTarget
      <4> QED BY <1>0, <4>1, <4>2
    <3>2. /\ DOMAIN jobs'[t] = JobFields /\ jobs'[t].step \in {"tune", "baselines"}
          /\ jobs'[t].name = job.name /\ job.name # Global
      BY <1>0, <1>4, <3>1 DEF JobFields, TuneTarget
    <3>3. JobOK(jobs[t])'
      BY <1>0, <3>2 DEF JobOK, Comparing
    <3> QED BY <1>4, <3>1, <3>3, JobStep DEF TuneTarget
  <2> QED BY <2>1, <2>2
<1>5. ASSUME EvaluateBaselines(t) PROVE TrainingInv'
  <2>1. jobs' = Abandoned(t) \/
        jobs' = [jobs EXCEPT ![t] = [job EXCEPT !.reference = Reference(job), !.step = "models"]]
    BY <1>5 DEF EvaluateBaselines, Abandoned
  <2>2. CASE jobs' = Abandoned(t)
    BY <1>5, <2>2, Ended DEF EvaluateBaselines
  <2>3. CASE jobs' # Abandoned(t)
    <3>1. /\ DOMAIN jobs'[t] = JobFields /\ jobs'[t].step = "models" /\ jobs'[t].name = job.name
          /\ jobs'[t].frame = job.frame /\ jobs'[t].origins = job.origins
          /\ jobs'[t].reference = Reference(job)
      BY <1>0, <2>1, <2>3 DEF JobFields
    <3>2. JobOK(jobs[t])'
      BY <1>0, <3>1 DEF JobOK, Comparing, Reference
    <3> QED BY <1>0, <1>5, <2>1, <2>3, <3>2, JobStep DEF EvaluateBaselines
  <2> QED BY <2>2, <2>3
<1>6. ASSUME EvaluateModel(t) PROVE TrainingInv'
  <2>1. CASE jobs' = Abandoned(t)
    BY <1>6, <2>1, Ended DEF EvaluateModel
  <2>2. CASE jobs' # Abandoned(t)
    <3>1. /\ DOMAIN jobs' = Trainers /\ \A u \in Trainers \ {t} : jobs'[u] = jobs[u]
          /\ DOMAIN jobs'[t] = JobFields /\ jobs'[t].step \in {"models", "tune"}
          /\ jobs'[t].name = job.name /\ jobs'[t].reference = job.reference
          /\ jobs'[t].frame = job.frame /\ jobs'[t].origins = job.origins
      BY <1>0, <1>6, <2>2 DEF EvaluateModel, Advance, JobFields
    <3>2. JobOK(jobs[t])'
      BY <1>0, <1>6, <3>1 DEF EvaluateModel, JobOK, Comparing, Reference
    <3> QED BY <1>6, <3>1, <3>2, JobStep DEF EvaluateModel
  <2> QED BY <2>1, <2>2
<1>7. ASSUME RankAndFit(t) PROVE TrainingInv'
  <2>1. /\ DOMAIN jobs' = Trainers /\ \A u \in Trainers \ {t} : jobs'[u] = jobs[u]
        /\ DOMAIN jobs'[t] = JobFields /\ jobs'[t].step = "register"
        /\ jobs'[t].name = job.name /\ jobs'[t].reference = job.reference
        /\ jobs'[t].frame = job.frame /\ jobs'[t].origins = job.origins
    BY <1>0, <1>7 DEF RankAndFit, JobFields
  <2>2. JobOK(jobs[t])'
    BY <1>0, <1>7, <2>1 DEF RankAndFit, JobOK, Comparing, Reference
  <2> QED BY <1>7, <2>1, <2>2, JobStep DEF RankAndFit
<1>8. ASSUME CreateVersion(t) PROVE TrainingInv'
  <2>1. /\ registry' = [registry EXCEPT ![job.name] = Append(@, Registered(job))]
        /\ jobs' = [jobs EXCEPT ![t].version = Len(registry'[job.name]), ![t].step = "candidate"]
        /\ UNCHANGED <<aliases, crowned>> /\ job.step = "register"
    BY <1>8 DEF CreateVersion
  <2> DEFINE old == registry[job.name]
             new == Append(old, Registered(job))
  <2>2. /\ job.name \in Names /\ DOMAIN registry = Names /\ IsSequence(old)
    BY <1>0 DEF JobOK, TrainingInv, RegistryOK
  <2>3. registry'[job.name] = new /\ \A name \in Names \ {job.name} : registry'[name] = registry[name]
    BY <2>1, <2>2
  <2>4. /\ IsSequence(new) /\ DOMAIN old = 1 .. Len(old) /\ Len(old) \in Nat
        /\ Len(new) = Len(old) + 1 /\ DOMAIN new = 1 .. Len(old) + 1
        /\ \A i \in DOMAIN old : new[i] = old[i]
        /\ new[Len(old) + 1] = Registered(job)
    BY <2>2, Appended
  <2> HIDE DEF old, new
  <2>5. RegistryOK'
    <3>1. DOMAIN registry' = Names
      BY <2>1, <2>2
    <3> QED BY <2>3, <2>4, <3>1 DEF RegistryOK, TrainingInv, IsSequence
  <2>6. \A name \in Names : /\ DOMAIN registry[name] \subseteq DOMAIN registry'[name]
                            /\ \A v \in DOMAIN registry[name] : registry'[name][v] = registry[name][v]
    BY <2>3, <2>4 DEF old
  <2>7. CrownsOK'
    BY <2>1, <2>6 DEF TrainingInv, CrownsOK, Earned
  <2>8. /\ DOMAIN jobs' = Trainers /\ \A u \in Trainers \ {t} : jobs'[u] = jobs[u]
        /\ DOMAIN jobs'[t] = JobFields /\ jobs'[t].step = "candidate"
        /\ jobs'[t].name = job.name /\ jobs'[t].reference = job.reference
        /\ jobs'[t].frame = job.frame /\ jobs'[t].origins = job.origins
        /\ jobs'[t].best = job.best /\ jobs'[t].version = Len(new)
    BY <1>0, <2>1, <2>3 DEF JobFields
  <2>9. JobOK(jobs[t])'
    <3>1. Registered(jobs'[t]) = Registered(job)
      BY <2>8 DEF Registered
    <3>2. jobs'[t].version \in DOMAIN registry'[job.name]
          /\ registry'[job.name][jobs'[t].version] = Registered(job)
      BY <2>3, <2>4, <2>8
    <3> QED BY <1>0, <2>1, <2>8, <3>1, <3>2 DEF JobOK, Comparing, Reference
  <2>10. \A u \in Trainers \ {t} : JobOK(jobs[u])'
    BY <2>6, <2>8 DEF TrainingInv, JobsOK, JobOK, Comparing, Reference, Registered
  <2> QED BY <2>5, <2>7, <2>8, <2>9, <2>10 DEF TrainingInv, JobsOK
<1>9. ASSUME AssignCandidate(t) PROVE TrainingInv'
  <2>1. /\ DOMAIN jobs' = Trainers /\ \A u \in Trainers \ {t} : jobs'[u] = jobs[u]
        /\ jobs'[t] = [job EXCEPT !.step = "champion"]
        /\ UNCHANGED <<registry, crowned>> /\ job.step = "candidate"
    BY <1>0, <1>9 DEF AssignCandidate, Advance
  <2>2. JobOK(jobs[t])'
    BY <1>0, <2>1 DEF JobOK, JobFields, Comparing, Reference, Registered
  <2>3. /\ DOMAIN aliases' = Names
        /\ \A name \in Names : /\ DOMAIN aliases'[name] = {"candidate", "champion"}
                               /\ aliases'[name].champion = aliases[name].champion
    BY <1>0, <1>9 DEF AssignCandidate, TrainingInv, CrownsOK
  <2>4. CrownsOK'
    BY <2>1, <2>3 DEF CrownsOK, TrainingInv, Earned
  <2>5. RegistryOK'
    BY <2>1 DEF TrainingInv, RegistryOK, IsSequence
  <2>6. \A u \in Trainers \ {t} : JobOK(jobs[u])'
    BY <2>1 DEF TrainingInv, JobsOK, JobOK, Comparing, Reference, Registered
  <2> QED BY <2>1, <2>2, <2>4, <2>5, <2>6 DEF TrainingInv, JobsOK
<1>10. ASSUME AssignChampion(t) PROVE TrainingInv'
  <2>1. /\ jobs' = Abandoned(t) /\ UNCHANGED registry /\ job.step = "champion"
    BY <1>10 DEF AssignChampion
  <2>2. CASE ~GatePasses(job)
    BY <1>10, <2>1, <2>2, Ended DEF AssignChampion
  <2>3. CASE GatePasses(job)
    <3>1. /\ aliases' = [aliases EXCEPT ![job.name].champion = job.version]
          /\ crowned' = [crowned EXCEPT ![job.name] = @ \cup {job.version}]
      BY <1>10, <2>3 DEF AssignChampion
    <3>2. /\ job.name \in Names /\ job.version \in DOMAIN registry[job.name]
          /\ registry[job.name][job.version] = Registered(job) /\ job.reference = Reference(job)
      BY <1>0, <2>1 DEF JobOK, Comparing
    <3>3. Earned(Registered(job))
      <4>1. Registered(job).error = job.best /\ Registered(job).frame = job.frame
            /\ Registered(job).origins = job.origins
        BY DEF Registered
      <4>2. Improves(job.best, BaselineError("seasonal_naive_24h", job.frame, job.origins),
                     Scale(job.frame, job.origins), Threshold)
        BY <2>3, <3>2 DEF GatePasses, Reference
      <4> HIDE DEF job
      <4> QED BY <4>1, <4>2 DEF Earned
    <3>4. CrownsOK'
      BY <2>1, <3>1, <3>2, <3>3 DEF CrownsOK, TrainingInv, Earned
    <3>5. JobsOK' /\ RegistryOK'
      BY <1>0, <2>1, NoJobOK DEF TrainingInv, JobsOK, JobOK, Comparing, NoJob, Abandoned,
         RegistryOK, IsSequence, Reference, Registered
    <3> QED BY <3>4, <3>5 DEF TrainingInv
  <2> QED BY <2>2, <2>3
<1>11. ASSUME TrainingEnds(t) PROVE TrainingInv'
  BY <1>11, Ended DEF TrainingEnds
<1> QED BY <1>1, <1>2, <1>3, <1>4, <1>5, <1>6, <1>7, <1>8, <1>9, <1>10, <1>11 DEF Train

LEMMA TrainingInit == Init => TrainingInv
<1> SUFFICES ASSUME Init PROVE TrainingInv
  OBVIOUS
<1>1. PICK start \in Starts : registry = start.registry /\ aliases = start.aliases
  BY DEF Init
<1>2. crowned = [name \in Names |-> {aliases[name].champion} \ {0}] /\ jobs = [t \in Trainers |-> NoJob]
  BY DEF Init
<1>3. JobsOK
  BY <1>2, NoJobOK DEF JobsOK
<1>4. RegistryOK
  BY <1>1, StartsAssumption DEF RegistryOK, IsSequence
<1>5. CrownsOK
  BY <1>1, <1>2, StartsAssumption DEF CrownsOK
<1> QED BY <1>3, <1>4, <1>5 DEF TrainingInv

LEMMA ServeLeavesTraining ==
  ASSUME Serve PROVE UNCHANGED trainingVars
  BY DEF Serve, LoadModel, Predict, Publish, PublishCut, PredictionEnds, ListCandidates,
     ReadCandidate, CloseRequest, BeginDispatch, CheckAlias, StoreDispatch, StoreCut,
     DispatchEnds, Ask, AskSummary, LookUp, BuildSummary, KeepSummary, CloseSummary, Tick

LEMMA TrainingNext ==
  ASSUME TrainingInv, [Next]_vars
  PROVE  TrainingInv'
<1>1. CASE UNCHANGED <<jobs, registry, aliases, crowned>>
  BY <1>1 DEF TrainingInv, JobsOK, JobOK, RegistryOK, CrownsOK, Earned, IsSequence, Comparing,
     Reference, Registered
<1>2. CASE \E t \in Trainers : Train(t)
  BY <1>2, TrainKeeps
<1>3. CASE NewHour
  BY <1>1, <1>3 DEF NewHour, Arrive
<1>4. CASE UNCHANGED trainingVars
  BY <1>1, <1>4 DEF trainingVars
<1>5. Serve => UNCHANGED trainingVars
  BY ServeLeavesTraining
<1> QED BY <1>2, <1>3, <1>4, <1>5 DEF Next, Learn, vars

(* However trainings overlap, a champion was compared on its own windows, with *)
(* the baseline of those windows, and passed (apply_promotion_gate).           *)
THEOREM ChampionsEarned == Spec => []ChampionEarnedIt
<1>1. TrainingInv => ChampionEarnedIt
  BY DEF TrainingInv, CrownsOK, ChampionEarnedIt
<1> QED BY <1>1, TrainingInit, TrainingNext, PTL DEF Spec

-----------------------------------------------------------------------------
(* Rows, and the prediction that will become rows, name a version.           *)
PredictionOK ==
  /\ DOMAIN prediction = {"step", "name", "region", "version", "rows"}
  /\ prediction.step # "idle" => prediction.version # 0
  /\ prediction.step = "predicted" =>
       \A key \in DOMAIN prediction.rows : key[1] = prediction.name /\ key[5] = prediction.version

PublishedOK == \A key \in DOMAIN published : key[5] # 0

RowsInv == PredictionOK /\ PublishedOK /\ faults \in Nat

LEMMA RowsInit == Init => RowsInv
<1> SUFFICES ASSUME Init PROVE RowsInv
  OBVIOUS
<1>1. PICK start \in Starts : registry = start.registry /\ published = start.published
  BY DEF Init
<1>2. PublishedOK
  <2>1. \A name \in Names : 0 \notin DOMAIN start.registry[name]
    BY <1>1, TrainingInit, VersionsArePositive DEF TrainingInv, RegistryOK
  <2> QED BY <1>1, <2>1, StartsAssumption DEF PublishedOK
<1>3. PredictionOK /\ faults \in Nat
  BY DEF Init, ServingInit, NoPrediction, PredictionOK
<1> QED BY <1>2, <1>3 DEF RowsInv

LEMMA NoPredictionOK == NoPrediction.step = "idle"
                        /\ DOMAIN NoPrediction = {"step", "name", "region", "version", "rows"}
  BY DEF NoPrediction

LEMMA ForecastKeys ==
  ASSUME NEW p, NEW s, NEW n
  PROVE  \A key \in DOMAIN Forecast(p, s, n) : key[1] = p.name /\ key[5] = p.version
  BY DEF Forecast

LEMMA RowsNext ==
  ASSUME TrainingInv, RowsInv, [Next]_vars
  PROVE  RowsInv'
<1>1. CASE UNCHANGED <<prediction, published, faults>>
  BY <1>1 DEF RowsInv, PredictionOK, PublishedOK
<1>2. ASSUME LoadModel PROVE RowsInv'
  <2>1. PICK name \in Names : \E version \in Loadable(name) : \E region :
          prediction' = [NoPrediction EXCEPT !.step = "loaded", !.name = name,
                                             !.region = region, !.version = version]
    BY <1>2 DEF LoadModel
  <2>2. 0 \notin Loadable(name)
    BY VersionsArePositive DEF Loadable, TrainingInv, RegistryOK
  <2>3. PredictionOK'
    BY <2>1, <2>2, NoPredictionOK DEF PredictionOK
  <2> QED BY <1>2, <2>3 DEF LoadModel, RowsInv, PublishedOK
<1>3. ASSUME Predict PROVE RowsInv'
  <2>1. CASE prediction' = NoPrediction
    BY <1>3, <2>1, NoPredictionOK DEF Predict, RowsInv, PredictionOK, PublishedOK
  <2>2. CASE prediction' # NoPrediction
    <3>1. PICK n, s : prediction' = [prediction EXCEPT !.rows = Forecast(prediction, s, n), !.step = "predicted"]
      BY <1>3, <2>2 DEF Predict
    <3>2. /\ DOMAIN prediction' = DOMAIN prediction /\ prediction'.step = "predicted"
          /\ prediction'.name = prediction.name /\ prediction'.version = prediction.version
          /\ prediction'.rows = Forecast(prediction, s, n)
      BY <3>1 DEF RowsInv, PredictionOK
    <3>3. prediction.version # 0
      BY <1>3 DEF Predict, RowsInv, PredictionOK
    <3>4. PredictionOK'
      BY <3>2, <3>3, ForecastKeys DEF RowsInv, PredictionOK
    <3> QED BY <1>3, <3>4 DEF Predict, RowsInv, PublishedOK
  <2> QED BY <2>1, <2>2
<1>4. ASSUME Publish PROVE RowsInv'
  <2>1. prediction' = NoPrediction /\ UNCHANGED faults /\ prediction.step = "predicted"
        /\ DOMAIN published' \subseteq DOMAIN published \cup DOMAIN prediction.rows
    BY <1>4 DEF Publish, Override
  <2> QED BY <2>1, NoPredictionOK DEF RowsInv, PredictionOK, PublishedOK
<1>5. ASSUME PublishCut PROVE RowsInv'
  <2>1. prediction' = NoPrediction /\ faults' = faults + 1 /\ DOMAIN published' \subseteq DOMAIN published
    BY <1>5 DEF PublishCut
  <2> QED BY <2>1, NoPredictionOK DEF RowsInv, PredictionOK, PublishedOK
<1>6. ASSUME PredictionEnds PROVE RowsInv'
  BY <1>6, NoPredictionOK DEF PredictionEnds, RowsInv, PredictionOK, PublishedOK
<1>7. ASSUME StoreCut PROVE RowsInv'
  BY <1>7 DEF StoreCut, RowsInv, PredictionOK, PublishedOK
<1>8. ASSUME Learn \/ NewHour PROVE RowsInv'
  BY <1>1, <1>8 DEF Learn, NewHour, workVars
<1>9. ASSUME ListCandidates \/ ReadCandidate \/ CloseRequest \/ BeginDispatch \/ CheckAlias
             \/ StoreDispatch \/ DispatchEnds \/ (\E r \in Requesters : Ask(r)) \/ Tick
      PROVE  RowsInv'
  BY <1>1, <1>9 DEF ListCandidates, ReadCandidate, CloseRequest, BeginDispatch, CheckAlias,
     StoreDispatch, DispatchEnds, Ask, AskSummary, LookUp, BuildSummary, KeepSummary,
     CloseSummary, Tick, workVars
<1> QED BY <1>1, <1>2, <1>3, <1>4, <1>5, <1>6, <1>7, <1>8, <1>9 DEF Next, Serve, vars, workVars

LEMMA OnlyReplaced ==
  ASSUME RowsInv, [Next]_vars
  PROVE  [\A key \in DOMAIN published \ DOMAIN published' :
            key[1] # Global /\ faults' # faults /\ key[5] = prediction.version]_published
<1>1. ASSUME Publish PROVE DOMAIN published \subseteq DOMAIN published'
  BY <1>1 DEF Publish, Replaced, Override
<1>2. ASSUME PublishCut, NEW key \in DOMAIN published \ DOMAIN published'
      PROVE  key[1] # Global /\ faults' # faults /\ key[5] = prediction.version
  <2>1. key \in DOMAIN prediction.rows
    BY <1>2 DEF PublishCut, Replaced
  <2> QED BY <1>2, <2>1 DEF PublishCut, RowsInv, PredictionOK
<1>3. ASSUME Learn \/ NewHour PROVE UNCHANGED published
  BY <1>3 DEF Learn, NewHour
<1>4. ASSUME Serve, ~Publish, ~PublishCut PROVE UNCHANGED published
  BY <1>4 DEF Serve, LoadModel, Predict, PredictionEnds, ListCandidates, ReadCandidate, CloseRequest,
     BeginDispatch, CheckAlias, StoreDispatch, StoreCut, DispatchEnds, Ask, AskSummary, LookUp,
     BuildSummary, KeepSummary, CloseSummary, Tick
<1> QED BY <1>1, <1>2, <1>3, <1>4 DEF Next, vars

(* A prediction takes away its own rows only, and only when it is cut          *)
(* (TargetForecastStorage.upsert, upsert_forecasts).                           *)
THEOREM RowsKept == Spec => RowsOnlyReplaced
<1>1. Init => TrainingInv /\ RowsInv
  BY TrainingInit, RowsInit
<1>2. TrainingInv /\ RowsInv /\ [Next]_vars => (TrainingInv /\ RowsInv)'
  BY TrainingNext, RowsNext
<1>3. RowsInv /\ [Next]_vars =>
        [\A key \in DOMAIN published \ DOMAIN published' :
           key[1] # Global /\ faults' # faults /\ key[5] = prediction.version]_published
  BY OnlyReplaced
<1> QED BY <1>1, <1>2, <1>3, PTL DEF Spec, RowsOnlyReplaced

-----------------------------------------------------------------------------
LEMMA StoredInOrder ==
  ASSUME PointsBelongToARun, NEW n \in 1 .. 4
  PROVE  DOMAIN PointsAfter(n) \subseteq DOMAIN RunsAfter(n)
  BY DEF PointsBelongToARun, PointsAfter, RunsAfter, Without, Inserted, Override

LEMMA PointsNext ==
  ASSUME PointsBelongToARun, [Next]_vars
  PROVE  PointsBelongToARun'
<1>1. CASE UNCHANGED dispatchTables
  BY <1>1 DEF dispatchTables, PointsBelongToARun
<1>2. ASSUME StoreDispatch PROVE PointsBelongToARun'
  BY <1>2, StoredInOrder DEF StoreDispatch, PointsBelongToARun
<1>3. ASSUME StoreCut PROVE PointsBelongToARun'
  BY <1>3, StoredInOrder DEF StoreCut, PointsBelongToARun
<1>4. ASSUME Learn \/ NewHour PROVE UNCHANGED dispatchTables
  BY <1>4 DEF Learn, NewHour
<1>5. ASSUME Serve, ~StoreDispatch, ~StoreCut PROVE UNCHANGED dispatchTables
  BY <1>5 DEF Serve, LoadModel, Predict, Publish, PublishCut, PredictionEnds, ListCandidates,
     ReadCandidate, CloseRequest, BeginDispatch, CheckAlias, DispatchEnds, Ask, AskSummary, LookUp,
     BuildSummary, KeepSummary, CloseSummary, Tick
<1> QED BY <1>1, <1>2, <1>3, <1>4, <1>5 DEF Next, vars

(* After any number of the four statements of upsert_dispatch the points have  *)
(* their run.                                                                  *)
THEOREM PointsHaveRuns == Spec => []PointsBelongToARun
<1>1. Init => PointsBelongToARun
  BY DEF Init, ServingInit, PointsBelongToARun
<1> QED BY <1>1, PointsNext, PTL DEF Spec

-----------------------------------------------------------------------------
PlanOK ==
  /\ DOMAIN plan = {"step", "origin", "region", "lineage", "rows", "todo"}
  /\ plan.step \in {"idle", "check", "store"}
  /\ plan.step # "idle" =>
       /\ DOMAIN plan.lineage \subseteq Targets
       /\ \A target \in DOMAIN plan.lineage : plan.lineage[target] # 0
  /\ plan.step = "check" => plan.todo # {} /\ plan.todo \subseteq DOMAIN plan.lineage
  /\ \A target \in DOMAIN plan.lineage :
       (plan.step = "store" \/ (plan.step = "check" /\ target \notin plan.todo)) =>
         plan.lineage[target] \in crowned[target]

RunsOK == \A id \in DOMAIN runs : DOMAIN runs[id] \subseteq Targets

DispatchInv == PlanOK /\ RunsOK /\ DispatchFromChampions

LEMMA NoPlanOK == /\ DOMAIN NoPlan = {"step", "origin", "region", "lineage", "rows", "todo"}
                  /\ NoPlan.step = "idle"
  BY DEF NoPlan

(* Who was champion stays a former champion.                                 *)
LEMMA CrownsGrow ==
  ASSUME TrainingInv, [Next]_vars
  PROVE  \A name \in Names : crowned[name] \subseteq crowned'[name]
<1>1. CASE UNCHANGED crowned
  BY <1>1
<1>2. ASSUME NEW t \in Trainers, AssignChampion(t)
      PROVE  \A name \in Names : crowned[name] \subseteq crowned'[name]
  BY <1>2 DEF AssignChampion, TrainingInv, CrownsOK
<1>3. ASSUME NEW t \in Trainers, Train(t), ~AssignChampion(t) PROVE UNCHANGED crowned
  BY <1>3 DEF Train, BeginGlobal, BeginTarget, TuneGlobal, TuneTarget, EvaluateBaselines,
     EvaluateModel, RankAndFit, CreateVersion, AssignCandidate, TrainingEnds
<1>4. ASSUME NewHour PROVE UNCHANGED crowned
  BY <1>4 DEF NewHour, Arrive
<1>5. ASSUME Serve PROVE UNCHANGED crowned
  BY <1>5, ServeLeavesTraining DEF trainingVars
<1> QED BY <1>1, <1>2, <1>3, <1>4, <1>5 DEF Next, Learn, vars, trainingVars

LEMMA PlannedOK ==
  ASSUME PublishedOK, NEW region, NEW origin, Plannable(RowsAt(region, origin), origin)
  PROVE  LET p == Planned(region, origin, RowsAt(region, origin))
         IN  /\ DOMAIN p = {"step", "origin", "region", "lineage", "rows", "todo"}
             /\ p.step = "check" /\ p.todo = DOMAIN p.lineage /\ p.todo # {}
             /\ DOMAIN p.lineage \subseteq Targets
             /\ \A target \in DOMAIN p.lineage : p.lineage[target] # 0
<1> DEFINE rows == RowsAt(region, origin)
           p    == Planned(region, origin, rows)
<1>1. /\ DOMAIN p = {"step", "origin", "region", "lineage", "rows", "todo"}
      /\ p.step = "check" /\ p.todo = {key[1] : key \in rows}
      /\ p.lineage = [t \in {key[1] : key \in rows} |-> (CHOOSE key \in rows : key[1] = t)[5]]
  BY DEF Planned
<1>2. \A key \in rows : key[1] \in Targets /\ key[5] # 0
  BY DEF RowsAt, PublishedOK
<1>3. {key[1] : key \in rows} # {}
  BY DEF Plannable
<1> HIDE DEF rows, p
<1>4. \A target \in {key[1] : key \in rows} : (CHOOSE key \in rows : key[1] = target) \in rows
  OBVIOUS
<1>5. \A target \in DOMAIN p.lineage : p.lineage[target] # 0
  BY <1>1, <1>2, <1>4
<1>6. DOMAIN p.lineage \subseteq Targets
  BY <1>1, <1>2
<1> QED BY <1>1, <1>3, <1>5, <1>6 DEF p, rows

LEMMA DispatchNext ==
  ASSUME TrainingInv, RowsInv, DispatchInv, [Next]_vars
  PROVE  DispatchInv'
<1>0. /\ \A name \in Names : crowned[name] \subseteq crowned'[name]
      /\ Targets \subseteq Names
  BY CrownsGrow DEF Names
<1>1. CASE UNCHANGED <<plan, runs>>
  <2>1. PlanOK'
    BY <1>0, <1>1 DEF DispatchInv, PlanOK
  <2>2. RunsOK' /\ DispatchFromChampions'
    BY <1>0, <1>1 DEF DispatchInv, RunsOK, DispatchFromChampions
  <2> QED BY <2>1, <2>2 DEF DispatchInv
<1>2. ASSUME BeginDispatch PROVE DispatchInv'
  <2>1. UNCHANGED <<runs, crowned>>
    BY <1>2 DEF BeginDispatch, dispatchTables, trainingVars
  <2>2. CASE plan' = NoPlan
    BY <2>1, <2>2, NoPlanOK DEF DispatchInv, PlanOK, RunsOK, DispatchFromChampions
  <2>3. CASE plan' # NoPlan
    <3>1. PICK region, origin : /\ Plannable(RowsAt(region, origin), origin)
                                /\ plan' = Planned(region, origin, RowsAt(region, origin))
      BY <1>2, <2>3 DEF BeginDispatch
    <3>2. PlanOK'
      BY <3>1, PlannedOK DEF RowsInv, PlanOK
    <3> QED BY <2>1, <3>2 DEF DispatchInv, RunsOK, DispatchFromChampions
  <2> QED BY <2>2, <2>3
<1>3. ASSUME CheckAlias PROVE DispatchInv'
  <2> DEFINE t == Current(plan.todo)
  <2>1. UNCHANGED <<runs, crowned>> /\ plan.step = "check"
    BY <1>3 DEF CheckAlias, dispatchTables, trainingVars
  <2>2. CASE plan' = NoPlan
    BY <2>1, <2>2, NoPlanOK DEF DispatchInv, PlanOK, RunsOK, DispatchFromChampions
  <2>3. CASE plan' # NoPlan
    <3>1. /\ aliases[t].champion = plan.lineage[t]
          /\ plan' = [plan EXCEPT !.todo = @ \ {t}, !.step = IF plan.todo = {t} THEN "store" ELSE @]
      BY <1>3, <2>3 DEF CheckAlias
    <3>2. t \in plan.todo
      BY <2>1 DEF DispatchInv, PlanOK, Current
    <3>3. t \in Targets /\ plan.lineage[t] \in crowned[t]
      BY <1>0, <2>1, <3>1, <3>2 DEF DispatchInv, PlanOK, TrainingInv, CrownsOK
    <3> HIDE DEF t
    <3>4. /\ DOMAIN plan' = DOMAIN plan /\ plan'.lineage = plan.lineage
          /\ plan'.todo = plan.todo \ {t}
          /\ plan'.step = IF plan.todo = {t} THEN "store" ELSE "check"
      BY <2>1, <3>1 DEF DispatchInv, PlanOK
    <3>5. PlanOK'
      BY <2>1, <3>2, <3>3, <3>4 DEF DispatchInv, PlanOK
    <3> QED BY <2>1, <3>5 DEF DispatchInv, RunsOK, DispatchFromChampions
  <2> QED BY <2>2, <2>3
<1>4. ASSUME StoreDispatch \/ StoreCut PROVE DispatchInv'
  <2>1. PICK n \in 1 .. 4 : runs' = RunsAfter(n)
    BY <1>4 DEF StoreDispatch, StoreCut
  <2>2. plan' = NoPlan /\ plan.step = "store" /\ UNCHANGED crowned
    BY <1>4 DEF StoreDispatch, StoreCut, trainingVars
  <2>3. \A id \in DOMAIN runs' : \/ id \in DOMAIN runs /\ runs'[id] = runs[id]
                                 \/ runs'[id] = plan.lineage
    BY <2>1 DEF RunsAfter, Without, Inserted, Override
  <2>4. PlanOK'
    BY <2>2, NoPlanOK DEF PlanOK, NoPlan
  <2>5. RunsOK' /\ DispatchFromChampions'
    BY <2>2, <2>3 DEF DispatchInv, PlanOK, RunsOK, DispatchFromChampions
  <2> QED BY <2>4, <2>5 DEF DispatchInv
<1>5. ASSUME DispatchEnds PROVE DispatchInv'
  BY <1>5, NoPlanOK DEF DispatchEnds, DispatchInv, PlanOK, RunsOK, DispatchFromChampions,
     dispatchTables, trainingVars
<1>6. ASSUME Learn \/ NewHour PROVE DispatchInv'
  BY <1>1, <1>6 DEF Learn, NewHour, workVars, dispatchTables
<1>7. ASSUME Serve, ~BeginDispatch, ~CheckAlias, ~StoreDispatch, ~StoreCut, ~DispatchEnds
      PROVE  UNCHANGED <<plan, runs>>
  BY <1>7 DEF Serve, LoadModel, Predict, Publish, PublishCut, PredictionEnds, ListCandidates,
     ReadCandidate, CloseRequest, Ask, AskSummary, LookUp, BuildSummary, KeepSummary,
     CloseSummary, Tick, workVars, dispatchTables
<1> QED BY <1>1, <1>2, <1>3, <1>4, <1>5, <1>6, <1>7 DEF Next, vars, workVars, dispatchTables

(* However aliases move while a dispatch is planned, each version in its       *)
(* lineage was champion of its target (run_dispatch_optimization).             *)
THEOREM DispatchesRestOnChampions == Spec => []DispatchFromChampions
<1>1. Init => TrainingInv /\ RowsInv /\ DispatchInv
  <2>1. Init => DispatchInv
    BY DEF Init, ServingInit, NoPlan, DispatchInv, PlanOK, RunsOK, DispatchFromChampions
  <2> QED BY <2>1, TrainingInit, RowsInit
<1>2. TrainingInv /\ RowsInv /\ DispatchInv /\ [Next]_vars => (TrainingInv /\ RowsInv /\ DispatchInv)'
  BY TrainingNext, RowsNext, DispatchNext
<1>3. DispatchInv => DispatchFromChampions
  BY DEF DispatchInv
<1> QED BY <1>1, <1>2, <1>3, PTL DEF Spec

-----------------------------------------------------------------------------
PastOK == /\ clock \in Nat /\ DOMAIN past = 0 .. clock
          /\ Summary(published) \in past[clock]

TrueSince(record, value, first, last) ==
  \E u \in first .. last : u \in DOMAIN record /\ value \in record[u]

ReaderOK(reader) ==
  /\ DOMAIN reader = {"step", "now", "value", "at"}
  /\ reader.now \in 0 .. clock /\ reader.at \in 0 .. clock
  /\ reader.step = "keep" => TrueSince(past, reader.value, reader.now, clock)
  /\ reader.step = "answered" => TrueSince(past, reader.value, reader.now - TTL + 1, reader.at)

CachedOK == /\ cached.expiry \in Nat
            /\ cached.expiry > 0 => TrueSince(past, cached.value, cached.expiry - TTL, clock)

CacheInv == /\ PastOK /\ CachedOK
            /\ DOMAIN readers = Requesters /\ \A r \in Requesters : ReaderOK(readers[r])

(* The record of past summaries only grows, and has the one of now.          *)
LEMMA PastGrows ==
  ASSUME PastOK, [Next]_vars
  PROVE  /\ PastOK' /\ clock <= clock'
         /\ \A u \in DOMAIN past : u \in DOMAIN past' /\ past[u] \subseteq past'[u]
<1>1. CASE UNCHANGED <<published, past, clock>>
  BY <1>1 DEF PastOK
<1>2. ASSUME Publish \/ PublishCut
      PROVE  /\ PastOK' /\ clock <= clock'
             /\ \A u \in DOMAIN past : u \in DOMAIN past' /\ past[u] \subseteq past'[u]
  <2>1. past' = [past EXCEPT ![clock] = @ \cup {Summary(published')}] /\ UNCHANGED clock
    BY <1>2 DEF Publish, PublishCut, Witnessed, cacheVars
  <2>2. clock \in DOMAIN past
    BY DEF PastOK
  <2>3. /\ DOMAIN past' = DOMAIN past /\ Summary(published)' \in past'[clock]
        /\ \A u \in DOMAIN past : past[u] \subseteq past'[u]
    BY <2>1, <2>2 DEF Summary, TargetRows
  <2> QED BY <2>1, <2>3 DEF PastOK
<1>3. ASSUME Tick
      PROVE  /\ PastOK' /\ clock <= clock'
             /\ \A u \in DOMAIN past : u \in DOMAIN past' /\ past[u] \subseteq past'[u]
  <2>1. /\ past' = Override(past, [u \in {clock + 1} |-> {Summary(published)}])
        /\ clock' = clock + 1 /\ UNCHANGED published
    BY <1>3 DEF Tick
  <2>2. /\ DOMAIN past' = (0 .. clock) \cup {clock + 1}
        /\ past'[clock + 1] = {Summary(published)}
        /\ \A u \in 0 .. clock : past'[u] = past[u]
    BY <2>1 DEF PastOK, Override
  <2>3. Summary(published)' = Summary(published)
    BY <2>1 DEF Summary, TargetRows
  <2>4. clock \in Nat
    BY DEF PastOK
  <2>5. DOMAIN past = 0 .. clock
    BY DEF PastOK
  <2>6. 0 .. clock + 1 = (0 .. clock) \cup {clock + 1}
    BY <2>4
  <2>7. DOMAIN past' = 0 .. clock'
    BY <2>1, <2>2, <2>6, Zenon
  <2>8. Summary(published)' \in past'[clock']
    BY <2>1, <2>2, <2>3
  <2>9. PastOK' /\ clock <= clock'
    BY <2>1, <2>4, <2>7, <2>8 DEF PastOK
  <2>10. \A u \in DOMAIN past : u \in DOMAIN past' /\ past[u] \subseteq past'[u]
    BY <2>2, <2>5
  <2> QED BY <2>9, <2>10
<1>4. ASSUME Learn \/ NewHour PROVE UNCHANGED <<published, past, clock>>
  BY <1>4 DEF Learn, NewHour, cacheVars
<1>5. ASSUME Serve, ~Publish, ~PublishCut, ~Tick PROVE UNCHANGED <<published, past, clock>>
  BY <1>5 DEF Serve, LoadModel, Predict, PredictionEnds, ListCandidates, ReadCandidate, CloseRequest,
     BeginDispatch, CheckAlias, StoreDispatch, StoreCut, DispatchEnds, Ask, AskSummary, LookUp,
     BuildSummary, KeepSummary, CloseSummary, cacheVars
<1> QED BY <1>1, <1>2, <1>3, <1>4, <1>5 DEF Next, vars, cacheVars

LEMMA TrueSinceStays ==
  ASSUME PastOK, [Next]_vars, NEW value, NEW first \in Int, NEW last \in Int, NEW later \in Int,
         last <= later, TrueSince(past, value, first, last)
  PROVE  TrueSince(past', value, first, later)
  BY PastGrows DEF TrueSince

(* A reader that does not move is still right, and so is the cache.          *)
LEMMA ReaderStays ==
  ASSUME CacheInv, [Next]_vars, NEW r \in Requesters, readers'[r] = readers[r]
  PROVE  ReaderOK(readers[r])'
<1> DEFINE reader == readers[r]
<1>0. /\ ReaderOK(reader) /\ PastOK /\ TTL \in Nat
      /\ clock \in Nat /\ clock' \in Nat /\ clock <= clock'
  BY PastGrows, ServingAssumption DEF CacheInv, PastOK
<1>1. DOMAIN reader = {"step", "now", "value", "at"} /\ reader.now \in 0 .. clock' /\ reader.at \in 0 .. clock'
  BY <1>0 DEF ReaderOK
<1>2. reader.step = "keep" => TrueSince(past', reader.value, reader.now, clock')
  BY <1>0, TrueSinceStays DEF ReaderOK
<1>3. reader.step = "answered" => TrueSince(past', reader.value, reader.now - TTL + 1, reader.at)
  BY <1>0, TrueSinceStays DEF ReaderOK
<1> HIDE DEF reader
<1>4. readers'[r] = reader
  BY DEF reader
<1> QED BY <1>1, <1>2, <1>3, <1>4 DEF ReaderOK

LEMMA CachedStays ==
  ASSUME CacheInv, [Next]_vars, UNCHANGED cached
  PROVE  CachedOK'
<1>0. /\ PastOK /\ TTL \in Nat /\ cached.expiry \in Nat
      /\ clock \in Nat /\ clock' \in Nat /\ clock <= clock'
  BY PastGrows, ServingAssumption DEF CacheInv, PastOK, CachedOK
<1>1. cached.expiry > 0 => TrueSince(past', cached.value, cached.expiry - TTL, clock')
  BY <1>0, TrueSinceStays DEF CacheInv, CachedOK
<1> QED BY <1>0, <1>1 DEF CachedOK

(* One reader moves on to a right state, and leaves the cache alone or       *)
(* right.                                                                    *)
LEMMA ReaderMoves ==
  ASSUME CacheInv, [Next]_vars, NEW r \in Requesters, NEW new, readers' = [readers EXCEPT ![r] = new],
         ReaderOK(readers[r])', CachedOK'
  PROVE  CacheInv'
<1>1. \A other \in Requesters \ {r} : readers'[other] = readers[other]
  BY DEF CacheInv
<1>2. \A other \in Requesters \ {r} : ReaderOK(readers[other])'
  BY <1>1, ReaderStays
<1>3. PastOK'
  BY PastGrows DEF CacheInv
<1> QED BY <1>2, <1>3 DEF CacheInv

LEMMA CacheNext ==
  ASSUME CacheInv, [Next]_vars
  PROVE  CacheInv'
<1>0. PastOK' /\ clock <= clock' /\ clock \in Nat /\ clock' \in Nat /\ TTL \in Nat \ {0}
      /\ DOMAIN readers = Requesters /\ PastOK
  BY PastGrows, ServingAssumption DEF CacheInv, PastOK
<1>1. CASE UNCHANGED <<cached, readers>>
  BY <1>0, <1>1, ReaderStays, CachedStays DEF CacheInv
<1>2. ASSUME NEW r \in Requesters, AskSummary(r) PROVE CacheInv'
  <2>1. readers' = [readers EXCEPT ![r] = [NoReader EXCEPT !.step = "look", !.now = clock]]
        /\ UNCHANGED <<cached, clock, past>>
    BY <1>2 DEF AskSummary
  <2>2. ReaderOK(readers[r])'
    BY <1>0, <2>1 DEF NoReader, ReaderOK
  <2> QED BY <2>1, <2>2, CachedStays, ReaderMoves
<1>3. ASSUME NEW r \in Requesters, LookUp(r) PROVE CacheInv'
  <2> DEFINE reader == readers[r]
             found  == [reader EXCEPT !.step = "answered", !.value = cached.value, !.at = clock]
             missed == [reader EXCEPT !.step = "build"]
  <2>1. UNCHANGED <<cached, clock, past>>
        /\ readers' = [readers EXCEPT ![r] = IF cached.expiry > reader.now THEN found ELSE missed]
    BY <1>3 DEF LookUp
  <2>2. ReaderOK(reader) /\ CachedOK
    BY DEF CacheInv
  <2>3. CASE cached.expiry > reader.now
    <3>1. readers'[r] = found
      BY <1>0, <2>1, <2>3
    <3>2. /\ DOMAIN found = {"step", "now", "value", "at"} /\ found.step = "answered"
          /\ found.now = reader.now /\ found.at = clock /\ found.value = cached.value
      BY <2>2 DEF ReaderOK
    <3>3. TrueSince(past, cached.value, reader.now - TTL + 1, clock)
      BY <1>0, <2>2, <2>3 DEF ReaderOK, CachedOK, TrueSince
    <3> HIDE DEF found
    <3>4. ReaderOK(readers[r])'
      BY <1>0, <2>1, <2>2, <3>1, <3>2, <3>3 DEF ReaderOK
    <3> QED BY <2>1, <3>4, CachedStays, ReaderMoves
  <2>4. CASE ~(cached.expiry > reader.now)
    <3>1. readers'[r] = missed
      BY <1>0, <2>1, <2>4
    <3>2. /\ DOMAIN missed = {"step", "now", "value", "at"} /\ missed.step = "build"
          /\ missed.now = reader.now /\ missed.at = reader.at
      BY <2>2 DEF ReaderOK
    <3> HIDE DEF missed
    <3>3. ReaderOK(readers[r])'
      BY <2>1, <2>2, <3>1, <3>2 DEF ReaderOK
    <3> QED BY <2>1, <3>3, CachedStays, ReaderMoves
  <2> QED BY <2>3, <2>4
<1>4. ASSUME NEW r \in Requesters, BuildSummary(r) PROVE CacheInv'
  <2> DEFINE reader == readers[r]
             new == [reader EXCEPT !.step = "keep", !.value = Summary(published)]
  <2>1. UNCHANGED <<cached, clock, past>> /\ readers' = [readers EXCEPT ![r] = new]
    BY <1>0, <1>4 DEF BuildSummary
  <2>2. ReaderOK(reader)
    BY DEF CacheInv
  <2>3. /\ DOMAIN new = {"step", "now", "value", "at"} /\ new.step = "keep"
        /\ new.now = reader.now /\ new.at = reader.at /\ new.value = Summary(published)
    BY <2>2 DEF ReaderOK
  <2>4. TrueSince(past, Summary(published), reader.now, clock)
    BY <1>0, <2>2 DEF PastOK, ReaderOK, TrueSince
  <2>5. readers'[r] = new
    BY <1>0, <2>1
  <2> HIDE DEF new
  <2>6. ReaderOK(readers[r])'
    BY <2>1, <2>2, <2>3, <2>4, <2>5 DEF ReaderOK
  <2> QED BY <2>1, <2>6, CachedStays, ReaderMoves
<1>5. ASSUME NEW r \in Requesters, KeepSummary(r) PROVE CacheInv'
  <2> DEFINE reader == readers[r]
             new == [reader EXCEPT !.step = "answered", !.at = clock]
  <2>1. /\ UNCHANGED <<clock, past>> /\ readers' = [readers EXCEPT ![r] = new]
        /\ cached' = [expiry |-> reader.now + TTL, value |-> reader.value] /\ reader.step = "keep"
    BY <1>0, <1>5 DEF KeepSummary, Expiry
  <2>2. ReaderOK(reader)
    BY DEF CacheInv
  <2>3. /\ DOMAIN new = {"step", "now", "value", "at"} /\ new.step = "answered"
        /\ new.now = reader.now /\ new.at = clock /\ new.value = reader.value
    BY <2>2 DEF ReaderOK
  <2>4. /\ reader.now \in Nat
        /\ TrueSince(past, reader.value, reader.now, clock)
        /\ TrueSince(past, reader.value, reader.now - TTL + 1, clock)
    BY <1>0, <2>1, <2>2 DEF ReaderOK, TrueSince
  <2>5. readers'[r] = new
    BY <1>0, <2>1
  <2> HIDE DEF new
  <2>6. ReaderOK(readers[r])'
    BY <1>0, <2>1, <2>2, <2>3, <2>4, <2>5 DEF ReaderOK
  <2>7. CachedOK'
    <3>1. cached'.expiry = reader.now + TTL /\ cached'.value = reader.value
      BY <2>1
    <3>2. cached'.expiry \in Nat /\ cached'.expiry - TTL = reader.now
      BY <1>0, <2>4, <3>1
    <3> QED BY <2>1, <2>4, <3>1, <3>2 DEF CachedOK
  <2> QED BY <2>1, <2>6, <2>7, ReaderMoves
<1>6. ASSUME NEW r \in Requesters, CloseSummary(r) PROVE CacheInv'
  <2>1. readers' = [readers EXCEPT ![r] = NoReader] /\ UNCHANGED <<cached, clock, past>>
    BY <1>6 DEF CloseSummary
  <2>2. ReaderOK(readers[r])'
    BY <1>0, <2>1 DEF NoReader, ReaderOK
  <2> QED BY <2>1, <2>2, CachedStays, ReaderMoves
<1>7. ASSUME Learn \/ NewHour \/ Tick PROVE CacheInv'
  BY <1>1, <1>7 DEF Learn, NewHour, Tick, cacheVars
<1>8. ASSUME Serve, ~Tick, \A r \in Requesters : ~Ask(r) PROVE UNCHANGED <<cached, readers>>
  BY <1>8 DEF Serve, LoadModel, Predict, Publish, PublishCut, PredictionEnds, ListCandidates,
     ReadCandidate, CloseRequest, BeginDispatch, CheckAlias, StoreDispatch, StoreCut,
     DispatchEnds, cacheVars
<1> QED BY <1>1, <1>2, <1>3, <1>4, <1>5, <1>6, <1>7, <1>8 DEF Next, Ask, vars, cacheVars

(* Whatever requests overlap, a summary is answered that was true less than    *)
(* TTL before the request began, or later (TTLCache.get_or_create).            *)
THEOREM CacheFresh == Spec => []CacheIsFresh
<1>1. Init => CacheInv
  <2>1. Init => CachedOK /\ DOMAIN readers = Requesters /\ clock = 0
                /\ past = [u \in {0} |-> {Summary(published)}]
                /\ \A r \in Requesters : readers[r] = NoReader
    BY DEF Init, ServingInit, CachedOK
  <2>2. Init => PastOK
    BY <2>1 DEF PastOK
  <2>3. Init => \A r \in Requesters : ReaderOK(readers[r])
    BY <2>1 DEF ReaderOK, NoReader
  <2> QED BY <2>1, <2>2, <2>3 DEF CacheInv
<1>2. CacheInv => CacheIsFresh
  <2> SUFFICES ASSUME CacheInv, NEW r \in Requesters, readers[r].step = "answered"
               PROVE  \E u \in Most(0, readers[r].now - TTL + 1) .. readers[r].at :
                        readers[r].value \in past[u]
    BY DEF CacheIsFresh
  <2>1. PICK u \in readers[r].now - TTL + 1 .. readers[r].at :
          u \in DOMAIN past /\ readers[r].value \in past[u]
    BY DEF CacheInv, ReaderOK, TrueSince
  <2> QED BY <2>1, ServingAssumption DEF CacheInv, PastOK, ReaderOK, Most
<1> QED BY <1>1, <1>2, CacheNext, PTL DEF Spec

-----------------------------------------------------------------------------
ReadingsOK ==
  /\ DOMAIN readings = Names
  /\ \A name \in Names : /\ FrameOK(readings[name])
                         /\ \A r \in DOMAIN readings[name] : DOMAIN readings[name][r] # {}

(* The windows of a training are those selected, for the comparison from    *)
(* its frame and for tuning from what precedes them.                         *)
WindowsOK(job) ==
  /\ FrameOK(job.frame)
  /\ IF job.step = "idle" THEN job.origins = {} /\ job.inner = {}
     ELSE /\ HasData(job.frame)
          /\ job.origins = Selected(NeedOf(job.name), job.frame, FinalWindows)
          /\ job.inner # {} =>
               /\ HasData(TuningFrame(job.frame, job.origins))
               /\ job.inner = Selected(NeedOf(job.name), TuningFrame(job.frame, job.origins), TuningWindows)

(* Whoever tunes has an estimator left to tune.                              *)
TuneOK(job) ==
  /\ job.step \in Steps /\ job.todo \subseteq Models /\ job.tuned \subseteq Models
  /\ job.step = "tune" => IF job.name = Global THEN job.todo # {} ELSE job.tuned # Models

LearnInv == /\ ReadingsOK
            /\ \A t \in Trainers : WindowsOK(jobs[t]) /\ TuneOK(jobs[t])

LEMMA NoJobLearns == WindowsOK(NoJob) /\ TuneOK(NoJob)
<1>1. DOMAIN (<<>>) = {} /\ IsFiniteSet({})
  BY FS_EmptySet
<1>2. NoJob.frame = <<>> /\ NoJob.origins = {} /\ NoJob.inner = {} /\ NoJob.step = "idle"
      /\ NoJob.todo = {} /\ NoJob.tuned = {}
  BY DEF NoJob
<1>3. FrameOK(<<>>)
  BY <1>1 DEF FrameOK
<1> QED BY <1>2, <1>3 DEF WindowsOK, TuneOK, Steps

LEMMA LoadedOK ==
  ASSUME ReadingsOK, NEW name \in Names
  PROVE  FrameOK(Loaded(name))
<1>1. FrameOK(readings[name])
  BY DEF ReadingsOK
<1>2. CASE name = Global
  BY <1>1, <1>2 DEF Loaded
<1>3. CASE name # Global
  <2> DEFINE kept == WeatherFeatures(WeatherHours)
             frame == Loaded(name)
  <2>1. frame = [r \in DOMAIN readings[name] |->
                   [h \in DOMAIN readings[name][r] \cap kept |-> readings[name][r][h]]]
    BY <1>3 DEF Loaded
  <2> HIDE DEF kept, frame
  <2>2. DOMAIN frame = DOMAIN readings[name]
        /\ \A r \in DOMAIN frame : DOMAIN frame[r] = DOMAIN readings[name][r] \cap kept
    BY <2>1
  <2>3. \A r \in DOMAIN frame : IsFiniteSet(DOMAIN readings[name][r] \cap kept)
    BY <1>1, <2>2, FS_Subset DEF FrameOK
  <2>4. FrameOK(frame)
    BY <1>1, <2>2, <2>3 DEF FrameOK
  <2> QED BY <2>4 DEF frame
<1> QED BY <1>2, <1>3

LEMMA LearnStep ==
  ASSUME TrainingInv, LearnInv, NEW t \in Trainers, UNCHANGED readings,
         \A u \in Trainers \ {t} : jobs'[u] = jobs[u],
         WindowsOK(jobs'[t]), TuneOK(jobs'[t])
  PROVE  LearnInv'
<1>1. ReadingsOK'
  BY DEF LearnInv, ReadingsOK
<1>2. \A u \in Trainers : WindowsOK(jobs'[u]) /\ TuneOK(jobs'[u])
  BY DEF LearnInv
<1> QED BY <1>1, <1>2 DEF LearnInv

LEMMA LearnEnded ==
  ASSUME TrainingInv, LearnInv, NEW t \in Trainers, UNCHANGED readings, jobs' = Abandoned(t)
  PROVE  LearnInv'
<1>1. jobs'[t] = NoJob /\ \A u \in Trainers \ {t} : jobs'[u] = jobs[u]
  BY DEF Abandoned, TrainingInv, JobsOK
<1> QED BY <1>1, NoJobLearns, LearnStep

LEMMA NewJobLearns ==
  ASSUME NEW name, NEW frame, NEW tune, Selectable(NeedOf(name), frame, FinalWindows)
  PROVE  LET job == NewJob(name, frame, tune)
         IN  /\ DOMAIN job = JobFields /\ HasData(frame)
             /\ job.name = name /\ job.todo = Models /\ job.tuned = {} /\ job.version = 0
             /\ job.frame = frame /\ job.inner = {}
      /\ job.origins = Selected(NeedOf(name), frame, FinalWindows)
<1>1. DOMAIN NoJob = JobFields /\ NoJob.tuned = {} /\ NoJob.inner = {} /\ NoJob.version = 0
  BY NoJobOK DEF NoJob
<1> DEFINE job == NewJob(name, frame, tune)
<1>2. /\ DOMAIN job = JobFields
      /\ job.name = name /\ job.todo = Models /\ job.tuned = {} /\ job.version = 0
      /\ job.frame = frame /\ job.inner = {}
      /\ job.origins = Selected(NeedOf(name), frame, FinalWindows)
  BY <1>1 DEF NewJob, JobFields
<1>3. HasData(frame)
  BY DEF Selectable
<1> QED BY <1>2, <1>3

LEMMA LearnKeeps ==
  ASSUME TrainingInv, LearnInv, NEW t \in Trainers, Train(t)
  PROVE  LearnInv'
<1> DEFINE job == jobs[t]
<1>0. /\ DOMAIN jobs = Trainers /\ DOMAIN job = JobFields /\ job.name \in Names
      /\ WindowsOK(job) /\ TuneOK(job) /\ ReadingsOK
      /\ Global \in Names /\ Targets \subseteq Names /\ Global \notin Targets /\ Models # {}
  BY TrainingAssumption DEF TrainingInv, JobsOK, JobOK, Names, LearnInv
<1>a. UNCHANGED readings
  BY DEF Train, BeginGlobal, BeginTarget, TuneGlobal, TuneTarget, EvaluateBaselines, EvaluateModel,
     RankAndFit, CreateVersion, AssignCandidate, AssignChampion, TrainingEnds
<1>b. CASE jobs' = Abandoned(t)
  BY <1>a, <1>b, LearnEnded
<1> DEFINE Moved(new) == jobs'[t] = new /\ \A u \in Trainers \ {t} : jobs'[u] = jobs[u]
<1>c. ASSUME NEW new, Moved(new), WindowsOK(new), TuneOK(new) PROVE LearnInv'
  BY <1>a, <1>c, LearnStep

(* A step that leaves frame and windows alone.                               *)
<1>d. ASSUME NEW new, Moved(new), TuneOK(new), job.step # "idle", new.step # "idle",
             new.name = job.name, new.frame = job.frame, new.origins = job.origins, new.inner = job.inner
      PROVE  LearnInv'
  <2>1. WindowsOK(new)
    BY <1>0, <1>d DEF WindowsOK
  <2> HIDE DEF Moved
  <2> QED BY <1>c, <1>d, <2>1
<1>1. CASE BeginGlobal(t) /\ jobs' # Abandoned(t)
  <2> DEFINE frame == Loaded(Global)
             need  == NeedOf(Global)
             older == TuningFrame(frame, Selected(need, frame, FinalWindows))
  <2>1. PICK tune \in BOOLEAN :
          /\ Selectable(need, frame, FinalWindows) /\ (tune => Selectable(need, older, TuningWindows))
          /\ jobs' = [jobs EXCEPT ![t] = [NewJob(Global, frame, tune) EXCEPT !.step = "baselines",
                        !.inner = IF tune THEN Selected(need, older, TuningWindows) ELSE {}]]
    BY <1>1 DEF BeginGlobal, Abandoned
  <2> DEFINE base == NewJob(Global, frame, tune)
             new  == [base EXCEPT !.step = "baselines",
                        !.inner = IF tune THEN Selected(need, older, TuningWindows) ELSE {}]
  <2>2. Moved(new)
    BY <1>0, <2>1
  <2>3. FrameOK(frame)
    BY <1>0, LoadedOK
  <2>4. /\ DOMAIN base = JobFields /\ HasData(frame)
        /\ base.name = Global /\ base.todo = Models /\ base.tuned = {}
        /\ base.frame = frame /\ base.origins = Selected(need, frame, FinalWindows) /\ base.inner = {}
    <3> HIDE DEF frame
    <3> QED BY <2>1, <2>3, NewJobLearns
  <2> HIDE DEF base
  <2>5. /\ new.step = "baselines" /\ new.name = Global /\ new.todo = Models /\ new.tuned = {}
        /\ new.frame = frame /\ new.origins = Selected(need, frame, FinalWindows)
        /\ new.inner = IF tune THEN Selected(need, older, TuningWindows) ELSE {}
    <3> HIDE DEF frame
    <3> QED BY <2>4 DEF JobFields
  <2>6. tune => HasData(older)
    BY <2>1 DEF Selectable
  <2> HIDE DEF new, Moved
  <2>7. WindowsOK(new)
    <3>1. older = TuningFrame(new.frame, new.origins)
      BY <2>5
    <3>2. need = NeedOf(new.name)
      BY <2>5
    <3> HIDE DEF frame, older, need
    <3> QED BY <2>3, <2>4, <2>5, <2>6, <3>1, <3>2 DEF WindowsOK
  <2>8. TuneOK(new)
    BY <2>5 DEF TuneOK, Steps
  <2> QED BY <1>c, <2>2, <2>7, <2>8
<1>2. CASE BeginTarget(t) /\ jobs' # Abandoned(t)
  <2>1. PICK name \in Targets, tune \in BOOLEAN :
          /\ Selectable(NeedOf(name), Loaded(name), FinalWindows)
          /\ jobs' = [jobs EXCEPT ![t] = [NewJob(name, Loaded(name), tune)
                        EXCEPT !.step = IF tune THEN "tune" ELSE "baselines"]]
    BY <1>2 DEF BeginTarget, Abandoned
  <2> DEFINE frame == Loaded(name)
             base == NewJob(name, frame, tune)
             new  == [base EXCEPT !.step = IF tune THEN "tune" ELSE "baselines"]
  <2>2. Moved(new)
    BY <1>0, <2>1
  <2>3. FrameOK(frame)
    BY <1>0, LoadedOK
  <2>4. /\ DOMAIN base = JobFields /\ HasData(frame)
        /\ base.name = name /\ base.todo = Models /\ base.tuned = {}
        /\ base.frame = frame /\ base.origins = Selected(NeedOf(name), frame, FinalWindows) /\ base.inner = {}
    <3> HIDE DEF frame
    <3> QED BY <2>1, <2>3, NewJobLearns DEF frame
  <2> HIDE DEF base, frame
  <2>5. /\ new.step \in {"tune", "baselines"} /\ new.name = name /\ new.todo = Models /\ new.tuned = {}
        /\ new.frame = frame /\ new.origins = Selected(NeedOf(name), frame, FinalWindows) /\ new.inner = {}
    BY <2>4 DEF JobFields
  <2> HIDE DEF new, Moved
  <2>7. WindowsOK(new)
    BY <2>3, <2>4, <2>5 DEF WindowsOK
  <2>8. TuneOK(new)
    BY <1>0, <2>1, <2>5 DEF TuneOK, Steps
  <2> QED BY <1>c, <2>2, <2>7, <2>8
<1>3. CASE TuneGlobal(t) /\ jobs' # Abandoned(t)
  <2> DEFINE new == [job EXCEPT !.tuned = @ \cup {Current(job.todo)}, !.step = "models"]
  <2>1. job.step = "tune" /\ job.name = Global /\ jobs' = [jobs EXCEPT ![t] = new]
    BY <1>3 DEF TuneGlobal, Abandoned
  <2>2. Moved(new)
    BY <1>0, <2>1
  <2>3. Current(job.todo) \in Models
    BY <1>0, <2>1 DEF TuneOK, Current
  <2>4. /\ new.step = "models" /\ new.todo = job.todo /\ new.tuned = job.tuned \cup {Current(job.todo)}
        /\ new.name = job.name
        /\ new.frame = job.frame /\ new.origins = job.origins /\ new.inner = job.inner
    BY <1>0 DEF JobFields
  <2> HIDE DEF new, Moved, job
  <2>5. TuneOK(new)
    BY <1>0, <2>3, <2>4 DEF TuneOK, Steps
  <2>6. job.step # "idle" /\ new.step # "idle"
    BY <2>1, <2>4 DEF job
  <2> QED BY <1>d, <2>2, <2>4, <2>5, <2>6
<1>4. CASE TuneTarget(t) /\ jobs' # Abandoned(t)
  <2> DEFINE older == TuningFrame(job.frame, job.origins)
             inner == Selected(NeedOf(job.name), older, TuningWindows)
             tuned == job.tuned \cup {Current(Models \ job.tuned)}
             new   == [job EXCEPT !.inner = inner, !.tuned = tuned,
                                  !.step = IF tuned = Models THEN "baselines" ELSE @]
  <2>1. /\ job.step = "tune" /\ job.name # Global /\ jobs' = [jobs EXCEPT ![t] = new]
        /\ Selectable(NeedOf(job.name), older, TuningWindows)
    BY <1>4 DEF TuneTarget, Abandoned
  <2>2. Moved(new)
    BY <1>0, <2>1
  <2>3. Current(Models \ job.tuned) \in Models
    BY <1>0, <2>1 DEF TuneOK, Current
  <2> HIDE DEF inner
  <2>4. /\ new.step = IF tuned = Models THEN "baselines" ELSE job.step
        /\ new.todo = job.todo /\ new.tuned = tuned /\ new.name = job.name
        /\ new.frame = job.frame /\ new.origins = job.origins /\ new.inner = inner
    <3> HIDE DEF tuned
    <3> QED BY <1>0 DEF JobFields
  <2>5. HasData(older)
    BY <2>1 DEF Selectable
  <2> HIDE DEF new, Moved
  <2>7. WindowsOK(new)
    <3>1. HasData(job.frame) /\ FrameOK(job.frame) /\ job.origins = Selected(NeedOf(job.name), job.frame, FinalWindows)
      BY <1>0, <2>1 DEF WindowsOK
    <3>2. new.step # "idle" /\ new.name = job.name /\ older = TuningFrame(new.frame, new.origins)
      BY <2>1, <2>4
    <3> HIDE DEF older
    <3> QED BY <2>4, <2>5, <3>1, <3>2 DEF WindowsOK, inner
  <2>8. TuneOK(new)
    BY <1>0, <2>1, <2>3, <2>4 DEF TuneOK, Steps
  <2> QED BY <1>c, <2>2, <2>7, <2>8
<1>5. CASE EvaluateBaselines(t) /\ jobs' # Abandoned(t)
  <2> DEFINE new == [job EXCEPT !.reference = Reference(job), !.step = "models"]
  <2>1. job.step = "baselines" /\ jobs' = [jobs EXCEPT ![t] = new]
    BY <1>5 DEF EvaluateBaselines, Abandoned
  <2>2. Moved(new)
    BY <1>0, <2>1
  <2>3. /\ new.step = "models" /\ new.todo = job.todo /\ new.tuned = job.tuned
        /\ new.name = job.name
        /\ new.frame = job.frame /\ new.origins = job.origins /\ new.inner = job.inner
    BY <1>0 DEF JobFields
  <2> HIDE DEF new, Moved
  <2>4. TuneOK(new)
    BY <1>0, <2>3 DEF TuneOK, Steps
  <2> QED BY <1>d, <2>1, <2>2, <2>3, <2>4
<1>6. CASE EvaluateModel(t) /\ jobs' # Abandoned(t)
  <2> DEFINE model == Current(job.todo)
  <2>1. job.step = "models" /\ job.todo # {} /\ model \in Models
    BY <1>0, <1>6 DEF EvaluateModel, TuneOK, Current
  <2>2. CASE model \notin job.tuned /\ jobs' = Advance(t, "tune")
    <3> DEFINE new == [job EXCEPT !.step = "tune"]
    <3>1. Moved(new)
      BY <1>0, <2>2 DEF Advance
    <3>2. /\ new.step = "tune" /\ new.todo = job.todo /\ new.tuned = job.tuned
          /\ new.name = job.name
        /\ new.frame = job.frame /\ new.origins = job.origins /\ new.inner = job.inner
      BY <1>0 DEF JobFields
    <3> HIDE DEF new, Moved, model
    <3>3. TuneOK(new)
      BY <1>0, <2>1, <2>2, <3>2 DEF TuneOK, Steps
    <3> QED BY <1>d, <2>1, <3>1, <3>2, <3>3
  <2>3. ASSUME NEW error, jobs' = [jobs EXCEPT ![t].errors = @ @@ (model :> error), ![t].todo = @ \ {model}]
        PROVE  LearnInv'
    <3> DEFINE new == [job EXCEPT !.errors = @ @@ (model :> error), !.todo = @ \ {model}]
    <3>1. Moved(new)
      BY <1>0, <2>3
    <3>2. /\ new.step = "models" /\ new.todo = job.todo \ {model} /\ new.tuned = job.tuned
          /\ new.name = job.name
          /\ new.frame = job.frame /\ new.origins = job.origins /\ new.inner = job.inner
      BY <1>0, <2>1 DEF JobFields
    <3> HIDE DEF new, Moved, model
    <3>3. TuneOK(new)
      BY <1>0, <3>2 DEF TuneOK, Steps
    <3> QED BY <1>d, <2>1, <3>1, <3>2, <3>3
  <2> QED BY <1>6, <2>2, <2>3 DEF EvaluateModel
<1>7. CASE RankAndFit(t)
  <2> DEFINE new == [job EXCEPT !.best = Leading(job), !.step = "register"]
  <2>1. job.step = "models" /\ Moved(new)
    BY <1>0, <1>7 DEF RankAndFit
  <2>2. /\ new.step = "register" /\ new.todo = job.todo /\ new.tuned = job.tuned
        /\ new.name = job.name
        /\ new.frame = job.frame /\ new.origins = job.origins /\ new.inner = job.inner
    BY <1>0 DEF JobFields
  <2> HIDE DEF new, Moved
  <2>3. TuneOK(new)
    BY <1>0, <2>2 DEF TuneOK, Steps
  <2> QED BY <1>d, <2>1, <2>2, <2>3
<1>8. CASE CreateVersion(t)
  <2> DEFINE new == [job EXCEPT !.version = Len(registry'[job.name]), !.step = "candidate"]
  <2>1. job.step = "register" /\ Moved(new)
    BY <1>0, <1>8 DEF CreateVersion
  <2>2. /\ new.step = "candidate" /\ new.todo = job.todo /\ new.tuned = job.tuned
        /\ new.name = job.name
        /\ new.frame = job.frame /\ new.origins = job.origins /\ new.inner = job.inner
    BY <1>0 DEF JobFields
  <2> HIDE DEF new, Moved
  <2>3. TuneOK(new)
    BY <1>0, <2>2 DEF TuneOK, Steps
  <2> QED BY <1>d, <2>1, <2>2, <2>3
<1>9. CASE AssignCandidate(t)
  <2> DEFINE new == [job EXCEPT !.step = "champion"]
  <2>1. job.step = "candidate" /\ Moved(new)
    BY <1>0, <1>9 DEF AssignCandidate, Advance
  <2>2. /\ new.step = "champion" /\ new.todo = job.todo /\ new.tuned = job.tuned
        /\ new.name = job.name
        /\ new.frame = job.frame /\ new.origins = job.origins /\ new.inner = job.inner
    BY <1>0 DEF JobFields
  <2> HIDE DEF new, Moved
  <2>3. TuneOK(new)
    BY <1>0, <2>2 DEF TuneOK, Steps
  <2> QED BY <1>d, <2>1, <2>2, <2>3
<1>10. CASE AssignChampion(t) \/ TrainingEnds(t)
  BY <1>b, <1>10 DEF AssignChampion, TrainingEnds
<1> QED BY <1>b, <1>1, <1>2, <1>3, <1>4, <1>5, <1>6, <1>7, <1>8, <1>9, <1>10 DEF Train

LEMMA LearnInit == Init => LearnInv
<1> SUFFICES ASSUME Init PROVE LearnInv
  OBVIOUS
<1>1. PICK start \in Starts : readings = start.readings
  BY DEF Init
<1>2. jobs = [t \in Trainers |-> NoJob]
  BY DEF Init
<1>3. ReadingsOK
  BY <1>1, StartsAssumption DEF ReadingsOK, FrameOK
<1> QED BY <1>2, <1>3, NoJobLearns DEF LearnInv

LEMMA ArriveKeeps ==
  ASSUME ReadingsOK, NEW value, Arrive(value)
  PROVE  ReadingsOK'
<1> DEFINE Grown(s) == Override(s, [h \in {1 + Max(DOMAIN s)} |-> value])
<1>1. ASSUME NEW s, HourSet(DOMAIN s) PROVE HourSet(DOMAIN Grown(s))
  <2>1. DOMAIN Grown(s) = DOMAIN s \cup {1 + Max(DOMAIN s)}
    BY DEF Override
  <2>2. Max(DOMAIN s) \in Int
    BY <1>1, Extremes DEF HourSet
  <2>3. IsFiniteSet(DOMAIN s \cup {1 + Max(DOMAIN s)})
    BY <1>1, FS_AddElement DEF HourSet
  <2> HIDE DEF Grown
  <2> QED BY <1>1, <2>1, <2>2, <2>3 DEF HourSet
<1>2. readings' = [name \in Names |-> [r \in DOMAIN readings[name] |-> Grown(readings[name][r])]]
  BY DEF Arrive
<1> HIDE DEF Grown
<1>3. \A name \in Names : \A r \in DOMAIN readings[name] : HourSet(DOMAIN readings[name][r])
  BY DEF ReadingsOK, FrameOK, HourSet
<1>4. /\ DOMAIN readings' = Names
      /\ \A name \in Names : /\ DOMAIN readings'[name] = DOMAIN readings[name]
                             /\ \A r \in DOMAIN readings[name] :
                                  readings'[name][r] = Grown(readings[name][r])
  BY <1>2
<1> QED BY <1>1, <1>3, <1>4 DEF ReadingsOK, FrameOK, HourSet

LEMMA LearnNext ==
  ASSUME TrainingInv, LearnInv, [Next]_vars
  PROVE  LearnInv'
<1>1. CASE UNCHANGED <<readings, jobs>>
  BY <1>1 DEF LearnInv, ReadingsOK
<1>2. CASE \E t \in Trainers : Train(t)
  BY <1>2, LearnKeeps
<1>3. CASE NewHour
  <2>1. ReadingsOK' /\ UNCHANGED jobs
    BY <1>3, ArriveKeeps DEF NewHour, Arrive, LearnInv
  <2> QED BY <2>1 DEF LearnInv
<1>4. CASE UNCHANGED trainingVars
  BY <1>1, <1>4 DEF trainingVars
<1>5. Serve => UNCHANGED trainingVars
  BY ServeLeavesTraining
<1> QED BY <1>2, <1>3, <1>4, <1>5 DEF Next, Learn, vars

(* What run_target_training tunes on lies behind what it measures on: every  *)
(* hour of the tuning frame and every hour of the inner windows comes before *)
(* each hour of the final windows, whatever the tables hold when the frame   *)
(* is built.                                                                 *)
THEOREM TunedBehind == Spec => []TuningStaysBehind
<1>1. LearnInv => TuningStaysBehind
  <2> SUFFICES ASSUME LearnInv, NEW t \in Trainers, jobs[t].inner # {},
                      NEW r \in DOMAIN jobs[t].frame,
                      NEW h \in (DOMAIN TuningFrame(jobs[t].frame, jobs[t].origins)[r])
                                  \cup Measured(jobs[t].inner),
                      NEW final \in Measured(jobs[t].origins)
               PROVE  h < final
    BY DEF TuningStaysBehind
  <2>1. WindowsOK(jobs[t]) /\ jobs[t].step # "idle"
    BY DEF LearnInv, WindowsOK
  <2>2. FinalWindows \in Nat /\ TuningWindows \in Nat
    BY TrainingAssumption
  <2>3. NeedOf(jobs[t].name) \in Nat
    BY NeedKnown
  <2> QED BY <2>1, <2>2, <2>3, TuningBehind DEF WindowsOK
<1>2. Init => TrainingInv /\ LearnInv
  BY TrainingInit, LearnInit
<1>3. TrainingInv /\ LearnInv /\ [Next]_vars => (TrainingInv /\ LearnInv)'
  BY TrainingNext, LearnNext
<1> QED BY <1>1, <1>2, <1>3, PTL DEF Spec

(* Whatever gaps and absent values a frame has and whatever lags and windows *)
(* are configured, a row that a model is fitted to has the features that     *)
(* prediction computes for its hour, value by value.  Prediction refuses the *)
(* hour only of the global model, for an absent value that no feature reads. *)
THEOREM ServedAsTrained == Spec => []TrainServeAgree
<1>1. LearnInv => TrainServeAgree
  <2> SUFFICES ASSUME LearnInv, NEW t \in Trainers, NEW r \in DOMAIN jobs[t].frame,
                      NEW row \in TrainingRows(SpecificationOf(jobs[t].name), jobs[t].frame[r])
               PROVE  LET spec == SpecificationOf(jobs[t].name)
                          s    == jobs[t].frame[r]
                      IN  /\ Context(spec, row.hour) \subseteq DOMAIN s
                          /\ row.x = FutureRow(spec, s, row.hour)
                          /\ ~Servable(spec, s, row.hour) =>
                               /\ jobs[t].name = Global
                               /\ \A h \in Context(spec, row.hour) :
                                    s[h] = NaN => row.hour - h \notin Read(spec)
    BY DEF TrainServeAgree
  <2> DEFINE spec == SpecificationOf(jobs[t].name)
             s    == jobs[t].frame[r]
  <2>1. DOMAIN s \subseteq Int /\ IsFiniteSet(DOMAIN s)
    BY DEF LearnInv, WindowsOK, FrameOK
  <2>2. spec \in Specifications
    BY NeedKnown
  <2>3. jobs[t].name # Global => spec.rows = "observed"
    BY DEF SpecificationOf, TargetFeatures
  <2> HIDE DEF spec, s
  <2>4. row \in TrainingRows(spec, s)
    BY DEF spec, s
  <2>5. /\ Context(spec, row.hour) \subseteq DOMAIN s
        /\ row.x = FutureRow(spec, s, row.hour)
        /\ spec.rows = "observed" => Servable(spec, s, row.hour)
        /\ \A h \in Context(spec, row.hour) : s[h] = NaN => row.hour - h \notin Read(spec)
    BY <2>1, <2>2, <2>4, RowsServable
  <2> QED BY <2>3, <2>5 DEF spec, s
<1>2. Init => TrainingInv /\ LearnInv
  BY TrainingInit, LearnInit
<1>3. TrainingInv /\ LearnInv /\ [Next]_vars => (TrainingInv /\ LearnInv)'
  BY TrainingNext, LearnNext
<1> QED BY <1>1, <1>2, <1>3, PTL DEF Spec

(* The windows that select_gap_aware_windows accepts reach back far enough:  *)
(* from the origin of each, final or inner, every horizon of a whole frame   *)
(* can be forecast and each baseline finds the hours it repeats.             *)
THEOREM WindowsSuffice == Spec => []SelectionSuffices
<1>1. LearnInv => SelectionSuffices
  <2> SUFFICES ASSUME LearnInv, NEW t \in Trainers, Whole(jobs[t].frame),
                      NEW o \in jobs[t].origins \cup jobs[t].inner
               PROVE  /\ Forecastable(SpecificationOf(jobs[t].name), Cut(jobs[t].frame, o))
                      /\ \A r \in DOMAIN jobs[t].frame, name \in Baselines :
                           Sources(name, Until(jobs[t].frame[r], o)) \subseteq DOMAIN Until(jobs[t].frame[r], o)
    BY DEF SelectionSuffices
  <2> DEFINE frame == jobs[t].frame
             older == TuningFrame(frame, jobs[t].origins)
             spec  == SpecificationOf(jobs[t].name)
             need  == Required(spec)
  <2>0. spec \in Specifications /\ need \in Nat
    BY NeedKnown DEF NeedOf
  <2>1. /\ FrameOK(frame) /\ HasData(frame) /\ jobs[t].origins = Selected(need, frame, FinalWindows)
        /\ jobs[t].inner # {} => HasData(older) /\ jobs[t].inner = Selected(need, older, TuningWindows)
    BY DEF LearnInv, WindowsOK, NeedOf
  <2>2. FinalWindows \in Nat /\ TuningWindows \in Nat
    BY TrainingAssumption
  <2>3. IsCut(older, frame, Min(Measured(jobs[t].origins)) - 1)
    BY <2>1, CutOK DEF TuningFrame
  <2>4. \A r \in DOMAIN frame : Absent(frame[r]) = {}
    BY DEF Whole
  <2> HIDE DEF frame, older, spec, need
  <2>5. o \in Int /\ \A r \in DOMAIN frame : History(need, o) \subseteq DOMAIN frame[r]
    <3>1. CASE o \in jobs[t].origins
      BY <2>0, <2>1, <2>2, <3>1, SelectedAccepted DEF Accepted
    <3>2. CASE o \in jobs[t].inner
      <4>1. FrameOK(older) /\ HasData(older) /\ o \in Selected(need, older, TuningWindows)
        BY <2>1, <2>3, <3>2 DEF IsCut
      <4>2. o \in Int /\ \A r \in DOMAIN older : History(need, o) \subseteq DOMAIN older[r]
        BY <2>0, <2>2, <4>1, SelectedAccepted DEF Accepted
      <4> QED BY <2>3, <4>2 DEF IsCut
    <3> QED BY <3>1, <3>2
  <2>6. DOMAIN frame # {}
    BY <2>1 DEF HasData
  <2>7. /\ Forecastable(spec, Cut(frame, o))
        /\ \A r \in DOMAIN frame, name \in Baselines :
             Sources(name, Until(frame[r], o)) \subseteq DOMAIN Until(frame[r], o)
    BY <2>0, <2>1, <2>4, <2>5, <2>6, AcceptedSuffices DEF need
  <2> QED BY <2>7 DEF frame, spec
<1>2. Init => TrainingInv /\ LearnInv
  BY TrainingInit, LearnInit
<1>3. TrainingInv /\ LearnInv /\ [Next]_vars => (TrainingInv /\ LearnInv)'
  BY TrainingNext, LearnNext
<1> QED BY <1>1, <1>2, <1>3, PTL DEF Spec

-----------------------------------------------------------------------------
(* Aliases, crowns and jobs name versions that exist.                        *)
NumbersInv ==
  /\ \A t \in Trainers : jobs[t].version \in 0 .. Len(registry[jobs[t].name])
  /\ \A name \in Names : /\ aliases[name].candidate \in 0 .. Len(registry[name])
                         /\ crowned[name] \subseteq DOMAIN registry[name]

LEMMA VersionIsPositive ==
  ASSUME TrainingInv, NEW name \in Names
  PROVE  Len(registry[name]) \in Nat /\ DOMAIN registry[name] = 1 .. Len(registry[name])
  BY Appended DEF TrainingInv, RegistryOK

LEMMA NewJobVersion ==
  ASSUME NEW name, NEW frame, NEW tune
  PROVE  LET job == NewJob(name, frame, tune)
         IN  DOMAIN job = JobFields /\ job.name = name /\ job.version = 0
<1>1. DOMAIN NoJob = JobFields /\ NoJob.version = 0
  BY NoJobOK DEF NoJob
<1> QED BY <1>1 DEF NewJob, JobFields

(* Who does not create a version has the one it had, or none.                *)
LEMMA VersionsStay ==
  ASSUME TrainingInv, NEW t \in Trainers, Train(t), ~CreateVersion(t)
  PROVE  /\ UNCHANGED registry
         /\ \A u \in Trainers : \/ jobs'[u].version = 0 /\ jobs'[u].name \in Names
                                \/ jobs'[u].version = jobs[u].version /\ jobs'[u].name = jobs[u].name
<1> DEFINE job == jobs[t]
           Same(new) == \/ new.version = 0 /\ new.name \in Names
                        \/ new.version = job.version /\ new.name = job.name
           Moved(new) == jobs'[t] = new /\ \A u \in Trainers \ {t} : jobs'[u] = jobs[u]
<1>0. DOMAIN jobs = Trainers /\ DOMAIN job = JobFields /\ Global \in Names /\ Targets \subseteq Names
  BY DEF TrainingInv, JobsOK, JobOK, Names
<1>1. UNCHANGED registry
  BY DEF Train, BeginGlobal, BeginTarget, TuneGlobal, TuneTarget, EvaluateBaselines, EvaluateModel,
     RankAndFit, AssignCandidate, AssignChampion, TrainingEnds
<1>2. ASSUME NEW new, Moved(new), Same(new)
      PROVE  \A u \in Trainers : \/ jobs'[u].version = 0 /\ jobs'[u].name \in Names
                                 \/ jobs'[u].version = jobs[u].version /\ jobs'[u].name = jobs[u].name
  BY <1>2
<1>3. CASE jobs' = Abandoned(t)
  <2>1. Moved(NoJob)
    BY <1>0, <1>3 DEF Abandoned
  <2>2. Same(NoJob)
    BY <1>0 DEF NoJob
  <2> HIDE DEF Moved, Same
  <2> QED BY <1>1, <1>2, <2>1, <2>2
<1>4. CASE BeginGlobal(t) /\ jobs' # Abandoned(t)
  <2>1. PICK tune, inner :
          jobs' = [jobs EXCEPT ![t] = [NewJob(Global, Loaded(Global), tune) EXCEPT !.step = "baselines", !.inner = inner]]
    BY <1>4 DEF BeginGlobal, Abandoned
  <2> DEFINE base == NewJob(Global, Loaded(Global), tune)
             new == [base EXCEPT !.step = "baselines", !.inner = inner]
  <2>2. Moved(new)
    BY <1>0, <2>1
  <2>3. DOMAIN base = JobFields /\ base.name = Global /\ base.version = 0
    BY NewJobVersion
  <2> HIDE DEF base
  <2>4. Same(new)
    BY <1>0, <2>3 DEF JobFields
  <2> HIDE DEF Moved, Same, new
  <2> QED BY <1>1, <1>2, <2>2, <2>4
<1>5. CASE BeginTarget(t) /\ jobs' # Abandoned(t)
  <2>1. PICK name \in Targets, tune \in BOOLEAN :
          jobs' = [jobs EXCEPT ![t] = [NewJob(name, Loaded(name), tune)
                     EXCEPT !.step = IF tune THEN "tune" ELSE "baselines"]]
    BY <1>5 DEF BeginTarget, Abandoned
  <2> DEFINE base == NewJob(name, Loaded(name), tune)
             new == [base EXCEPT !.step = IF tune THEN "tune" ELSE "baselines"]
  <2>2. Moved(new)
    BY <1>0, <2>1
  <2>3. DOMAIN base = JobFields /\ base.name = name /\ base.version = 0
    BY NewJobVersion
  <2> HIDE DEF base
  <2>4. Same(new)
    BY <1>0, <2>3 DEF JobFields
  <2> HIDE DEF Moved, Same, new
  <2> QED BY <1>1, <1>2, <2>2, <2>4
<1>6. CASE TuneGlobal(t) /\ jobs' # Abandoned(t)
  <2>1. PICK tuned, step :
          jobs' = [jobs EXCEPT ![t] = [job EXCEPT !.tuned = tuned, !.step = step]]
    BY <1>6 DEF TuneGlobal, Abandoned
  <2> DEFINE new == [job EXCEPT !.tuned = tuned, !.step = step]
  <2>2. Moved(new)
    BY <1>0, <2>1
  <2>3. Same(new)
    BY <1>0 DEF JobFields
  <2> HIDE DEF Moved, Same, new
  <2> QED BY <1>1, <1>2, <2>2, <2>3
<1>7. CASE TuneTarget(t) /\ jobs' # Abandoned(t)
  <2>1. PICK inner, tuned, step :
          jobs' = [jobs EXCEPT ![t] = [job EXCEPT !.inner = inner, !.tuned = tuned, !.step = step]]
    BY <1>7 DEF TuneTarget, Abandoned
  <2> DEFINE new == [job EXCEPT !.inner = inner, !.tuned = tuned, !.step = step]
  <2>2. Moved(new)
    BY <1>0, <2>1
  <2>3. Same(new)
    BY <1>0 DEF JobFields
  <2> HIDE DEF Moved, Same, new
  <2> QED BY <1>1, <1>2, <2>2, <2>3
<1>8. CASE EvaluateBaselines(t) /\ jobs' # Abandoned(t)
  <2>1. PICK reference, step :
          jobs' = [jobs EXCEPT ![t] = [job EXCEPT !.reference = reference, !.step = step]]
    BY <1>8 DEF EvaluateBaselines, Abandoned
  <2> DEFINE new == [job EXCEPT !.reference = reference, !.step = step]
  <2>2. Moved(new)
    BY <1>0, <2>1
  <2>3. Same(new)
    BY <1>0 DEF JobFields
  <2> HIDE DEF Moved, Same, new
  <2> QED BY <1>1, <1>2, <2>2, <2>3
<1>9. CASE EvaluateModel(t) /\ jobs' # Abandoned(t)
  <2>1. PICK errors, todo, step :
          jobs' = [jobs EXCEPT ![t].errors = errors, ![t].todo = todo] \/ jobs' = [jobs EXCEPT ![t].step = step]
    BY <1>9, Zenon DEF EvaluateModel, Advance
  <2> DEFINE new == IF jobs' = [jobs EXCEPT ![t].step = step] THEN [job EXCEPT !.step = step]
                    ELSE [job EXCEPT !.errors = errors, !.todo = todo]
  <2>2. Moved(new)
    BY <1>0, <2>1
  <2>3. Same(new)
    BY <1>0 DEF JobFields
  <2> HIDE DEF Moved, Same, new
  <2> QED BY <1>1, <1>2, <2>2, <2>3
<1>10. CASE RankAndFit(t)
  BY <1>0, <1>10 DEF RankAndFit, JobFields
<1>11. CASE AssignCandidate(t)
  BY <1>0, <1>11 DEF AssignCandidate, Advance, JobFields
<1> QED
  BY <1>1, <1>3, <1>4, <1>5, <1>6, <1>7, <1>8, <1>9, <1>10, <1>11 DEF Train, AssignChampion, TrainingEnds

LEMMA NumbersKept ==
  ASSUME TrainingInv, NumbersInv, TrainingInv', NEW t \in Trainers, Train(t)
  PROVE  NumbersInv'
<1> DEFINE job == jobs[t]
<1>0. /\ DOMAIN jobs = Trainers /\ DOMAIN job = JobFields /\ job.name \in Names
      /\ DOMAIN registry = Names /\ DOMAIN aliases = Names /\ DOMAIN crowned = Names
      /\ \A name \in Names : DOMAIN aliases[name] = {"candidate", "champion"}
      /\ \A u \in Trainers : jobs[u].name \in Names
  BY DEF TrainingInv, JobsOK, JobOK, RegistryOK, CrownsOK
<1>a. \A name \in Names : Len(registry[name]) \in Nat /\ DOMAIN registry[name] = 1 .. Len(registry[name])
  BY VersionIsPositive
<1>1. CASE CreateVersion(t)
  <2> DEFINE old == registry[job.name]
             new == Append(old, Registered(job))
  <2>1. /\ registry' = [registry EXCEPT ![job.name] = new]
        /\ jobs' = [jobs EXCEPT ![t].version = Len(registry'[job.name]), ![t].step = "candidate"]
        /\ UNCHANGED <<aliases, crowned>>
    BY <1>1 DEF CreateVersion
  <2>2. Len(new) = Len(old) + 1 /\ DOMAIN new = 1 .. Len(old) + 1 /\ Len(old) \in Nat
    BY <1>0, Appended DEF TrainingInv, RegistryOK
  <2>3. registry'[job.name] = new /\ \A name \in Names \ {job.name} : registry'[name] = registry[name]
    BY <1>0, <2>1
  <2>4. jobs'[t].version = Len(new) /\ jobs'[t].name = job.name
        /\ \A u \in Trainers \ {t} : jobs'[u] = jobs[u]
    BY <1>0, <2>1, <2>3 DEF JobFields
  <2>5. \A name \in Names : /\ Len(registry'[name]) \in Nat /\ Len(registry[name]) <= Len(registry'[name])
                            /\ DOMAIN registry[name] \subseteq DOMAIN registry'[name]
    <3>1. \A name \in Names \ {job.name} : Len(registry'[name]) = Len(registry[name])
                                           /\ DOMAIN registry'[name] = DOMAIN registry[name]
      BY <2>3
    <3>2. Len(registry'[job.name]) = Len(old) + 1 /\ DOMAIN registry'[job.name] = 1 .. Len(old) + 1
      BY <2>2, <2>3
    <3> HIDE DEF new
    <3> QED BY <1>a, <3>1, <3>2
  <2> HIDE DEF new
  <2>6. \A u \in Trainers : jobs'[u].version \in 0 .. Len(registry'[jobs'[u].name])
    <3>1. jobs'[t].version \in 0 .. Len(registry'[jobs'[t].name])
      BY <2>2, <2>3, <2>4
    <3>2. \A u \in Trainers \ {t} : jobs'[u].version \in 0 .. Len(registry'[jobs'[u].name])
      BY <1>0, <2>4, <2>5, <1>a DEF NumbersInv
    <3> QED BY <3>1, <3>2
  <2>7. \A name \in Names : /\ aliases'[name].candidate \in 0 .. Len(registry'[name])
                            /\ crowned'[name] \subseteq DOMAIN registry'[name]
    BY <1>a, <2>1, <2>5 DEF NumbersInv
  <2> QED BY <2>6, <2>7 DEF NumbersInv
<1>2. CASE ~CreateVersion(t)
  <2>1. /\ UNCHANGED registry
        /\ \A u \in Trainers : \/ jobs'[u].version = 0 /\ jobs'[u].name \in Names
                               \/ jobs'[u].version = jobs[u].version /\ jobs'[u].name = jobs[u].name
    BY <1>2, VersionsStay
  <2>2. \A u \in Trainers : jobs'[u].version \in 0 .. Len(registry'[jobs'[u].name])
    BY <1>a, <2>1 DEF NumbersInv
  <2>3. job.step \in {"candidate", "champion"} => job.version \in DOMAIN registry[job.name]
    BY DEF TrainingInv, JobsOK, JobOK
  <2>4. CASE AssignCandidate(t)
    <3>1. \A name \in Names : /\ aliases'[name].candidate \in {aliases[name].candidate} \cup
                                    (IF name = job.name THEN {job.version} ELSE {})
                              /\ crowned'[name] = crowned[name]
      BY <1>0, <2>4 DEF AssignCandidate
    <3>2. job.version \in 0 .. Len(registry[job.name])
      BY DEF NumbersInv
    <3> QED BY <2>1, <2>2, <3>1, <3>2 DEF NumbersInv
  <2>5. CASE AssignChampion(t)
    <3>1. /\ \A name \in Names : aliases'[name].candidate = aliases[name].candidate
          /\ \A name \in Names : crowned'[name] \subseteq crowned[name] \cup
                                    (IF name = job.name THEN {job.version} ELSE {})
      BY <1>0, <2>5 DEF AssignChampion
    <3>2. job.version \in DOMAIN registry[job.name]
      BY <2>3, <2>5 DEF AssignChampion
    <3> QED BY <2>1, <2>2, <3>1, <3>2 DEF NumbersInv
  <2>6. CASE ~AssignCandidate(t) /\ ~AssignChampion(t)
    <3>1. UNCHANGED <<aliases, crowned>>
      BY <1>2, <2>6 DEF Train, BeginGlobal, BeginTarget, TuneGlobal, TuneTarget, EvaluateBaselines,
         EvaluateModel, RankAndFit, TrainingEnds
    <3> QED BY <2>1, <2>2, <3>1 DEF NumbersInv
  <2> QED BY <2>4, <2>5, <2>6
<1> QED BY <1>1, <1>2

LEMMA NumbersInit == Init => NumbersInv
<1> SUFFICES ASSUME Init PROVE NumbersInv
  OBVIOUS
<1>1. PICK start \in Starts : registry = start.registry /\ aliases = start.aliases
  BY DEF Init
<1>2. crowned = [name \in Names |-> {aliases[name].champion} \ {0}] /\ jobs = [t \in Trainers |-> NoJob]
  BY DEF Init
<1>3. \A name \in Names : Len(registry[name]) \in Nat /\ DOMAIN registry[name] = 1 .. Len(registry[name])
  BY TrainingInit, VersionIsPositive
<1>4. \A name \in Names : /\ aliases[name].candidate \in 0 .. Len(registry[name])
                          /\ crowned[name] \subseteq DOMAIN registry[name]
  BY <1>1, <1>2, <1>3, StartsAssumption
<1>5. \A t \in Trainers : jobs[t].version = 0 /\ jobs[t].name \in Names
  BY <1>2 DEF NoJob, Names
<1> QED BY <1>3, <1>4, <1>5 DEF NumbersInv

LEMMA NumbersNext ==
  ASSUME TrainingInv, NumbersInv, [Next]_vars
  PROVE  NumbersInv'
<1>1. CASE UNCHANGED <<jobs, registry, aliases, crowned>>
  BY <1>1 DEF NumbersInv
<1>2. CASE \E t \in Trainers : Train(t)
  BY <1>2, NumbersKept, TrainingNext
<1>3. CASE NewHour
  BY <1>1, <1>3 DEF NewHour, Arrive
<1>4. CASE UNCHANGED trainingVars
  BY <1>1, <1>4 DEF trainingVars
<1>5. Serve => UNCHANGED trainingVars
  BY ServeLeavesTraining
<1> QED BY <1>2, <1>3, <1>4, <1>5 DEF Next, Learn, vars

LEMMA TrainingTyped == TrainingInv /\ LearnInv /\ NumbersInv => TrainingTypeOK
<1> SUFFICES ASSUME TrainingInv, LearnInv, NumbersInv PROVE TrainingTypeOK
  OBVIOUS
<1>1. \A t \in Trainers : /\ jobs[t].step \in Steps /\ jobs[t].name \in Names
                          /\ jobs[t].todo \cup jobs[t].tuned \subseteq Models
  BY DEF LearnInv, TuneOK, TrainingInv, JobsOK, JobOK
<1>2. \A name \in Names : aliases[name].champion \in crowned[name] \cup {0}
  BY DEF TrainingInv, CrownsOK
<1> QED BY <1>1, <1>2 DEF NumbersInv, TrainingTypeOK

-----------------------------------------------------------------------------
(* A row is of an hour after its origin, and of a version that exists.       *)
KeyOK(key) ==
  /\ key[1] \in Names /\ key[5] \in DOMAIN registry[key[1]]
  /\ key[3] \in Int /\ key[4] \in Int /\ key[4] > key[3]

ServingInv ==
  /\ IsFiniteSet(DOMAIN published) /\ \A key \in DOMAIN published : KeyOK(key)
  /\ prediction.step \in {"idle", "loaded", "predicted"}
  /\ prediction.step # "idle" =>
       /\ prediction.name \in Names /\ prediction.region \in DOMAIN readings[prediction.name]
       /\ prediction.version \in DOMAIN registry[prediction.name]
  /\ prediction.step = "predicted" =>
       IsFiniteSet(DOMAIN prediction.rows) /\ \A key \in DOMAIN prediction.rows : KeyOK(key)
  /\ clock \in 0 .. MaxClock /\ faults \in 0 .. MaxFaults

(* Regions and versions are never taken away.                                *)
LEMMA NothingForgotten ==
  ASSUME TrainingInv, [Next]_vars
  PROVE  \A name \in Names : /\ DOMAIN readings[name] \subseteq DOMAIN readings'[name]
                             /\ DOMAIN registry[name] \subseteq DOMAIN registry'[name]
<1>1. ASSUME NEW t \in Trainers, Train(t)
      PROVE  \A name \in Names : /\ DOMAIN readings[name] \subseteq DOMAIN readings'[name]
                                 /\ DOMAIN registry[name] \subseteq DOMAIN registry'[name]
  <2>1. UNCHANGED readings
    BY <1>1 DEF Train, BeginGlobal, BeginTarget, TuneGlobal, TuneTarget, EvaluateBaselines, EvaluateModel,
       RankAndFit, CreateVersion, AssignCandidate, AssignChampion, TrainingEnds
  <2>2. CASE ~CreateVersion(t)
    BY <1>1, <2>1, <2>2, VersionsStay
  <2>3. CASE CreateVersion(t)
    <3> DEFINE name == jobs[t].name
    <3>1. name \in Names /\ DOMAIN registry = Names /\ IsSequence(registry[name])
      BY DEF TrainingInv, JobsOK, JobOK, RegistryOK
    <3>2. registry' = [registry EXCEPT ![name] = Append(registry[name], Registered(jobs[t]))]
      BY <2>3 DEF CreateVersion
    <3> HIDE DEF name
    <3>3. DOMAIN registry[name] = 1 .. Len(registry[name]) /\ Len(registry[name]) \in Nat
          /\ DOMAIN Append(registry[name], Registered(jobs[t])) = 1 .. Len(registry[name]) + 1
      BY <3>1, Appended
    <3> QED BY <2>1, <3>1, <3>2, <3>3
  <2> QED BY <2>2, <2>3
<1>2. CASE NewHour
  BY <1>2 DEF NewHour, Arrive
<1>3. CASE UNCHANGED trainingVars
  BY <1>3 DEF trainingVars
<1> QED BY <1>1, <1>2, <1>3, ServeLeavesTraining DEF Next, Learn, vars

(* A forecast is of hours after the last one observed.                       *)
LEMMA ForecastRows ==
  ASSUME TrainingInv, NEW p, p.name \in Names, p.version \in DOMAIN registry[p.name],
         NEW s, DOMAIN s \subseteq Int, IsFiniteSet(DOMAIN s), NEW region,
         Forecastable(SpecificationOf(p.name), [r \in {region} |-> s]), NEW n \in Nat
  PROVE  /\ IsFiniteSet(DOMAIN Forecast(p, s, n))
         /\ \A key \in DOMAIN Forecast(p, s, n) : KeyOK(key)
<1> DEFINE frame  == [r \in {region} |-> s]
           spec   == SpecificationOf(p.name)
           asked  == {r \in DOMAIN frame : DOMAIN Kept(spec, frame[r]) # {}}
           ends   == {Origin(spec, frame[r]) : r \in asked}
           origin == Origin(spec, s)
           hours  == origin + 1 .. origin + n
           keys   == {<<p.name, p.region, origin, h, p.version>> : h \in hours}
<1>1. Cardinality(ends) = 1
  BY DEF Forecastable
<1>2. ends # {}
  <2> HIDE DEF ends
  <2> QED BY <1>1, FS_EmptySet
<1>3. PICK r \in asked : TRUE
  BY <1>2
<1>4. DOMAIN Kept(spec, s) # {}
  BY <1>3
<1>5. HourSet(DOMAIN Kept(spec, s))
  <2>1. DOMAIN Kept(spec, s) \subseteq DOMAIN s
    BY DEF Kept, Present
  <2> QED BY <1>4, <2>1, FS_Subset DEF HourSet
<1>6. origin \in Int
  BY <1>5, Extremes DEF HourSet, Origin
<1>7. DOMAIN Forecast(p, s, n) = keys
  BY DEF Forecast
<1> HIDE DEF origin
<1>8. IsFiniteSet(keys)
  <2> DEFINE f == [h \in hours |-> <<p.name, p.region, origin, h, p.version>>]
  <2>1. IsFiniteSet(hours)
    <3>1. origin + 1 \in Int /\ origin + n \in Int
      BY <1>6
    <3> QED BY <3>1, FS_Interval
  <2>2. f \in [hours -> keys] /\ \A y \in keys : \E h \in hours : f[h] = y
    OBVIOUS
  <2> HIDE DEF f, keys, hours
  <2> QED BY <2>1, <2>2, FiniteImage
<1>9. \A key \in keys : KeyOK(key)
  BY <1>6 DEF KeyOK
<1> QED BY <1>7, <1>8, <1>9

LEMMA ServingInitOK == Init => ServingInv
<1> SUFFICES ASSUME Init PROVE ServingInv
  OBVIOUS
<1>1. PICK start \in Starts : registry = start.registry /\ published = start.published
  BY DEF Init
<1>2. IsFiniteSet(DOMAIN published) /\ \A key \in DOMAIN published : KeyOK(key)
  BY <1>1, StartsAssumption DEF KeyOK
<1>3. prediction = NoPrediction /\ clock = 0 /\ faults = 0
  BY DEF Init, ServingInit
<1> QED BY <1>2, <1>3, NoPredictionOK, ServingAssumption DEF ServingInv

LEMMA ServingNext ==
  ASSUME TrainingInv, LearnInv, RowsInv, ServingInv, [Next]_vars
  PROVE  ServingInv'
<1> DEFINE RowsOK(rows) == IsFiniteSet(DOMAIN rows) /\ \A key \in DOMAIN rows : KeyOK(key)
           LoadedOne(p) == /\ p.name \in Names /\ p.region \in DOMAIN readings[p.name]
                           /\ p.version \in DOMAIN registry[p.name]
<1>0. \A name \in Names : /\ DOMAIN readings[name] \subseteq DOMAIN readings'[name]
                          /\ DOMAIN registry[name] \subseteq DOMAIN registry'[name]
  BY NothingForgotten
<1>a. \A key : KeyOK(key) => KeyOK(key)'
  BY <1>0 DEF KeyOK
<1>b. /\ RowsOK(published)
      /\ prediction.step \in {"idle", "loaded", "predicted"}
      /\ prediction.step # "idle" => LoadedOne(prediction)
      /\ prediction.step = "predicted" => RowsOK(prediction.rows)
      /\ clock \in 0 .. MaxClock /\ faults \in 0 .. MaxFaults
      /\ MaxClock \in Nat /\ MaxFaults \in Nat
      /\ DOMAIN prediction = {"step", "name", "region", "version", "rows"}
  BY ServingAssumption DEF ServingInv, RowsInv, PredictionOK
<1>c. ASSUME RowsOK(published'), prediction'.step \in {"idle", "loaded", "predicted"},
             prediction'.step # "idle" => LoadedOne(prediction'),
             prediction'.step = "predicted" => RowsOK(prediction'.rows),
             clock' \in 0 .. MaxClock, faults' \in 0 .. MaxFaults
      PROVE  ServingInv'
  BY <1>0, <1>a, <1>c DEF ServingInv
<1>1. CASE UNCHANGED <<published, prediction, clock, faults>>
  <2> HIDE DEF RowsOK, LoadedOne
  <2> QED BY <1>1, <1>b, <1>c
<1>2. ASSUME LoadModel PROVE ServingInv'
  <2>1. PICK name \in Names : \E version \in Loadable(name), region \in DOMAIN readings[name] :
          prediction' = [NoPrediction EXCEPT !.step = "loaded", !.name = name,
                                             !.region = region, !.version = version]
    BY <1>2 DEF LoadModel
  <2>2. PICK version \in DOMAIN registry[name], region \in DOMAIN readings[name] :
          prediction' = [NoPrediction EXCEPT !.step = "loaded", !.name = name,
                                             !.region = region, !.version = version]
    BY <2>1 DEF Loadable
  <2>3. prediction'.step = "loaded" /\ prediction'.name = name /\ prediction'.region = region
        /\ prediction'.version = version
    BY <2>2, NoPredictionOK
  <2>4. UNCHANGED <<published, clock, faults>>
    BY <1>2 DEF LoadModel, cacheVars
  <2>5. LoadedOne(prediction')
    BY <2>3
  <2> HIDE DEF RowsOK, LoadedOne
  <2> QED BY <1>b, <1>c, <2>3, <2>4, <2>5
<1>3. ASSUME Predict PROVE ServingInv'
  <2>0. UNCHANGED <<published, clock, faults>> /\ prediction.step = "loaded"
    BY <1>3 DEF Predict, cacheVars
  <2>1. CASE prediction' = NoPrediction
    <3> HIDE DEF RowsOK, LoadedOne
    <3> QED BY <1>b, <1>c, <2>0, <2>1, NoPredictionOK
  <2>2. CASE prediction' # NoPrediction
    <3> DEFINE s == readings[prediction.name][prediction.region]
    <3>1. PICK n \in Horizons :
            /\ prediction' = [prediction EXCEPT !.rows = Forecast(prediction, s, n), !.step = "predicted"]
            /\ Forecastable(SpecificationOf(prediction.name), [region \in {prediction.region} |-> s])
      BY <1>3, <2>2 DEF Predict
    <3>2. LoadedOne(prediction)
      <4> HIDE DEF LoadedOne
      <4> QED BY <1>b, <2>0
    <3>3. DOMAIN s \subseteq Int /\ IsFiniteSet(DOMAIN s)
      BY <3>2 DEF LearnInv, ReadingsOK, FrameOK
    <3>4. n \in Nat
      BY <3>1, ServingAssumption
    <3> HIDE DEF s
    <3>5. RowsOK(Forecast(prediction, s, n))
      BY <3>1, <3>2, <3>3, <3>4, ForecastRows
    <3>6. /\ prediction'.step = "predicted" /\ prediction'.name = prediction.name
          /\ prediction'.region = prediction.region /\ prediction'.version = prediction.version
          /\ prediction'.rows = Forecast(prediction, s, n)
      BY <1>b, <3>1
    <3>7. LoadedOne(prediction')
      BY <3>2, <3>6
    <3> HIDE DEF RowsOK, LoadedOne
    <3> QED BY <1>b, <1>c, <2>0, <3>5, <3>6, <3>7
  <2> QED BY <2>1, <2>2
<1>4. ASSUME Publish \/ PublishCut PROVE ServingInv'
  <2>1. /\ prediction' = NoPrediction /\ UNCHANGED clock /\ prediction.step = "predicted"
        /\ DOMAIN published' \subseteq DOMAIN published \cup DOMAIN prediction.rows
        /\ faults' \in 0 .. MaxFaults
    BY <1>4, <1>b DEF Publish, PublishCut, Override, cacheVars
  <2>2. RowsOK(published')
    <3>1. RowsOK(published) /\ RowsOK(prediction.rows)
      <4> HIDE DEF RowsOK
      <4> QED BY <1>b, <2>1
    <3>2. IsFiniteSet(DOMAIN published \cup DOMAIN prediction.rows)
      BY <3>1, FS_Union
    <3> QED BY <2>1, <3>1, <3>2, FS_Subset
  <2> HIDE DEF RowsOK, LoadedOne
  <2> QED BY <1>b, <1>c, <2>1, <2>2, NoPredictionOK
<1>5. ASSUME PredictionEnds PROVE ServingInv'
  <2>1. UNCHANGED <<published, clock, faults>> /\ prediction' = NoPrediction
    BY <1>5 DEF PredictionEnds, cacheVars
  <2> HIDE DEF RowsOK, LoadedOne
  <2> QED BY <1>b, <1>c, <2>1, NoPredictionOK
<1>6. ASSUME StoreCut PROVE ServingInv'
  <2>1. UNCHANGED <<published, prediction, clock>> /\ faults' \in 0 .. MaxFaults
    BY <1>6, <1>b DEF StoreCut, cacheVars
  <2> HIDE DEF RowsOK, LoadedOne
  <2> QED BY <1>b, <1>c, <2>1
<1>7. ASSUME Tick PROVE ServingInv'
  <2>1. UNCHANGED <<published, prediction, faults>> /\ clock' \in 0 .. MaxClock
    BY <1>7, <1>b DEF Tick, workVars
  <2> HIDE DEF RowsOK, LoadedOne
  <2> QED BY <1>b, <1>c, <2>1
<1>8. ASSUME Learn \/ NewHour PROVE UNCHANGED <<published, prediction, clock, faults>>
  BY <1>8 DEF Learn, NewHour, workVars, cacheVars
<1>9. ASSUME ListCandidates \/ ReadCandidate \/ CloseRequest \/ BeginDispatch \/ CheckAlias
             \/ StoreDispatch \/ DispatchEnds \/ (\E r \in Requesters : Ask(r))
      PROVE  UNCHANGED <<published, prediction, clock, faults>>
  BY <1>9 DEF ListCandidates, ReadCandidate, CloseRequest, BeginDispatch, CheckAlias,
     StoreDispatch, DispatchEnds, Ask, AskSummary, LookUp, BuildSummary, KeepSummary,
     CloseSummary, workVars, cacheVars
<1> HIDE DEF RowsOK, LoadedOne
<1> QED BY <1>1, <1>2, <1>3, <1>4, <1>5, <1>6, <1>7, <1>8, <1>9 DEF Next, Serve, vars, workVars, cacheVars

-----------------------------------------------------------------------------
LEMMA ValidationSize ==
  ASSUME NEW o \in Int
  PROVE  Cardinality(Validation(o)) = Horizon
<1>0. Horizon \in Nat /\ Horizon >= 1
  BY WindowsAssumption
<1>1. o + 1 \in Int /\ o + Horizon \in Int
  BY <1>0
<1>2. Cardinality(o + 1 .. o + Horizon) = IF o + 1 > o + Horizon THEN 0 ELSE (o + Horizon) - (o + 1) + 1
  BY <1>1, FS_Interval
<1> QED BY <1>0, <1>2 DEF Validation

(* The first hours of a series that has all of its first Horizon hours.      *)
LEMMA FirstOfComplete ==
  ASSUME NEW S, IsFiniteSet(S), S \subseteq Int, NEW o \in Int, \A h \in S : h > o,
         Validation(o) \subseteq S
  PROVE  FirstHours(Hourly(S)) = Validation(o)
<1>0. Horizon \in Nat /\ Horizon >= 1
  BY WindowsAssumption
<1>a. Cardinality(Validation(o)) = Horizon
  BY ValidationSize
<1>1. Cardinality(S) \in Nat /\ Horizon <= Cardinality(S)
  BY <1>a, FS_Subset, FS_CardinalityType
<1> DEFINE hours == Hourly(S)
           Rank(x) == Cardinality({y \in S : y < x})
<1>2. ASSUME NEW x \in Validation(o) PROVE Rank(x) = x - o - 1
  <2>0. x \in Int /\ x >= o + 1 /\ x <= o + Horizon
    BY <1>0, <1>2 DEF Validation
  <2>1. {y \in S : y < x} = o + 1 .. x - 1
    <3>1. \A y \in S : y < x => y \in o + 1 .. x - 1
      BY <2>0
    <3>2. \A y \in o + 1 .. x - 1 : y \in Validation(o) /\ y < x
      BY <1>0, <2>0 DEF Validation
    <3> QED BY <3>1, <3>2
  <2>2. o + 1 \in Int /\ x - 1 \in Int
    BY <2>0
  <2>3. Cardinality(o + 1 .. x - 1) = IF o + 1 > x - 1 THEN 0 ELSE (x - 1) - (o + 1) + 1
    BY <2>2, FS_Interval
  <2>4. (IF o + 1 > x - 1 THEN 0 ELSE (x - 1) - (o + 1) + 1) = x - o - 1
    BY <2>0
  <2> QED BY <2>1, <2>3, <2>4, Zenon
<1>3. ASSUME NEW x \in S, x \notin Validation(o) PROVE Rank(x) >= Horizon
  <2>1. x > o + Horizon
    BY <1>0, <1>3 DEF Validation
  <2>2. Validation(o) \subseteq {y \in S : y < x}
    BY <1>0, <2>1 DEF Validation
  <2>3. IsFiniteSet({y \in S : y < x})
    BY FS_Subset
  <2>4. Cardinality(Validation(o)) <= Cardinality({y \in S : y < x})
    BY <2>2, <2>3, FS_Subset
  <2> QED BY <1>a, <2>4
<1>4. hours = [n \in 1 .. Cardinality(S) |-> CHOOSE x \in S : Rank(x) = n - 1]
  BY DEF Hourly, InOrder
<1>5. ASSUME NEW i \in 1 .. Horizon PROVE hours[i] = o + i
  <2>1. o + i \in Validation(o) /\ o + i \in S /\ Rank(o + i) = i - 1
    <3>1. o + i \in Validation(o)
      BY <1>0 DEF Validation
    <3>2. Rank(o + i) = (o + i) - o - 1
      BY <1>2, <3>1
    <3> HIDE DEF Rank
    <3> QED BY <3>1, <3>2
  <2>2. ASSUME NEW x \in S, Rank(x) = i - 1 PROVE x = o + i
    <3> HIDE DEF Rank
    <3>1. x \in Validation(o)
      BY <1>0, <1>3, <2>2, <1>1, <1>a
    <3>2. x - o - 1 = i - 1 /\ x \in Int
      BY <1>2, <2>2, <3>1
    <3> QED BY <3>2
  <2>3. hours[i] = CHOOSE x \in S : Rank(x) = i - 1
    <3> HIDE DEF Rank, hours
    <3> QED BY <1>0, <1>1, <1>4
  <2> HIDE DEF Rank, hours
  <2> QED BY <2>1, <2>2, <2>3
<1>6. Len(hours) = Cardinality(S)
  <2> DEFINE k == Cardinality(S)  T == {hours[n] : n \in 1 .. k}
  <2>1. hours \in [1 .. k -> T]
    <3> HIDE DEF Rank
    <3> QED BY <1>4
  <2>2. hours \in Seq(T) /\ DOMAIN hours = 1 .. k
    <3> HIDE DEF hours, T, k
    <3> QED BY <1>1, <2>1 DEF k
  <2> HIDE DEF hours, T
  <2> QED BY <1>1, <2>2
<1>7. Least(Horizon, Len(hours)) = Horizon
  <2> HIDE DEF hours
  <2> QED BY <1>0, <1>1, <1>6 DEF Least
<1>8. FirstHours(hours) = {hours[i] : i \in 1 .. Horizon}
  <2> HIDE DEF hours
  <2> QED BY <1>7 DEF FirstHours
<1> HIDE DEF hours
<1>9. {hours[i] : i \in 1 .. Horizon} = Validation(o)
  <2>1. \A h \in Validation(o) : h - o \in 1 .. Horizon /\ h = o + (h - o)
    BY <1>0 DEF Validation
  <2>2. \A i \in 1 .. Horizon : o + i \in Validation(o)
    BY <1>0 DEF Validation
  <2> QED BY <1>5, <2>1, <2>2
<1> QED BY <1>8, <1>9 DEF hours

LEMMA SeriesHours ==
  ASSUME ServingInv, NEW name, NEW region, NEW s \in SeriesOf(published, name, region)
  PROVE  LET hours == HoursOf(published, name, region, s)
         IN  /\ s[1] \in Int /\ IsFiniteSet(hours) /\ hours \subseteq Int
             /\ \A h \in hours : h > s[1]
<1> DEFINE keys  == {key \in DOMAIN published : key[1] = name /\ key[2] = region
                                               /\ key[3] = s[1] /\ key[5] = s[2]}
           hours == HoursOf(published, name, region, s)
<1>1. s[1] \in Int
  BY DEF SeriesOf, ServingInv, KeyOK
<1>2. hours = {key[4] : key \in keys}
  BY DEF HoursOf
<1>3. \A key \in keys : key[4] \in Int /\ key[4] > s[1]
  BY DEF ServingInv, KeyOK
<1>4. IsFiniteSet(keys)
  BY FS_Subset DEF ServingInv
<1> HIDE DEF keys, hours
<1>5. IsFiniteSet(hours)
  <2> DEFINE f == [key \in keys |-> key[4]]
  <2>1. f \in [keys -> hours] /\ \A y \in hours : \E key \in keys : f[key] = y
    BY <1>2
  <2> HIDE DEF f
  <2> QED BY <1>4, <2>1, FiniteImage
<1> QED BY <1>1, <1>2, <1>3, <1>5 DEF hours

(* While candidates are being read, the series that were whole all the time  *)
(* are among those still to read.                                            *)
RequestInv ==
  /\ DOMAIN request = {"step", "series", "todo", "steady", "answer"}
  /\ request.step \in {"idle", "rows", "answered"}
  /\ request.step = "rows" =>
       /\ request.answer = NoAnswer /\ \A s \in request.todo : s[1] \in Int
       /\ request.steady \subseteq request.todo
       /\ request.steady \subseteq Complete(published, request.series[1], request.series[2])
  /\ LatestNewestWhole

LEMMA NoRequestOK ==
  /\ DOMAIN NoRequest = {"step", "series", "todo", "steady", "answer"}
  /\ NoRequest.step = "idle" /\ NoRequest.answer = NoAnswer
  BY DEF NoRequest

(* A whole series is listed.                                                 *)
LEMMA WholeIsListed ==
  ASSUME ServingInv, NEW name, NEW region, NEW s \in Complete(published, name, region)
  PROVE  /\ s \in SeriesOf(published, name, region)
         /\ Cardinality(HoursOf(published, name, region, s)) >= Horizon
         /\ Answers(Hourly(HoursOf(published, name, region, s)), s[1])
<1> DEFINE hours == HoursOf(published, name, region, s)
<1>1. s \in SeriesOf(published, name, region) /\ Validation(s[1]) \subseteq hours
  BY DEF Complete
<1>2. s[1] \in Int /\ IsFiniteSet(hours) /\ hours \subseteq Int /\ \A h \in hours : h > s[1]
  BY <1>1, SeriesHours
<1> HIDE DEF hours
<1>3. FirstHours(Hourly(hours)) = Validation(s[1])
  BY <1>1, <1>2, FirstOfComplete
<1>4. Cardinality(hours) >= Horizon
  BY <1>1, <1>2, ValidationSize, FS_Subset, FS_CardinalityType, WindowsAssumption
<1> QED BY <1>1, <1>3, <1>4 DEF Answers, hours

LEMMA RequestNext ==
  ASSUME TrainingInv, ServingInv, RequestInv, [Next]_vars
  PROVE  RequestInv'
<1>1. CASE UNCHANGED <<request, published>>
  BY <1>1 DEF RequestInv, LatestNewestWhole, Complete, SeriesOf, HoursOf
<1>2. ASSUME Publish \/ PublishCut PROVE RequestInv'
  <2> DEFINE whole == IF request.step = "idle" THEN {}
                      ELSE Complete(published', request.series[1], request.series[2])
  <2>1. request' = [request EXCEPT !.steady = request.steady \cap whole]
    BY <1>2 DEF Publish, PublishCut, Witnessed
  <2> HIDE DEF whole
  <2>2. /\ DOMAIN request' = DOMAIN request /\ request'.step = request.step
        /\ request'.series = request.series /\ request'.todo = request.todo
        /\ request'.answer = request.answer /\ request'.steady = request.steady \cap whole
    BY <2>1 DEF RequestInv
  <2>3. request'.step = "rows" =>
          request'.steady \subseteq Complete(published, request.series[1], request.series[2])'
    BY <2>2 DEF whole
  <2>4. LatestNewestWhole'
    BY <2>2 DEF RequestInv, LatestNewestWhole
  <2> QED BY <2>2, <2>3, <2>4 DEF RequestInv
<1>3. ASSUME ListCandidates PROVE RequestInv'
  <2>1. PICK name \in Targets : \E region \in DOMAIN readings[name] :
          request' = [NoRequest EXCEPT !.step = "rows", !.series = <<name, region>>,
            !.todo = {s \in SeriesOf(published, name, region) :
                        Cardinality(HoursOf(published, name, region, s)) >= Horizon},
            !.steady = Complete(published, name, region)]
    BY <1>3 DEF ListCandidates
  <2>2. PICK region \in DOMAIN readings[name] :
          request' = [NoRequest EXCEPT !.step = "rows", !.series = <<name, region>>,
            !.todo = {s \in SeriesOf(published, name, region) :
                        Cardinality(HoursOf(published, name, region, s)) >= Horizon},
            !.steady = Complete(published, name, region)]
    BY <2>1
  <2> DEFINE todo == {s \in SeriesOf(published, name, region) :
                        Cardinality(HoursOf(published, name, region, s)) >= Horizon}
             whole == Complete(published, name, region)
  <2>3. whole \subseteq todo
    BY WholeIsListed
  <2>4. \A s \in todo : s[1] \in Int
    BY SeriesHours
  <2>5. /\ DOMAIN request' = {"step", "series", "todo", "steady", "answer"}
        /\ request'.step = "rows" /\ request'.series = <<name, region>> /\ request'.todo = todo
        /\ request'.steady = whole /\ request'.answer = NoAnswer
    <3> HIDE DEF todo, whole
    <3>1. request' = [NoRequest EXCEPT !.step = "rows", !.series = <<name, region>>,
                        !.todo = todo, !.steady = whole]
      BY <2>2 DEF todo, whole
    <3> QED BY <3>1, NoRequestOK
  <2>6. UNCHANGED published
    BY <1>3 DEF ListCandidates
  <2>7. request'.steady \subseteq Complete(published', request'.series[1], request'.series[2])
    <3>1. request'.series[1] = name /\ request'.series[2] = region
      BY <2>5
    <3> QED BY <2>5, <2>6, <3>1
  <2> HIDE DEF todo, whole
  <2> QED BY <2>3, <2>4, <2>5, <2>7 DEF RequestInv, LatestNewestWhole
<1>4. ASSUME ReadCandidate PROVE RequestInv'
  <2> DEFINE name == request.series[1]  region == request.series[2]
  <2>0. /\ request.step = "rows" /\ request.answer = NoAnswer /\ UNCHANGED published
        /\ request.steady \subseteq request.todo
        /\ request.steady \subseteq Complete(published, name, region)
        /\ \A s \in request.todo : s[1] \in Int
        /\ DOMAIN request = {"step", "series", "todo", "steady", "answer"}
    BY <1>4 DEF ReadCandidate, RequestInv
  <2>1. CASE request.todo = {}
    <3>1. request' = [request EXCEPT !.step = "answered"]
      BY <1>4, <2>1 DEF ReadCandidate
    <3>2. /\ DOMAIN request' = DOMAIN request /\ request'.step = "answered"
          /\ request'.answer = NoAnswer /\ request'.steady = {}
      BY <2>0, <2>1, <3>1
    <3> QED BY <2>0, <3>2 DEF RequestInv, LatestNewestWhole
  <2>2. CASE request.todo # {}
    <3>1. PICK s \in Newest(request.todo) :
            LET hours == Hourly(HoursOf(published, name, region, s))
            IN  request' =
                  IF Answers(hours, s[1])
                  THEN [request EXCEPT !.step = "answered", !.answer =
                          [origin |-> s[1], rows |-> [h \in FirstHours(hours) |->
                             published[<<name, region, s[1], h, s[2]>>]]]]
                  ELSE [request EXCEPT !.todo = @ \ {s}]
      BY <1>4, <2>2 DEF ReadCandidate
    <3>2. s \in request.todo /\ \A other \in request.todo : other[1] <= s[1]
      BY DEF Newest
    <3> DEFINE hours == Hourly(HoursOf(published, name, region, s))
    <3>3. CASE Answers(hours, s[1])
      <4> DEFINE rows == [h \in FirstHours(hours) |-> published[<<name, region, s[1], h, s[2]>>]]
      <4>1. request' = [request EXCEPT !.step = "answered", !.answer = [origin |-> s[1], rows |-> rows]]
        BY <3>1, <3>3
      <4>2. DOMAIN rows = Validation(s[1])
        BY <3>3 DEF Answers
      <4> HIDE DEF rows
      <4>3. /\ DOMAIN request' = DOMAIN request /\ request'.step = "answered"
            /\ request'.answer.origin = s[1] /\ request'.answer.rows = rows
            /\ request'.steady = request.steady
        BY <2>0, <4>1
      <4>4. request'.answer # NoAnswer
        <5>1. s[1] + 1 \in Validation(s[1])
          BY <2>0, <3>2, WindowsAssumption DEF Validation
        <5>2. DOMAIN NoAnswer.rows = {}
          BY DEF NoAnswer
        <5> QED BY <4>2, <4>3, <5>1, <5>2
      <4>5. LatestNewestWhole'
        BY <2>0, <3>2, <4>2, <4>3, <4>4 DEF LatestNewestWhole
      <4> QED BY <2>0, <4>3, <4>5 DEF RequestInv
    <3>4. CASE ~Answers(hours, s[1])
      <4>1. request' = [request EXCEPT !.todo = @ \ {s}]
        BY <3>1, <3>4
      <4>2. /\ DOMAIN request' = DOMAIN request /\ request'.step = request.step
            /\ request'.series = request.series /\ request'.todo = request.todo \ {s}
            /\ request'.answer = request.answer /\ request'.steady = request.steady
        BY <2>0, <4>1
      <4>3. s \notin request.steady
        BY <2>0, <3>4, WholeIsListed
      <4>4. request'.steady \subseteq Complete(published', request'.series[1], request'.series[2])
        BY <2>0, <4>2
      <4> HIDE DEF hours
      <4> QED BY <2>0, <4>2, <4>3, <4>4 DEF RequestInv, LatestNewestWhole
    <3> QED BY <3>3, <3>4
  <2> QED BY <2>1, <2>2
<1>5. ASSUME CloseRequest PROVE RequestInv'
  BY <1>5, NoRequestOK DEF CloseRequest, RequestInv, LatestNewestWhole
<1>6. ASSUME Learn \/ NewHour PROVE UNCHANGED <<request, published>>
  BY <1>6 DEF Learn, NewHour, workVars
<1>7. ASSUME Serve, ~Publish, ~PublishCut, ~ListCandidates, ~ReadCandidate, ~CloseRequest
      PROVE  UNCHANGED <<request, published>>
  BY <1>7 DEF Serve, LoadModel, Predict, PredictionEnds, BeginDispatch, CheckAlias, StoreDispatch,
     StoreCut, DispatchEnds, Ask, AskSummary, LookUp, BuildSummary, KeepSummary, CloseSummary,
     Tick, workVars
<1> QED BY <1>1, <1>2, <1>3, <1>4, <1>5, <1>6, <1>7 DEF Next, vars, workVars

LEMMA RequestInit == Init => RequestInv
  BY NoRequestOK DEF Init, ServingInit, RequestInv, LatestNewestWhole

(* What ForecastService.latest answers is one whole series, every hour after *)
(* its origin once and of one run, and no later origin had a whole series    *)
(* from the asking to the answer; that it finds nothing means there was none,*)
(* however the predictions published meanwhile overtook its queries.          *)
THEOREM LatestIsNewest == Spec => []LatestNewestWhole
<1>1. Init => TrainingInv /\ LearnInv /\ RowsInv /\ ServingInv /\ RequestInv
  BY TrainingInit, LearnInit, RowsInit, ServingInitOK, RequestInit
<1>2. TrainingInv /\ LearnInv /\ RowsInv /\ ServingInv /\ RequestInv /\ [Next]_vars =>
        (TrainingInv /\ LearnInv /\ RowsInv /\ ServingInv /\ RequestInv)'
  BY TrainingNext, LearnNext, RowsNext, ServingNext, RequestNext
<1>3. RequestInv => LatestNewestWhole
  BY DEF RequestInv
<1> QED BY <1>1, <1>2, <1>3, PTL DEF Spec

(* The jobs, the registry, the aliases and the tables that training and      *)
(* serving share hold what their types say, at any step of any interleaving  *)
(* of trainers, predictors, dispatches and readers.                          *)
THEOREM ForecastingTypeCorrect == Spec => []ForecastingTypeOK
<1> DEFINE Inv == /\ TrainingInv /\ LearnInv /\ NumbersInv /\ RowsInv /\ ServingInv /\ RequestInv
                  /\ DispatchInv /\ PastOK
<1>1. Init => Inv
  <2>1. Init => DispatchInv
    BY DEF Init, ServingInit, NoPlan, DispatchInv, PlanOK, RunsOK, DispatchFromChampions
  <2>2. Init => PastOK
    BY DEF Init, ServingInit, PastOK
  <2> QED BY <2>1, <2>2, TrainingInit, LearnInit, NumbersInit, RowsInit, ServingInitOK, RequestInit
<1>2. Inv /\ [Next]_vars => Inv'
  BY TrainingNext, LearnNext, NumbersNext, RowsNext, ServingNext, RequestNext, DispatchNext, PastGrows
<1>3. Inv => ForecastingTypeOK
  <2> SUFFICES ASSUME Inv PROVE ForecastingTypeOK
    OBVIOUS
  <2>1. TrainingTypeOK
    BY TrainingTyped
  <2>2. ServingTypeOK
    BY DEF ServingInv, KeyOK, RequestInv, DispatchInv, PlanOK, PastOK, ServingTypeOK
  <2> QED BY <2>1, <2>2 DEF ForecastingTypeOK
<1> QED BY <1>1, <1>2, <1>3, PTL DEF Spec
=============================================================================
