--------------------- MODULE CalibrationRecorderProofs ---------------------
(***************************************************************************)
(* Theorems about the calibration recorder, for any readings, window,      *)
(* drift, hold time and number of points, with saves that fail and         *)
(* restarts at any time: a plateau gives one automatic point, an id is     *)
(* given once, and what holds the next point up stands in the list.        *)
(***************************************************************************)
EXTENDS CalibrationRecorder, FiniteSetTheorems, WellFoundedInduction, TLAPS

-----------------------------------------------------------------------------
(* Numbers and sums. *)

LEMMA SmallestNumber ==
  ASSUME NEW K, K \subseteq Nat, K # {}
  PROVE  \E m \in K : \A k \in K : m <= k
  <1> DEFINE R == {ss \in Nat \X Nat : ss[1] < ss[2]}
  <1>1. IsWellFoundedOn(R, Nat)
    BY NatLessThanWellFounded DEF OpToRel
  <1>2. PICK m \in K : \A k \in K : <<k, m>> \notin R
    <2> HIDE DEF R
    <2> QED
      BY <1>1, WFMin
  <1>3. \A k \in K : ~(k < m)
    BY <1>2
  <1> QED
    BY <1>3

LEMMA LargestNumber ==
  ASSUME NEW n \in Nat, NEW K, K \subseteq 0..n, K # {}
  PROVE  \E m \in K : \A k \in K : k <= m
  <1> DEFINE D == {n - k : k \in K}
  <1>1. \A k \in K : k \in 0..n /\ n - k \in Nat
    OBVIOUS
  <1>2. D \subseteq Nat /\ D # {}
    BY <1>1
  <1>3. PICK d \in D : \A x \in D : d <= x
    <2> HIDE DEF D
    <2> QED
      BY <1>2, SmallestNumber
  <1>4. PICK m \in K : d = n - m
    BY <1>3
  <1>5. \A k \in K : n - m <= n - k
    BY <1>3, <1>4
  <1> QED
    BY <1>1, <1>5

\* The youngest and the oldest of some ages.
LEMMA MinOfAges ==
  ASSUME NEW n \in Nat, NEW K, K \subseteq 0..n, K # {}
  PROVE  Min(K) \in K
  <1>1. \E m \in K : \A k \in K : m <= k
    <2>1. K \subseteq Nat
      OBVIOUS
    <2> QED
      BY <2>1, SmallestNumber
  <1> QED
    BY <1>1 DEF Min

LEMMA MaxOfAges ==
  ASSUME NEW n \in Nat, NEW K, K \subseteq 0..n, K # {}
  PROVE  Max(K) \in K
  <1>1. PICK m \in K : \A k \in K : k <= m
    BY LargestNumber
  <1>2. \A k \in K : m >= k
    BY <1>1
  <1> QED
    BY <1>2 DEF Max

\* A sum taken element by element over the subsets in C, one element each time.
Picked(s) == CHOOSE x \in s : TRUE

IsSum(f, C, it) ==
  it = [s \in C |-> IF s = {} THEN 0 ELSE f[Picked(s)] + it[s \ {Picked(s)}]]

Smaller(S, k) == {s \in SUBSET S : Cardinality(s) <= k}

LEMMA PickedOut ==
  ASSUME NEW S, IsFiniteSet(S), NEW k \in Nat, NEW s \in Smaller(S, k), s # {}
  PROVE  /\ Picked(s) \in s /\ s \ {Picked(s)} \in SUBSET S
         /\ Cardinality(s) \in Nat \ {0}
         /\ Cardinality(s \ {Picked(s)}) = Cardinality(s) - 1
  <1>1. s \in SUBSET S /\ IsFiniteSet(s) /\ Picked(s) \in s
    BY FS_Subset DEF Smaller, Picked
  <1>2. Cardinality(s) \in Nat /\ Cardinality(s) # 0
    BY <1>1, FS_CardinalityType, FS_EmptySet
  <1>3. Cardinality(s \ {Picked(s)}) = Cardinality(s) - 1
    BY <1>1, FS_RemoveElement
  <1> QED
    BY <1>1, <1>2, <1>3

LEMMA SumExists ==
  ASSUME NEW S, IsFiniteSet(S), NEW f
  PROVE  \E it : IsSum(f, SUBSET S, it)
  <1> DEFINE Missing == {k \in Nat : ~\E it : IsSum(f, Smaller(S, k), it)}
  <1>1. Missing = {}
    <2> SUFFICES ASSUME Missing # {} PROVE FALSE
      OBVIOUS
    <2>1. PICK k \in Missing : \A j \in Missing : k <= j
      <3>1. Missing \subseteq Nat
        OBVIOUS
      <3> HIDE DEF Missing
      <3> QED
        BY <3>1, SmallestNumber
    <2>2. k \in Nat /\ ~\E it : IsSum(f, Smaller(S, k), it)
      BY <2>1
    <2>3. CASE k = 0
      <3> DEFINE it == [s \in Smaller(S, 0) |-> 0]
      <3>1. \A s \in Smaller(S, 0) : s = {}
        <4>1. \A s \in Smaller(S, 0) : s \in SUBSET S /\ IsFiniteSet(s) /\ Cardinality(s) <= 0
          BY FS_Subset DEF Smaller
        <4>2. \A s \in Smaller(S, 0) : Cardinality(s) = 0
          BY <4>1, FS_CardinalityType
        <4> QED
          BY <4>1, <4>2, FS_EmptySet
      <3>2. IsSum(f, Smaller(S, 0), it)
        BY <3>1 DEF IsSum
      <3> HIDE DEF it
      <3> QED
        BY <2>2, <2>3, <3>2
    <2>4. CASE k # 0
      <3>1. k - 1 \in Nat /\ k - 1 \notin Missing
        <4> HIDE DEF Missing
        <4> QED
          BY <2>1, <2>2, <2>4
      <3>2. PICK g : IsSum(f, Smaller(S, k - 1), g)
        BY <3>1
      <3> DEFINE h == [s \in Smaller(S, k) |->
                         IF s = {} THEN 0 ELSE f[Picked(s)] + g[s \ {Picked(s)}]]
      <3>3. ASSUME NEW s \in Smaller(S, k - 1) PROVE s \in Smaller(S, k) /\ h[s] = g[s]
        <4>1. s \in SUBSET S /\ Cardinality(s) <= k - 1 /\ IsFiniteSet(s)
          BY <3>3, FS_Subset DEF Smaller
        <4>2. Cardinality(s) \in Nat
          BY <4>1, FS_CardinalityType
        <4>3. s \in Smaller(S, k)
          BY <2>2, <4>1, <4>2 DEF Smaller
        <4>4. g[s] = IF s = {} THEN 0 ELSE f[Picked(s)] + g[s \ {Picked(s)}]
          BY <3>2, <3>3 DEF IsSum
        <4> QED
          BY <4>3, <4>4
      <3>4. ASSUME NEW s \in Smaller(S, k), s # {}
            PROVE  h[s \ {Picked(s)}] = g[s \ {Picked(s)}]
        <4>1. Cardinality(s) <= k /\ s \ {Picked(s)} \in SUBSET S
              /\ Cardinality(s) \in Nat /\ Cardinality(s \ {Picked(s)}) = Cardinality(s) - 1
          BY <2>2, <3>4, PickedOut DEF Smaller
        <4>2. s \ {Picked(s)} \in Smaller(S, k - 1)
          BY <2>2, <4>1 DEF Smaller
        <4> HIDE DEF h
        <4> QED
          BY <3>3, <4>2
      <3>5. \A s \in Smaller(S, k) :
              h[s] = IF s = {} THEN 0 ELSE f[Picked(s)] + h[s \ {Picked(s)}]
        <4>1. \A s \in Smaller(S, k) :
                h[s] = IF s = {} THEN 0 ELSE f[Picked(s)] + g[s \ {Picked(s)}]
          OBVIOUS
        <4> HIDE DEF h
        <4> QED
          BY <3>4, <4>1
      <3>6. h = [s \in Smaller(S, k) |-> h[s]]
        OBVIOUS
      <3> HIDE DEF h
      <3>7. h = [s \in Smaller(S, k) |->
                   IF s = {} THEN 0 ELSE f[Picked(s)] + h[s \ {Picked(s)}]]
        BY <3>5, <3>6
      <3> QED
        BY <2>2, <3>7 DEF IsSum
    <2> QED
      BY <2>3, <2>4
  <1>2. Cardinality(S) \in Nat
    BY FS_CardinalityType
  <1>3. SUBSET S = Smaller(S, Cardinality(S))
    BY FS_Subset DEF Smaller
  <1>4. PICK k \in Nat : k = Cardinality(S)
    BY <1>2
  <1>5. \E it : IsSum(f, Smaller(S, k), it)
    BY <1>1, <1>4
  <1> QED
    BY <1>3, <1>4, <1>5

\* A sum of natural numbers is one.
LEMMA SumType ==
  ASSUME NEW S, IsFiniteSet(S), NEW f, DOMAIN f = S, \A x \in S : f[x] \in Nat
  PROVE  SumFunction(f) \in Nat
  <1>1. PICK it : it = (CHOOSE x : IsSum(f, SUBSET S, x)) /\ IsSum(f, SUBSET S, it)
    BY SumExists
  <1>2. SumFunction(f) = it[S]
    BY <1>1 DEF SumFunction, SumFunctionOnSet, FoldFunctionOnSet, MapThenFoldSet, IsSum, Picked
  <1>3. \A s \in SUBSET S : it[s] = IF s = {} THEN 0 ELSE f[Picked(s)] + it[s \ {Picked(s)}]
    BY <1>1 DEF IsSum
  <1> DEFINE Wrong == {k \in Nat : \E s \in SUBSET S : Cardinality(s) = k /\ it[s] \notin Nat}
  <1>4. Wrong = {}
    <2> SUFFICES ASSUME Wrong # {} PROVE FALSE
      OBVIOUS
    <2>1. PICK k \in Wrong : \A j \in Wrong : k <= j
      <3>1. Wrong \subseteq Nat
        OBVIOUS
      <3> HIDE DEF Wrong
      <3> QED
        BY <3>1, SmallestNumber
    <2>2. PICK s \in SUBSET S : Cardinality(s) = k /\ it[s] \notin Nat /\ k \in Nat
      BY <2>1
    <2>3. s # {} /\ s \in Smaller(S, k)
      <3>1. s = {} => it[s] = 0
        BY <1>3
      <3>2. Cardinality(s) <= k
        BY <2>2
      <3> QED
        BY <2>2, <3>1, <3>2 DEF Smaller
    <2>4. Picked(s) \in S /\ s \ {Picked(s)} \in SUBSET S /\ k - 1 \in Nat
          /\ Cardinality(s \ {Picked(s)}) = k - 1
      BY <2>2, <2>3, PickedOut
    <2>5. it[s \ {Picked(s)}] \in Nat
      <3>1. k - 1 \notin Wrong
        <4> HIDE DEF Wrong
        <4> QED
          BY <2>1, <2>2, <2>4
      <3> QED
        BY <2>4, <3>1
    <2>6. f[Picked(s)] \in Nat
      BY <2>4
    <2>7. it[s] = f[Picked(s)] + it[s \ {Picked(s)}]
      BY <1>3, <2>3
    <2> QED
      BY <2>2, <2>5, <2>6, <2>7
  <1>5. Cardinality(S) \in Nat /\ S \in SUBSET S
    BY FS_CardinalityType
  <1> QED
    BY <1>2, <1>4, <1>5

-----------------------------------------------------------------------------
(* Readings and the window over them. *)

LEMMA ConstantsAreNumbers ==
  /\ HISTORY_S \in Nat /\ LongestHold \in Nat
  /\ REARM_HZ \in Nat /\ DEPART_S \in Nat /\ MIN_POINT_SECONDS \in Nat /\ STALE_S \in Nat
  /\ MaxId \in Nat
  BY RecorderAssumption

\* The window that is set is no longer than what is kept.
LEMMA CriteriaInForce ==
  ASSUME TypeOK
  PROVE  /\ settings.criteria.window \in Nat /\ settings.criteria.window <= HISTORY_S + 1
         /\ settings.criteria.hold \in 0..LongestHold
  <1>1. settings.criteria \in Criteria
    BY DEF TypeOK, SETTINGS
  <1> QED
    BY <1>1, RecorderAssumption DEF Criterion

LEMMA NothingIsNoNumber == \A n \in Int : n >= 0 => n # Nothing
  <1>1. \A n \in Int : n >= 0 => n \in Nat
    OBVIOUS
  <1> QED
    BY <1>1, RecorderAssumption

LEMMA NothingIsNoPoint == Nothing \notin Point
  BY RecorderAssumption

\* What is kept of some readings, with a new one.
LEMMA TakenType ==
  ASSUME NEW Kind, NEW readings, DOMAIN readings \subseteq Ages,
         readings \in [DOMAIN readings -> Kind], NEW reading \in Kind \union {Nothing}
  PROVE  /\ DOMAIN Taken(readings, reading) \subseteq Ages
         /\ Taken(readings, reading) \in [DOMAIN Taken(readings, reading) -> Kind]
  <1> DEFINE kept == {a \in 1..HISTORY_S : a - 1 \in DOMAIN readings}
             now == IF reading = Nothing THEN {} ELSE {0}
             t == [a \in kept \union now |-> IF a = 0 THEN reading ELSE readings[a - 1]]
  <1>1. t = Taken(readings, reading)
    BY DEF Taken
  <1>2. kept \subseteq Ages /\ now \subseteq Ages
    BY ConstantsAreNumbers DEF Ages
  <1>3. \A a \in kept : a # 0 /\ readings[a - 1] \in Kind
    BY ConstantsAreNumbers
  <1>4. \A a \in now : a = 0 /\ reading \in Kind
    OBVIOUS
  <1>5. DOMAIN t = kept \union now
    OBVIOUS
  <1>6. \A a \in kept \union now : t[a] \in Kind
    <2>1. \A a \in kept \union now : t[a] = IF a = 0 THEN reading ELSE readings[a - 1]
      OBVIOUS
    <2> HIDE DEF kept, now, t
    <2> QED
      BY <1>3, <1>4, <2>1
  <1>7. t \in [kept \union now -> Kind]
    <2>1. t = [a \in kept \union now |-> t[a]]
      OBVIOUS
    <2> HIDE DEF kept, now, t
    <2> QED
      BY <1>6, <2>1
  <1> HIDE DEF kept, now, t
  <1> QED
    BY <1>1, <1>2, <1>5, <1>7

\* An age, where there may be none.
LEMMA AgedType ==
  ASSUME NEW most \in Nat, NEW age \in 0..most \union {Nothing}
  PROVE  /\ Aged(age, most) \in 0..most \union {Nothing}
         /\ age = Nothing => Aged(age, most) = Nothing
         /\ age \in 0..most => /\ Aged(age, most) \in 0..most
                               /\ Aged(age, most) = IF age = most THEN most ELSE age + 1
  <1>1. CASE age = Nothing
    <2>1. age \notin 0..most
      BY <1>1, NothingIsNoNumber
    <2> QED
      BY <1>1, <2>1 DEF Aged
  <1>2. CASE age # Nothing
    BY <1>2 DEF Aged
  <1> QED
    BY <1>1, <1>2

\* A departure is no older than the points the last average came before, as
\* far as ages are told apart.
Since(age) == age # Nothing => age < lastAge \/ (age = Old /\ lastAge = Old)

LEMMA DepartureIsSince ==
  ASSUME TypeOK, Since(leftFor)
  PROVE  Departure \in 0..Old \union {Nothing} /\ Since(Departure)
  <1>1. CASE leftFor # Nothing \/ last = Nothing
    BY <1>1 DEF Departure, TypeOK
  <1>2. CASE ~(leftFor # Nothing \/ last = Nothing)
    <2> DEFINE seen == {a \in DOMAIN bins : a < lastAge /\ bins[a].fT # Nothing}
               gone == {a \in seen : Cardinality(AwayFrom(seen, a)) >= DEPART_S}
    <2>1. Departure = IF gone = {} THEN Nothing ELSE Max(gone)
      BY <1>2 DEF Departure
    <2>2. gone \subseteq 0..HISTORY_S /\ \A a \in gone : a < lastAge
      BY DEF TypeOK, Ages
    <2> HIDE DEF gone
    <2>3. CASE gone = {}
      BY <2>1, <2>3 DEF Since
    <2>4. CASE gone # {}
      <3>1. Max(gone) \in gone
        BY <2>2, <2>4, ConstantsAreNumbers, MaxOfAges
      <3>2. Departure \in 0..HISTORY_S /\ Departure < lastAge
        BY <2>1, <2>2, <2>4, <3>1
      <3> QED
        BY <3>2, ConstantsAreNumbers DEF Since, Old
    <2> QED
      BY <2>3, <2>4
  <1> QED
    BY <1>1, <1>2

\* The window reaches back no further than a departure.
LEMMA WindowIsNew ==
  ASSUME TypeOK, Since(leftFor), Departure # Nothing, NEW a \in Int, a <= WindowAge
  PROVE  a < lastAge
  <1>1. Departure \in 0..Old /\ Since(Departure)
    BY DepartureIsSince
  <1> DEFINE window == settings.criteria.window
  <1>2. WindowAge = IF Departure >= window THEN window - 1 ELSE Departure
    BY DEF WindowAge
  <1>3. lastAge \in 0..Old /\ window <= Old /\ Old \in Nat /\ window \in Nat
    BY ConstantsAreNumbers, CriteriaInForce DEF TypeOK, Old
  <1> HIDE DEF window
  <1> QED
    BY <1>1, <1>2, <1>3 DEF Since

LEMMA GoodBins ==
  ASSUME TypeOK
  PROVE  /\ Good \subseteq 0..HISTORY_S /\ Usable \subseteq Good
         /\ IsFiniteSet(Usable) /\ Cardinality(Usable) \in Nat
         /\ \A a \in Good : bins[a].fT \in Nat
  <1>1. Good \subseteq DOMAIN bins /\ Usable \subseteq Good
    BY DEF Good, InWindow, Usable
  <1>2. Good \subseteq 0..HISTORY_S
    BY <1>1 DEF TypeOK, Ages
  <1>3. IsFiniteSet(0..HISTORY_S)
    BY ConstantsAreNumbers, FS_Interval
  <1>4. IsFiniteSet(Usable)
    BY <1>1, <1>2, <1>3, FS_Subset
  <1>5. \A a \in Good : bins[a] \in Bin /\ bins[a].fT # Nothing
    BY <1>1 DEF Good, TypeOK
  <1>6. \A b \in Bin : b.fT \in Nat \union {Nothing}
    BY DEF Bin
  <1> QED
    BY <1>1, <1>2, <1>4, <1>5, <1>6, FS_CardinalityType

\* An average is one of natural numbers.
LEMMA MeanType ==
  ASSUME TypeOK
  PROVE  Mean(Usable).sum \in Nat /\ Mean(Usable).n \in Nat
  <1> DEFINE f == [a \in Usable |-> bins[a].fT]
  <1>1. DOMAIN f = Usable /\ \A a \in Usable : f[a] \in Nat
    BY GoodBins
  <1>2. SumFunction(f) \in Nat
    <2> HIDE DEF f
    <2> QED
      BY <1>1, GoodBins, SumType
  <1> QED
    BY <1>2, GoodBins DEF Mean

\* The point a capture makes, and where its average ends.
Taking(settled, auto) ==
  [id |-> nextId, sum |-> Mean(Usable).sum, n |-> Mean(Usable).n,
   settled |-> settled, auto |-> auto]

LEMMA TakingType ==
  ASSUME TypeOK, Capturable, nextId <= MaxId, NEW settled \in BOOLEAN, NEW auto \in BOOLEAN
  PROVE  /\ Taking(settled, auto) \in Point
         /\ Min(Usable) \in Usable /\ Min(Usable) \in 0..HISTORY_S
         /\ \A a \in Usable : a \in 0..HISTORY_S
  <1>1. nextId \in 1..MaxId
    BY ConstantsAreNumbers DEF TypeOK
  <1>2. Taking(settled, auto) \in Point
    BY <1>1, MeanType DEF Taking, Point
  <1>3. Usable # {} /\ Usable \subseteq 0..HISTORY_S
    <2>1. Usable \subseteq 0..HISTORY_S /\ Cardinality(Usable) >= MIN_POINT_SECONDS
      BY GoodBins DEF Capturable
    <2>2. Cardinality(Usable) # 0
      BY <2>1, GoodBins, RecorderAssumption
    <2> QED
      BY <2>1, <2>2, FS_EmptySet
  <1>4. Min(Usable) \in Usable
    BY <1>3, ConstantsAreNumbers, MinOfAges
  <1> QED
    BY <1>2, <1>3, <1>4

-----------------------------------------------------------------------------
(* Points, ids and what is remembered. *)

\* Points with ids of their own, all of them below the next.
Numbered(ps, next) ==
  /\ \A p \in ps : p.id < next
  /\ \A p, q \in ps : p.id = q.id => p = q

\* The point an automatic one is compared with is the last, if that was settled.
LatestOf(ps, next, recalled) ==
  /\ recalled # Nothing => recalled.settled /\ recalled \in ps
  /\ \A q \in ps : q.settled /\ q.id + 1 = next => recalled = q

PointsInv ==
  /\ nextId >= file.nextId
  /\ Numbered(points, nextId) /\ Numbered(file.points, file.nextId)
  /\ LatestOf(points, nextId, last)

RecorderInv == TypeOK /\ PointsInv /\ Since(leftFor)

LEMMA RecorderInit == Init => RecorderInv
  <1> SUFFICES ASSUME Init PROVE RecorderInv
    OBVIOUS
  <1> DEFINE saved == [settings |-> DefaultSettings, points |-> {}, nextId |-> 1]
  <1>1. DefaultSettings \in SETTINGS
    BY RecorderAssumption DEF DefaultSettings, SETTINGS, Sources
  <1>2. 1 \in 1..MaxId + 1 /\ Old \in 0..Old
    BY ConstantsAreNumbers DEF Old
  <1>3. saved \in [settings : SETTINGS, points : SUBSET Point, nextId : 1..MaxId + 1]
        /\ saved.points = {} /\ saved.nextId = 1
    BY <1>1, <1>2
  <1> HIDE DEF saved
  <1>4. file = saved
    BY DEF Init, saved
  <1>5. DOMAIN NoReadings = {} /\ NoReadings \in [{} -> Bin] /\ NoReadings \in [{} -> SensorReadings]
    BY DEF NoReadings
  <1>6. TypeOK
    BY <1>1, <1>2, <1>3, <1>4, <1>5 DEF Init, TypeOK
  <1>7. PointsInv /\ Since(leftFor)
    BY <1>3, <1>4 DEF Init, PointsInv, Numbered, LatestOf, Since
  <1> QED
    BY <1>6, <1>7 DEF RecorderInv

\* A save keeps the file's promises, or the file as it was.
LEMMA SaveKeeps ==
  ASSUME TypeOK, nextId >= file.nextId, Numbered(file.points, file.nextId), Save,
         settings' \in SETTINGS, points' \in SUBSET Point, nextId' \in 1..MaxId + 1,
         nextId' >= nextId, Numbered(points', nextId')
  PROVE  /\ file' \in [settings : SETTINGS, points : SUBSET Point, nextId : 1..MaxId + 1]
         /\ saveError' \in BOOLEAN
         /\ nextId' >= file'.nextId /\ Numbered(file'.points, file'.nextId)
  <1>1. CASE file' = [settings |-> settings', points |-> points', nextId |-> nextId']
             /\ saveError' = FALSE
    <2> DEFINE saved == [settings |-> settings', points |-> points', nextId |-> nextId']
    <2>1. saved \in [settings : SETTINGS, points : SUBSET Point, nextId : 1..MaxId + 1]
          /\ saved.points = points' /\ saved.nextId = nextId'
      OBVIOUS
    <2>2. file' = saved
      BY <1>1
    <2>3. nextId' \in Int
      BY ConstantsAreNumbers
    <2> HIDE DEF saved
    <2>4. file'.points = points' /\ file'.nextId = nextId'
      BY <2>1, <2>2
    <2>5. nextId' >= file'.nextId
      BY <2>3, <2>4
    <2>6. Numbered(file'.points, file'.nextId)
      BY <2>4
    <2> QED
      BY <1>1, <2>1, <2>2, <2>5, <2>6
  <1>2. CASE UNCHANGED file /\ saveError' = TRUE
    <2>1. nextId \in Int /\ nextId' \in Int /\ file.nextId \in Int
      BY ConstantsAreNumbers DEF TypeOK
    <2> QED
      BY <1>2, <2>1 DEF TypeOK
  <1> QED
    BY <1>1, <1>2 DEF Save

\* What a step leaves of the points, whatever becomes of the readings.
Keeps ==
  /\ settings' \in SETTINGS /\ points' \in SUBSET Point /\ nextId' \in 1..MaxId + 1
  /\ last' \in Point \union {Nothing} /\ lastAge' \in 0..Old
  /\ leftFor' \in 0..Old \union {Nothing}
  /\ file' \in [settings : SETTINGS, points : SUBSET Point, nextId : 1..MaxId + 1]
  /\ saveError' \in BOOLEAN
  /\ PointsInv' /\ Since(leftFor)'

LEMMA KeptIsInv ==
  ASSUME TypeOK, Keeps, UNCHANGED readingVars, steadyFor' \in 0..LongestHold \union {Nothing}
  PROVE  RecorderInv'
  BY DEF Keeps, TypeOK, RecorderInv, readingVars

\* A step that leaves the points, the file and what is remembered alone.
LEMMA StoredUntouched ==
  ASSUME PointsInv, UNCHANGED <<storedVars, last, file>>
  PROVE  PointsInv'
  BY DEF PointsInv, Numbered, LatestOf, storedVars

LEMMA PointTaken ==
  ASSUME RecorderInv, Capturable, NEW settled \in BOOLEAN, NEW auto \in BOOLEAN,
         TakePoint(settled, auto)
  PROVE  Keeps /\ points' = points \union {Taking(settled, auto)} /\ nextId' = nextId + 1
  <1> DEFINE p == Taking(settled, auto)
  <1>1. /\ nextId <= MaxId /\ points' = points \union {p} /\ nextId' = nextId + 1
        /\ UNCHANGED settings /\ Save
        /\ settled => last' = p /\ lastAge' = Min(Usable) /\ leftFor' = Nothing
        /\ ~settled => leftFor' = Departure /\ UNCHANGED <<last, lastAge>>
    BY DEF TakePoint, Taking
  <1>2. p \in Point /\ p.id = nextId /\ p.settled = settled
    BY <1>1, TakingType DEF RecorderInv, Taking
  <1>3. Min(Usable) \in 0..HISTORY_S
    BY <1>1, TakingType DEF RecorderInv
  <1>4. /\ TypeOK /\ nextId \in 1..MaxId + 1 /\ settings \in SETTINGS /\ points \in SUBSET Point
        /\ nextId \in Int /\ MaxId \in Nat
    BY ConstantsAreNumbers DEF RecorderInv, TypeOK
  <1> HIDE DEF p
  <1>5. nextId' \in 1..MaxId + 1 /\ nextId' >= nextId /\ points' \in SUBSET Point
    BY <1>1, <1>2, <1>4
  <1>6. \A q \in Point : q.id \in Int
    BY ConstantsAreNumbers DEF Point
  <1>7. Numbered(points', nextId')
    BY <1>1, <1>2, <1>4, <1>6 DEF Numbered, RecorderInv, PointsInv
  <1>8. /\ file' \in [settings : SETTINGS, points : SUBSET Point, nextId : 1..MaxId + 1]
        /\ saveError' \in BOOLEAN
        /\ nextId' >= file'.nextId /\ Numbered(file'.points, file'.nextId)
    BY <1>1, <1>4, <1>5, <1>7, SaveKeeps DEF RecorderInv, PointsInv
  <1>9. LatestOf(points', nextId', last')
    <2>1. \A q \in points : q.id < nextId /\ q.id \in Int
      BY <1>4, <1>6 DEF RecorderInv, PointsInv, Numbered
    <2>2. \A q \in points' : q.id + 1 = nextId' => q = p
      BY <1>1, <1>4, <2>1
    <2>3. CASE settled
      BY <1>1, <1>2, <2>2, <2>3 DEF LatestOf
    <2>4. CASE ~settled
      <3>1. last' = last /\ (last # Nothing => last.settled /\ last \in points)
        BY <1>1, <2>4 DEF RecorderInv, PointsInv, LatestOf
      <3> QED
        BY <1>1, <1>2, <2>2, <2>4, <3>1 DEF LatestOf
    <2> QED
      BY <2>3, <2>4
  <1>10. /\ last' \in Point \union {Nothing} /\ lastAge' \in 0..Old
         /\ leftFor' \in 0..Old \union {Nothing} /\ Since(leftFor)'
    <2>1. CASE settled
      <3>1. Min(Usable) \in 0..Old
        BY <1>3, ConstantsAreNumbers DEF Old
      <3> QED
        BY <1>1, <1>2, <2>1, <3>1 DEF Since
    <2>2. CASE ~settled
      <3>1. Departure \in 0..Old \union {Nothing} /\ Since(Departure)
        BY DepartureIsSince DEF RecorderInv
      <3> QED
        BY <1>1, <2>2, <3>1 DEF Since, RecorderInv, TypeOK, Old
    <2> QED
      BY <2>1, <2>2
  <1>11. PointsInv'
    BY <1>7, <1>8, <1>9 DEF PointsInv, Numbered, LatestOf
  <1>12. Keeps
    BY <1>1, <1>4, <1>5, <1>8, <1>10, <1>11 DEF Keeps
  <1> QED
    BY <1>1, <1>12 DEF p

LEMMA SteadyTimeType ==
  ASSUME TypeOK, NEW calm
  PROVE  SteadyTime(calm) \in 0..LongestHold \union {Nothing} /\ Settled(calm) \in BOOLEAN
  BY ConstantsAreNumbers DEF SteadyTime, TypeOK, Settled

\* A point is taken out, or all of them; settings are changed.
LEMMA PointsDropped ==
  ASSUME RecorderInv, UNCHANGED nextId, Save, settings' \in SETTINGS,
         points' \in SUBSET points,
         \/ Recall(Nothing) /\ \A q \in points' : ~(q.settled /\ q.id + 1 = nextId)
         \/ UNCHANGED recallVars /\ (last # Nothing => last \in points')
  PROVE  Keeps
  <1>1. /\ TypeOK /\ nextId \in 1..MaxId + 1 /\ points \in SUBSET Point /\ nextId \in Int
        /\ points' \in SUBSET Point
    BY ConstantsAreNumbers DEF RecorderInv, TypeOK
  <1>2. Numbered(points', nextId')
    BY DEF RecorderInv, PointsInv, Numbered
  <1>3. /\ file' \in [settings : SETTINGS, points : SUBSET Point, nextId : 1..MaxId + 1]
        /\ saveError' \in BOOLEAN
        /\ nextId' >= file'.nextId /\ Numbered(file'.points, file'.nextId)
    BY <1>1, <1>2, SaveKeeps DEF RecorderInv, PointsInv
  <1>4. LatestOf(points', nextId', last')
    BY DEF RecorderInv, PointsInv, LatestOf, Recall, recallVars
  <1>5. /\ last' \in Point \union {Nothing} /\ lastAge' \in 0..Old
        /\ leftFor' \in 0..Old \union {Nothing} /\ Since(leftFor)'
    <2>1. CASE Recall(Nothing)
      <3>1. Old \in 0..Old
        BY ConstantsAreNumbers DEF Old
      <3> QED
        BY <2>1, <3>1 DEF Recall, Since
    <2>2. CASE UNCHANGED recallVars
      BY <2>2 DEF recallVars, Since, Old, RecorderInv, TypeOK
    <2> QED
      BY <2>1, <2>2
  <1>6. PointsInv'
    BY <1>2, <1>3, <1>4 DEF PointsInv, Numbered, LatestOf
  <1> QED
    BY <1>1, <1>3, <1>5, <1>6 DEF Keeps

-----------------------------------------------------------------------------
(* The steps. *)

LEMMA SecondStep ==
  ASSUME RecorderInv, NEW r \in Readings, Second(r)
  PROVE  RecorderInv'
  <1>1. r.bin \in Bin \union {Nothing} /\ r.sensor \in SensorReadings \union {Nothing}
    BY RecorderAssumption
  <1>2. /\ TypeOK /\ PointsInv /\ Since(leftFor)
        /\ bins' = Taken(bins, r.bin) /\ temps' = Taken(temps, r.sensor)
        /\ steadyFor' = Aged(steadyFor, LongestHold)
        /\ lastAge' = Aged(lastAge, Old) /\ leftFor' = Aged(leftFor, Old)
        /\ UNCHANGED <<storedVars, last, file, saveError>>
    BY DEF RecorderInv, Second
  <1>3. DOMAIN bins' \subseteq Ages /\ bins' \in [DOMAIN bins' -> Bin]
    BY <1>1, <1>2, TakenType DEF TypeOK
  <1>4. DOMAIN temps' \subseteq Ages /\ temps' \in [DOMAIN temps' -> SensorReadings]
    BY <1>1, <1>2, TakenType DEF TypeOK
  <1>5. steadyFor' \in 0..LongestHold \union {Nothing}
    BY <1>2, ConstantsAreNumbers, AgedType DEF TypeOK
  <1>6. Old \in Nat
    BY ConstantsAreNumbers DEF Old
  <1>7. lastAge' \in 0..Old /\ lastAge' = IF lastAge = Old THEN Old ELSE lastAge + 1
    BY <1>2, <1>6, AgedType DEF TypeOK
  <1>8. /\ leftFor' \in 0..Old \union {Nothing}
        /\ leftFor = Nothing => leftFor' = Nothing
        /\ leftFor # Nothing => leftFor' = IF leftFor = Old THEN Old ELSE leftFor + 1
    <2>1. leftFor \in 0..Old \union {Nothing}
      BY <1>2 DEF TypeOK
    <2> QED
      BY <1>2, <1>6, <2>1, AgedType
  <1>9. Since(leftFor)'
    <2>1. CASE leftFor = Nothing
      BY <1>8, <2>1 DEF Since
    <2>2. CASE leftFor # Nothing
      <3>1. leftFor \in 0..Old /\ lastAge \in 0..Old
        BY <1>2, <2>2 DEF TypeOK
      <3>2. leftFor < lastAge \/ (leftFor = Old /\ lastAge = Old)
        BY <1>2, <2>2 DEF Since
      <3>3. leftFor' < lastAge' \/ (leftFor' = Old /\ lastAge' = Old)
        BY <1>6, <1>7, <1>8, <2>2, <3>1, <3>2
      <3> QED
        BY <3>3 DEF Since, Old
    <2> QED
      BY <2>1, <2>2
  <1>10. PointsInv'
    BY <1>2, StoredUntouched
  <1>11. TypeOK'
    BY <1>2, <1>3, <1>4, <1>5, <1>7, <1>8 DEF TypeOK, storedVars, Old
  <1> QED
    BY <1>9, <1>10, <1>11 DEF RecorderInv

LEMMA LookStep ==
  ASSUME RecorderInv, NEW calm \in BOOLEAN, Look(calm)
  PROVE  RecorderInv'
  <1>1. /\ TypeOK /\ PointsInv
        /\ UNCHANGED <<readingVars, storedVars, last, lastAge, file, saveError>>
        /\ leftFor' = Departure /\ steadyFor' = SteadyTime(calm)
    BY DEF RecorderInv, Look
  <1>2. Departure \in 0..Old \union {Nothing} /\ Since(Departure)
    BY DepartureIsSince DEF RecorderInv
  <1>3. steadyFor' \in 0..LongestHold \union {Nothing}
    BY <1>1, SteadyTimeType
  <1>4. Since(leftFor)'
    BY <1>1, <1>2 DEF Since, Old
  <1>5. PointsInv'
    BY <1>1, StoredUntouched
  <1>6. TypeOK'
    BY <1>1, <1>2, <1>3 DEF TypeOK, readingVars, storedVars, Old
  <1> QED
    BY <1>4, <1>5, <1>6 DEF RecorderInv

LEMMA TickStep ==
  ASSUME RecorderInv, Tick
  PROVE  RecorderInv'
  <1>1. Keeps /\ UNCHANGED readingVars
    BY PointTaken DEF Tick
  <1>2. steadyFor' \in {SteadyTime(TRUE), Nothing}
    BY DEF Tick
  <1>3. steadyFor' \in 0..LongestHold \union {Nothing}
    BY <1>2, SteadyTimeType DEF RecorderInv
  <1> QED
    BY <1>1, <1>3, KeptIsInv DEF RecorderInv

LEMMA CaptureStep ==
  ASSUME RecorderInv, NEW calm \in BOOLEAN, Capture(calm)
  PROVE  RecorderInv'
  <1>1. Settled(calm) \in BOOLEAN /\ steadyFor' \in 0..LongestHold \union {Nothing}
    BY SteadyTimeType DEF RecorderInv, Capture
  <1>2. Keeps /\ UNCHANGED readingVars
    BY <1>1, PointTaken DEF Capture
  <1> QED
    BY <1>1, <1>2, KeptIsInv DEF RecorderInv

LEMMA DeleteStep ==
  ASSUME RecorderInv, NEW id \in 1..MaxId, Delete(id)
  PROVE  RecorderInv'
  <1>1. /\ TypeOK /\ points' = {p \in points : p.id # id}
        /\ IF Forgets(id) THEN Recall(Nothing) ELSE UNCHANGED recallVars
        /\ UNCHANGED <<settings, nextId>> /\ Save /\ UNCHANGED <<readingVars, steadyFor>>
    BY DEF RecorderInv, Delete
  <1>2. points' \subseteq points
    BY <1>1
  <1>3. LatestOf(points, nextId, last)
    BY DEF RecorderInv, PointsInv
  <1>4. CASE Forgets(id)
    <2>1. \A q \in points' : ~(q.settled /\ q.id + 1 = nextId)
      BY <1>1, <1>3, <1>4 DEF LatestOf, Forgets
    <2> QED
      BY <1>1, <1>2, <1>4, <2>1, PointsDropped, KeptIsInv DEF TypeOK
  <1>5. CASE ~Forgets(id)
    <2>1. last # Nothing => last \in points'
      BY <1>1, <1>3, <1>5 DEF LatestOf, Forgets
    <2> QED
      BY <1>1, <1>2, <1>5, <2>1, PointsDropped, KeptIsInv DEF TypeOK
  <1> QED
    BY <1>4, <1>5

LEMMA ClearStep ==
  ASSUME RecorderInv, Clear
  PROVE  RecorderInv'
  <1>1. /\ TypeOK /\ points' = {} /\ Recall(Nothing)
        /\ UNCHANGED <<settings, nextId>> /\ Save /\ UNCHANGED <<readingVars, steadyFor>>
    BY DEF RecorderInv, Clear
  <1> QED
    BY <1>1, PointsDropped, KeptIsInv DEF TypeOK

LEMMA SettingsStep ==
  ASSUME RecorderInv, NEW new \in Offered, UpdateSettings(new)
  PROVE  RecorderInv'
  <1>1. /\ TypeOK /\ settings' \in SETTINGS /\ UNCHANGED <<points, nextId>> /\ Save
        /\ UNCHANGED <<readingVars, recallVars>> /\ steadyFor' \in {Nothing, steadyFor}
    BY RecorderAssumption DEF RecorderInv, UpdateSettings
  <1>2. last # Nothing => last \in points'
    BY <1>1 DEF RecorderInv, PointsInv, LatestOf
  <1>3. Keeps
    BY <1>1, <1>2, PointsDropped
  <1> QED
    BY <1>1, <1>3, KeptIsInv DEF TypeOK

\* The greatest of the ids on file is the next one's business.
LEMMA LoadedIsNext ==
  ASSUME RecorderInv
  PROVE  LoadedId = file.nextId
  <1> DEFINE ids == {file.nextId} \union {p.id + 1 : p \in file.points}
  <1>1. \A p \in file.points : p.id \in Int /\ p.id < file.nextId
    <2>1. \A p \in Point : p.id \in Int
      BY ConstantsAreNumbers DEF Point
    <2> QED
      BY <2>1 DEF RecorderInv, TypeOK, PointsInv, Numbered
  <1>2. file.nextId \in Int
    BY ConstantsAreNumbers DEF RecorderInv, TypeOK
  <1>3. file.nextId \in ids /\ \A k \in ids : k \in Int /\ file.nextId >= k
    BY <1>1, <1>2
  <1>4. \A x \in ids : (\A k \in ids : x >= k) => x = file.nextId
    <2> HIDE DEF ids
    <2> QED
      BY <1>2, <1>3
  <1>5. Max(ids) = file.nextId
    <2> HIDE DEF ids
    <2> QED
      BY <1>3, <1>4 DEF Max
  <1> QED
    BY <1>5 DEF LoadedId

LEMMA LatestIsLast ==
  ASSUME RecorderInv
  PROVE  /\ LatestOf(file.points, file.nextId, Latest)
         /\ Latest \in Point \union {Nothing}
  <1> DEFINE settled == {p \in file.points : p.settled}
             ids == {p.id : p \in settled}
  <1>1. file.points \subseteq Point /\ Numbered(file.points, file.nextId)
    BY DEF RecorderInv, TypeOK, PointsInv
  <1>2. \A p \in Point : p.id \in 0..MaxId /\ p.id \in Int
    BY ConstantsAreNumbers DEF Point
  <1>3. Latest = IF settled = {} THEN Nothing
                 ELSE CHOOSE p \in settled : \A q \in settled : q.id <= p.id
    BY DEF Latest
  <1>4. CASE settled = {}
    BY <1>3, <1>4 DEF LatestOf
  <1>5. CASE settled # {}
    <2>1. ids \subseteq 0..MaxId /\ ids # {}
      BY <1>1, <1>2, <1>5
    <2>2. PICK m \in ids : \A k \in ids : k <= m
      <3> HIDE DEF ids
      <3> QED
        BY <2>1, ConstantsAreNumbers, LargestNumber
    <2>3. \E p \in settled : \A q \in settled : q.id <= p.id
      <3>1. PICK p \in settled : p.id = m
        BY <2>2
      <3>2. \A q \in settled : q.id \in ids
        OBVIOUS
      <3> HIDE DEF settled, ids
      <3> QED
        BY <2>2, <3>1, <3>2
    <2>4. Latest \in settled /\ \A q \in settled : q.id <= Latest.id
      <3> HIDE DEF settled
      <3> QED
        BY <1>3, <1>5, <2>3
    <2>5. Latest \in file.points /\ Latest.settled /\ Latest \in Point
      BY <1>1, <2>4
    <2>6. ASSUME NEW q \in file.points, q.settled, q.id + 1 = file.nextId PROVE Latest = q
      <3>1. q.id <= Latest.id /\ q.id \in Int /\ Latest.id \in Int /\ file.nextId \in Int
        BY <1>1, <1>2, <2>4, <2>5, <2>6
      <3>2. Latest.id < file.nextId
        BY <1>1, <2>5 DEF Numbered
      <3>3. Latest.id = q.id
        BY <2>6, <3>1, <3>2
      <3> QED
        BY <1>1, <2>5, <3>3 DEF Numbered
    <2> QED
      BY <2>5, <2>6 DEF LatestOf
  <1> QED
    BY <1>4, <1>5

LEMMA RestartStep ==
  ASSUME RecorderInv, Restart
  PROVE  RecorderInv'
  <1>1. /\ bins' = NoReadings /\ temps' = NoReadings
        /\ settings' = file.settings /\ points' = file.points /\ nextId' = file.nextId
        /\ steadyFor' = Nothing /\ last' = Latest /\ lastAge' = Old /\ leftFor' = Nothing
        /\ saveError' = FALSE /\ file' = file
    BY LoadedIsNext DEF Restart, Recall
  <1>2. /\ file \in [settings : SETTINGS, points : SUBSET Point, nextId : 1..MaxId + 1]
        /\ Old \in 0..Old /\ file.nextId \in Int
    BY ConstantsAreNumbers DEF RecorderInv, TypeOK, Old
  <1>3. /\ LatestOf(file.points, file.nextId, Latest) /\ Latest \in Point \union {Nothing}
    BY LatestIsLast
  <1>4. PointsInv'
    BY <1>1, <1>2, <1>3 DEF RecorderInv, PointsInv, Numbered, LatestOf
  <1>5. DOMAIN NoReadings = {} /\ NoReadings \in [{} -> Bin] /\ NoReadings \in [{} -> SensorReadings]
    BY DEF NoReadings
  <1>6. TypeOK'
    BY <1>1, <1>2, <1>3, <1>5 DEF TypeOK, Old
  <1>7. Since(leftFor)'
    BY <1>1 DEF Since
  <1> QED
    BY <1>4, <1>6, <1>7 DEF RecorderInv

LEMMA RecorderStep == RecorderInv /\ [Next]_vars => RecorderInv'
  <1> SUFFICES ASSUME RecorderInv, [Next]_vars PROVE RecorderInv'
    OBVIOUS
  <1>1. CASE \E r \in Readings : Second(r)
    BY <1>1, SecondStep
  <1>2. CASE Tick
    BY <1>2, TickStep
  <1>3. CASE \E calm \in BOOLEAN : Look(calm) \/ Capture(calm)
    BY <1>3, LookStep, CaptureStep
  <1>4. CASE \E id \in 1..MaxId : Delete(id)
    BY <1>4, DeleteStep
  <1>5. CASE Clear
    BY <1>5, ClearStep
  <1>6. CASE \E new \in Offered : UpdateSettings(new)
    BY <1>6, SettingsStep
  <1>7. CASE Restart
    BY <1>7, RestartStep
  <1>8. CASE UNCHANGED vars
    BY <1>8 DEF RecorderInv, TypeOK, PointsInv, Numbered, LatestOf, Since, Old, vars, readingVars,
                storedVars, recallVars
  <1> QED
    BY <1>1, <1>2, <1>3, <1>4, <1>5, <1>6, <1>7, <1>8 DEF Next

LEMMA RecorderInvariant == Spec => []RecorderInv
  BY RecorderInit, RecorderStep, PTL DEF Spec

\* Readings stay within the history, ages within what they are told apart by,
\* and every point, in memory and on file, is an average of readings.
THEOREM RecorderTypeCorrect == Spec => []TypeOK
  <1>1. RecorderInv => TypeOK
    BY DEF RecorderInv
  <1> QED
    BY <1>1, RecorderInvariant, PTL

\* No two points of the list, or of the file, ever have an id in common, and
\* the next id is new to both: however many points were deleted, restarts made
\* and saves refused in between.
THEOREM IdsAreGivenOnce == Spec => []IdsNeverReused
  <1>1. RecorderInv => IdsNeverReused
    <2> SUFFICES ASSUME RecorderInv PROVE IdsNeverReused
      OBVIOUS
    <2>1. nextId \in Int /\ file.nextId \in Int /\ nextId >= file.nextId
      BY ConstantsAreNumbers DEF RecorderInv, TypeOK, PointsInv
    <2>2. \A p \in file.points : p.id \in Int
      BY ConstantsAreNumbers DEF RecorderInv, TypeOK, Point
    <2>3. \A p \in file.points : p.id < nextId
      BY <2>1, <2>2 DEF RecorderInv, PointsInv, Numbered
    <2> QED
      BY <2>1, <2>3 DEF RecorderInv, PointsInv, Numbered, IdsNeverReused
  <1> QED
    BY <1>1, RecorderInvariant, PTL

\* A deleted point, or one taken before the crystal had settled, holds no
\* automatic point up; what does can be seen in the list, and deleted there.
THEOREM HeldUpByListed == Spec => []RememberedIsListed
  <1>1. RecorderInv => RememberedIsListed
    BY DEF RecorderInv, PointsInv, LatestOf, RememberedIsListed
  <1> QED
    BY <1>1, RecorderInvariant, PTL

\* tick takes a point for a crystal that left the last one and averages away
\* from it.
LEMMA TickIsElsewhere ==
  ASSUME RecorderInv, Tick, NEW p \in points' \ points, NEW q \in points,
         q.settled, q.id + 1 = nextId
  PROVE  q = last /\ (\A a \in Usable : a < lastAge) /\ ~Near(p, q)
  <1>1. /\ TypeOK /\ Since(leftFor) /\ Armed /\ Capturable /\ Settled(TRUE)
        /\ TakePoint(TRUE, TRUE)
    BY DEF RecorderInv, Tick
  <1>2. p = Taking(TRUE, TRUE)
    BY <1>1, PointTaken
  <1>3. q = last /\ last # Nothing
    <2>1. q \in Point
      BY <1>1 DEF TypeOK
    <2> QED
      BY <2>1, NothingIsNoPoint DEF RecorderInv, PointsInv, LatestOf
  <1>4. Departure # Nothing /\ ~Near(Mean(Good), last)
    BY <1>1, <1>3 DEF Armed, PointHere
  <1>5. Steady(TRUE)
    <2>1. SteadyTime(TRUE) # Nothing
      BY <1>1 DEF Settled
    <2> QED
      BY <2>1 DEF SteadyTime
  <1>6. Usable = Good
    BY <1>5 DEF Steady, Usable, Good
  <1>7. ~Near(p, q)
    <2>1. p.sum = Mean(Good).sum /\ p.n = Mean(Good).n
      BY <1>2, <1>6 DEF Taking
    <2>2. Near(p, q) <=> Near(Mean(Good), last)
      BY <1>3, <2>1 DEF Near
    <2> QED
      BY <1>4, <2>2
  <1>8. ASSUME NEW a \in Usable PROVE a < lastAge
    <2>1. a \in 0..HISTORY_S
      BY <1>1, GoodBins
    <2>2. a <= WindowAge
      BY <1>6 DEF Good, InWindow
    <2>3. a \in Int
      BY <2>1, ConstantsAreNumbers
    <2> QED
      BY <1>1, <1>4, <2>2, <2>3, WindowIsNew
  <1> QED
    BY <1>3, <1>7, <1>8

\* Only a point taken raises the next id.
LEMMA PlateauStep ==
  ASSUME RecorderInv, [Next]_vars, NEW p \in points' \ points, NEW q \in points,
         p.auto, q.settled, p.id = nextId, q.id + 1 = nextId, nextId' > nextId
  PROVE  q = last /\ (\A a \in Usable : a < lastAge) /\ ~Near(p, q)
  <1>1. nextId \in Int /\ file.nextId \in Int /\ nextId >= file.nextId
    BY ConstantsAreNumbers DEF RecorderInv, TypeOK, PointsInv
  <1>2. CASE Tick
    BY <1>2, TickIsElsewhere
  <1>3. CASE \E calm \in BOOLEAN : Capture(calm)
    <2>1. PICK calm \in BOOLEAN : Capture(calm)
      BY <1>3
    <2>2. Settled(calm) \in BOOLEAN
      BY SteadyTimeType DEF RecorderInv
    <2>3. points' = points \union {Taking(Settled(calm), FALSE)}
      BY <2>1, <2>2, PointTaken DEF Capture
    <2>4. p = Taking(Settled(calm), FALSE)
      BY <2>3
    <2> QED
      BY <2>4 DEF Taking
  <1>4. CASE Restart
    BY <1>1, <1>4, LoadedIsNext DEF Restart
  <1>5. CASE ~(Tick \/ (\E calm \in BOOLEAN : Capture(calm)) \/ Restart)
    <2>1. UNCHANGED nextId
      BY <1>5 DEF Next, Second, Look, Delete, Clear, UpdateSettings, storedVars, vars
    <2> QED
      BY <1>1, <2>1
  <1> QED
    BY <1>2, <1>3, <1>4, <1>5

\* A plateau is taken once: an automatic point shares no second with the
\* settled point before it and lies more than REARM_HZ from it, also when
\* points were deleted or the service restarted in between.
THEOREM PlateausAreTakenOnce == Spec => PlateauOnce
  <1>1. RecorderInv /\ [Next]_vars =>
          [\A p \in points' \ points, q \in points :
             p.auto /\ q.settled /\ p.id = nextId /\ q.id + 1 = nextId /\ nextId' > nextId
             => q = last /\ (\A a \in Usable : a < lastAge) /\ ~Near(p, q)]_vars
    BY PlateauStep
  <1> QED
    BY <1>1, RecorderInvariant, PTL DEF Spec, PlateauOnce

=============================================================================
