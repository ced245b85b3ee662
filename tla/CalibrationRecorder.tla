------------------------ MODULE CalibrationRecorder ------------------------
(***************************************************************************)
(* domain/calibration_recorder.py: readings come in once a second, the     *)
(* recorder decides when the crystal has settled and takes the points of a *)
(* calibration, by itself or when told, over restarts and a disk that may  *)
(* refuse a save.  Every public method takes the recorder's one lock and   *)
(* is one action here.  The clock goes forward, and a time is kept as its  *)
(* age in seconds, as far as it can still tell.  A second without readings *)
(* ages the history too.                                                   *)
(*                                                                         *)
(* A bin is the average of one second, and the readings kept are functions *)
(* of their age.  Of the two modes fT is kept, of a sensor only whether it *)
(* had a reading without a fault.  Averages are a sum and a count, and     *)
(* slopes are compared without dividing.                                   *)
(***************************************************************************)
EXTENDS Integers, FiniteSets, Functions, FiniteSetsExt

CONSTANTS
  Readings,     \* what a second may bring: a bin or Nothing, and a good or a
                \* bad reading of the sensor, or Nothing
  Nothing,      \* no reading, no fT, no point, no time
  HISTORY_S,    \* readings kept
  Criteria,     \* when the crystal has settled, as an operator may set it
  DefaultCriteria,
  LongestHold,  \* the most that hold_s may be
  REARM_HZ, DEPART_S, MIN_POINT_SECONDS, STALE_S,
  Offered,      \* the changes of settings that an operator may make
  MaxId         \* bound: points ever taken

Sources == {"manual", "sensor"}

\* window_s, the seconds of COVERAGE * window_s, max_ft_drift per second, hold_s.
Criterion == [window : Nat, needed : Nat, maxDrift : Nat, hold : 0..LongestHold]

SETTINGS == [source : Sources, auto : BOOLEAN, criteria : Criteria]
DefaultSettings == [source |-> "manual", auto |-> TRUE, criteria |-> DefaultCriteria]

\* A second in which a sample was not locked may have no fT.
Bin == [fT : Nat, locked : {TRUE}] \union [fT : Nat \union {Nothing}, locked : {FALSE}]

SensorReadings == {"good", "bad"}

Point == [id : 1..MaxId, sum : Nat, n : Nat, settled : BOOLEAN, auto : BOOLEAN]

ASSUME RecorderAssumption ==
  /\ Readings \subseteq [bin : Bin \union {Nothing}, sensor : SensorReadings \union {Nothing}]
  /\ {HISTORY_S, LongestHold, REARM_HZ, DEPART_S, MIN_POINT_SECONDS, STALE_S, MaxId}
       \subseteq Nat
  /\ Criteria \subseteq Criterion /\ DefaultCriteria \in Criteria
  /\ \A c \in Criteria : 1 < c.needed /\ STALE_S < c.window /\ c.window <= HISTORY_S + 1
  /\ Offered \subseteq SETTINGS
  /\ 0 < DEPART_S /\ 0 < MIN_POINT_SECONDS
  /\ Nothing \notin Nat \union Bin \union SensorReadings \union Point

VARIABLES
  bins, temps,       \* _bins and _temps, by age
  settings,
  points, nextId,    \* the points there are, and the id of the next
  steadyFor,         \* how long since _steady_since, or Nothing
  last,              \* the point _last_fT and _last_point are of
  lastAge,           \* how long since the last second averaged in it, _last_end
  leftFor,           \* how long since _left_at, or Nothing
  file,              \* points.json
  saveError          \* save_error is set

readingVars == <<bins, temps>>
storedVars == <<settings, points, nextId>>
recallVars == <<last, lastAge, leftFor>>
vars == <<readingVars, storedVars, steadyFor, recallVars, file, saveError>>

Old == HISTORY_S + 1

\* Time goes by for an age that is told apart up to `most`.
Aged(age, most) == IF age \in {Nothing, most} THEN age ELSE age + 1

Ages == 0..HISTORY_S

NoReadings == [a \in {} |-> Nothing]

TypeOK ==
  /\ DOMAIN bins \subseteq Ages /\ bins \in [DOMAIN bins -> Bin]
  /\ DOMAIN temps \subseteq Ages /\ temps \in [DOMAIN temps -> SensorReadings]
  /\ settings \in SETTINGS
  /\ points \subseteq Point /\ nextId \in 1..MaxId + 1
  /\ steadyFor \in 0..LongestHold \union {Nothing}
  /\ last \in Point \union {Nothing}
  /\ lastAge \in 0..Old /\ leftFor \in 0..Old \union {Nothing}
  /\ file \in [settings : SETTINGS, points : SUBSET Point, nextId : 1..MaxId + 1]
  /\ saveError \in BOOLEAN

Init ==
  /\ bins = NoReadings /\ temps = NoReadings
  /\ settings = DefaultSettings /\ points = {} /\ nextId = 1
  /\ steadyFor = Nothing /\ last = Nothing /\ lastAge = Old /\ leftFor = Nothing
  /\ file = [settings |-> DefaultSettings, points |-> {}, nextId |-> 1]
  /\ saveError = FALSE

-----------------------------------------------------------------------------
(* Readings in. *)

\* Variant: a second too many is kept.
TakenLong(readings, reading) ==
  LET kept == {a \in 1..HISTORY_S + 1 : a - 1 \in DOMAIN readings}
      now  == IF reading = Nothing THEN {} ELSE {0}
  IN  [a \in kept \union now |-> IF a = 0 THEN reading ELSE readings[a - 1]]

\* A second later, with a new reading: what is older than HISTORY_S goes.
Taken(readings, reading) ==
  LET kept == {a \in 1..HISTORY_S : a - 1 \in DOMAIN readings}
      now  == IF reading = Nothing THEN {} ELSE {0}
  IN  [a \in kept \union now |-> IF a = 0 THEN reading ELSE readings[a - 1]]

\* A second goes by: add_frequencies and add_temperatures.
Second(r) ==
  /\ bins' = Taken(bins, r.bin) /\ temps' = Taken(temps, r.sensor)
  /\ steadyFor' = Aged(steadyFor, LongestHold)
  /\ lastAge' = Aged(lastAge, Old) /\ leftFor' = Aged(leftFor, Old)
  /\ UNCHANGED <<storedVars, last, file, saveError>>

-----------------------------------------------------------------------------
(* Evaluation. *)

Abs(n) == IF n < 0 THEN -n ELSE n

\* Two averages within REARM_HZ of one another.
Near(a, b) == Abs(a.sum * b.n - b.sum * a.n) <= REARM_HZ * a.n * b.n

\* The average over the bins of some ages.
Mean(ages) == [sum |-> SumFunction([a \in ages |-> bins[a].fT]), n |-> Cardinality(ages)]

\* _slope_per_min, against max_ft_drift.  It takes two seconds at least, and a
\* window that is covered has more.
Drifting(ages) ==
  LET n == Cardinality(ages)
      t == SumFunction([a \in ages |-> a])
      y == SumFunction([a \in ages |-> bins[a].fT])
  IN  Abs(n * SumFunction([a \in ages |-> a * bins[a].fT]) - t * y)
        > settings.criteria.maxDrift * (n * SumFunction([a \in ages |-> a * a]) - t * t)

Away(a) == ~Near([sum |-> bins[a].fT, n |-> 1], last)

\* The seconds in a row, from age `a` on, away from the last point.
AwayFrom(seen, a) == {b \in seen : b <= a /\ \A c \in seen : b <= c /\ c <= a => Away(c)}

\* _departure: the first of DEPART_S seconds in a row away from the last point.
Departure ==
  IF leftFor # Nothing \/ last = Nothing THEN leftFor
  ELSE LET seen == {a \in DOMAIN bins : a < lastAge /\ bins[a].fT # Nothing}
           gone == {a \in seen : Cardinality(AwayFrom(seen, a)) >= DEPART_S}
       IN  IF gone = {} THEN Nothing ELSE Max(gone)

\* Variant: the window reaches back all the way.
WholeWindow == settings.criteria.window - 1

\* _window_start
WindowAge ==
  LET left   == Departure
      window == settings.criteria.window
  IN  IF left = Nothing \/ left >= window THEN window - 1 ELSE left

InWindow(readings) == LET oldest == WindowAge IN {a \in DOMAIN readings : a <= oldest}

Good == {a \in InWindow(bins) : bins[a].fT # Nothing}

Current(readings) == \E a \in DOMAIN readings : a <= STALE_S

GoodTemps == {a \in InWindow(temps) : temps[a] = "good"}

\* _sensor_values and what _evaluate adds to its problem.
SensorFine == Current(temps) /\ GoodTemps = InWindow(temps)

\* _evaluate up to `steady`.  The last third's drift and the sensor's can only
\* hold a point up; `calm` says that they do not.
Steady(calm) ==
  /\ calm /\ Current(bins)
  /\ \A a \in InWindow(bins) : bins[a].locked
  /\ Cardinality(Good) >= settings.criteria.needed /\ ~Drifting(Good)
  /\ settings.source = "sensor" => SensorFine /\ 2 * Cardinality(GoodTemps) >= settings.criteria.needed

SteadyTime(calm) ==
  IF ~Steady(calm) THEN Nothing ELSE IF steadyFor = Nothing THEN 0 ELSE steadyFor

Settled(calm) == SteadyTime(calm) # Nothing /\ SteadyTime(calm) >= settings.criteria.hold

\* Variant: the crystal has left, whatever the average says.
PointHereUntilLeft == last # Nothing /\ Departure = Nothing

\* Whether the last point was taken at this temperature.
PointHere ==
  /\ last # Nothing
  /\ Departure = Nothing \/ (Good # {} /\ Near(Mean(Good), last))

Armed == settings.source = "sensor" /\ settings.auto /\ Good # {} /\ ~PointHere

-----------------------------------------------------------------------------
(* Points. *)

\* _save, which may fail, though not twice running (bound).
Save ==
  \/ /\ file' = [settings |-> settings', points |-> points', nextId |-> nextId']
     /\ saveError' = FALSE
  \/ ~saveError /\ UNCHANGED file /\ saveError' = TRUE

Usable == {a \in Good : bins[a].locked}

\* What _capture raises a ValueError without.
Capturable ==
  /\ Cardinality(Usable) >= MIN_POINT_SECONDS
  /\ settings.source = "sensor" => InWindow(temps) # {} /\ GoodTemps = InWindow(temps)

\* _capture
TakePoint(settled, auto) ==
  /\ nextId <= MaxId
  /\ LET point == [id |-> nextId, sum |-> Mean(Usable).sum, n |-> Mean(Usable).n,
                   settled |-> settled, auto |-> auto]
     IN  /\ points' = points \union {point}
         /\ nextId' = nextId + 1
         /\ IF settled   \* the point for its temperature
            THEN last' = point /\ lastAge' = Min(Usable) /\ leftFor' = Nothing
            ELSE leftFor' = Departure /\ UNCHANGED <<last, lastAge>>
         /\ UNCHANGED settings
         /\ Save

\* An evaluation and no more: status, a tick that takes no point, a capture
\* that is refused.
Look(calm) ==
  /\ steadyFor' = SteadyTime(calm)
  /\ leftFor' = Departure
  /\ UNCHANGED <<readingVars, storedVars, last, lastAge, file, saveError>>

\* tick, when it is time to take a point.  It evaluates once more afterwards:
\* the window began when fT left, and may now reach back to before that.
Tick ==
  /\ Armed /\ Capturable /\ Settled(TRUE)
  /\ TakePoint(TRUE, TRUE)
  /\ UNCHANGED readingVars
  /\ \E calm \in BOOLEAN : steadyFor' = IF Steady(calm)' THEN SteadyTime(TRUE) ELSE Nothing

\* POST /calibration/points: capture
Capture(calm) ==
  /\ Capturable
  /\ steadyFor' = SteadyTime(calm)
  /\ TakePoint(Settled(calm), FALSE)
  /\ UNCHANGED readingVars

\* _remember, of a point taken before any reading there is.
Recall(point) == last' = point /\ lastAge' = Old /\ leftFor' = Nothing

\* Variant: the point is gone, and still stands in the way of the next.
ForgetsNot(id) == FALSE

Forgets(id) == last # Nothing /\ last.id = id

\* delete
Delete(id) ==
  /\ \E p \in points : p.id = id
  /\ points' = {p \in points : p.id # id}
  /\ IF Forgets(id) THEN Recall(Nothing) ELSE UNCHANGED recallVars
  /\ UNCHANGED <<settings, nextId>> /\ Save
  /\ UNCHANGED <<readingVars, steadyFor>>

Clear ==
  /\ points' = {} /\ Recall(Nothing)
  /\ UNCHANGED <<settings, nextId>> /\ Save
  /\ UNCHANGED <<readingVars, steadyFor>>

\* update_settings
UpdateSettings(new) ==
  /\ settings' = new
  /\ steadyFor' = IF new.source # settings.source THEN Nothing ELSE steadyFor
  /\ UNCHANGED <<points, nextId>> /\ Save
  /\ UNCHANGED <<readingVars, recallVars>>

-----------------------------------------------------------------------------
(* A restart, or a power cut: a save is atomic, so before it or after it. *)

\* Variant: the next id is found from the points.
LoadedIdOfPoints == Max({1} \union {p.id + 1 : p \in file.points})

\* next_id, or one past every point if that is more.
LoadedId == Max({file.nextId} \union {p.id + 1 : p \in file.points})

\* The settled point on file that was taken last.
Latest ==
  LET settled == {p \in file.points : p.settled}
  IN  IF settled = {} THEN Nothing ELSE CHOOSE p \in settled : \A q \in settled : q.id <= p.id

Restart ==
  /\ bins' = NoReadings /\ temps' = NoReadings
  /\ settings' = file.settings /\ points' = file.points /\ nextId' = LoadedId
  /\ steadyFor' = Nothing /\ Recall(Latest)
  /\ saveError' = FALSE
  /\ UNCHANGED file

Next ==
  \/ \E r \in Readings : Second(r)
  \/ Tick
  \/ \E calm \in BOOLEAN : Look(calm) \/ Capture(calm)
  \/ \E id \in 1..MaxId : Delete(id)
  \/ Clear
  \/ \E new \in Offered : UpdateSettings(new)
  \/ Restart

Spec == Init /\ [][Next]_vars

-----------------------------------------------------------------------------
(* What the recorder must guarantee. *)

\* A plateau is taken once: an automatic point shares no second with the
\* settled point before it and lies more than REARM_HZ from it, also when the
\* service was restarted in between.
PlateauOnce ==
  [][\A p \in points' \ points, q \in points :
       p.auto /\ q.settled /\ p.id = nextId /\ q.id + 1 = nextId /\ nextId' > nextId
       => q = last /\ (\A a \in Usable : a < lastAge) /\ ~Near(p, q)]_vars

\* An id is given once, over deletions, restarts and saves that fail, as far
\* as the file knows.
IdsNeverReused ==
  /\ nextId >= file.nextId
  /\ \A ps \in {points, file.points} :
       /\ \A p \in ps : p.id < nextId
       /\ \A p, q \in ps : p.id = q.id => p = q

\* What holds the next automatic point up is a settled point of the list: one
\* taken on the way does not, one that was deleted does not.
RememberedIsListed == last # Nothing => last.settled /\ last \in points
=============================================================================
