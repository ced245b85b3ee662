--------------------------- MODULE TemperatureWorker ---------------------------
(***************************************************************************)
(* The thread that reads the board's temperature sensors                   *)
(* (workers/temperature_worker.py) through the LTC2986 chip                *)
(* (domain/temperature_sensors.py, domain/ltc2986.py), and the chip itself.*)
(*                                                                         *)
(* The chip keeps what it was programmed with in RAM and the board may     *)
(* lose its power, and come back, between any two transfers; the bus may   *)
(* fail under any of them, and the service may be restarted with the chip  *)
(* left as it was.  One transfer is one step.                              *)
(***************************************************************************)
EXTENDS Integers, Sequences

CONSTANTS
  Retry,      \* rounds in RETRY_INTERVAL: between two attempts on an absent chip
  SlowStart   \* the chip takes longer to start than configure() takes to write

ASSUME RetryAssumption == Retry \in Nat \ {0} /\ SlowStart \in BOOLEAN

\* channel_assignments: the channels that are in use, each by what is on it.
Assigned == <<"rsense", "pt100", "cold_junction", "thermocouple">>

\* SENSORS: those that are converted, in that order.
Sensors == <<"pt100", "thermocouple", "cold_junction">>

\* What configure writes: the mains rejection, the table of the cold junction's
\* sensor, and the assignments.
Parts == <<"global", "table", "rsense", "pt100", "cold_junction", "thermocouple">>
AllParts == {Parts[i] : i \in DOMAIN Parts}
Keys == {Sensors[i] : i \in DOMAIN Sensors}

\* A result register: cleared, or of a conversion by a chip that held all of
\* Parts ("right") or not all ("wrong"), or of one that found a hard fault.
Results == {"cleared", "right", "wrong", "fault"}

VARIABLES
  power,      \* of the chip: "off", "starting" or "ready"
  conf,       \* the parts in its RAM
  result,     \* its result registers
  converting, \* the sensor it is converting, or "none"
  bus,        \* transfers succeed
  dieOk,      \* so do reads of the die's own sensor
  at, n,      \* where the worker is, and which transfer of a series is next
  sensors,    \* _sensors is not None
  opened,     \* device files open
  retry,      \* rounds until the next attempt is due
  die,        \* this round's die reading: whether there is one
  readings,   \* this round's sensors so far
  latest,     \* the newest TemperatureEvent, or NoEvent
  start       \* where the last run's T start came from

chip == <<power, conf, result, converting>>
faults == <<bus, dieOk>>
round == <<at, n, sensors, opened, retry, die, readings, latest>>
vars == <<chip, faults, round, start>>

NoEvent == [available |-> FALSE, die |-> FALSE, readings |-> << >>]

\* decode_result.  Variant: without the test of the VALID bit, a register that
\* was never filled reads as a temperature.
AnyTemperature(r) == IF r = "cleared" THEN "wrong" ELSE IF r = "fault" THEN "none" ELSE r

\* decode_result: no temperature without a valid result, or with a hard fault.
Temperature(r) == IF r \in {"cleared", "fault"} THEN "none" ELSE r

Reading(r) == [temperature |-> Temperature(r), valid |-> r # "cleared"]
Readings == [temperature : {"none", "right", "wrong"}, valid : BOOLEAN]
Events == [available : BOOLEAN, die : BOOLEAN, readings : Seq(Readings)]

TypeOK ==
  /\ power \in {"off", "starting", "ready"}
  /\ conf \subseteq AllParts
  /\ result \in [Keys -> Results]
  /\ converting \in Keys \union {"none"}
  /\ bus \in BOOLEAN /\ dieOk \in BOOLEAN
  /\ at \in {"rest", "open", "check", "idle", "write", "verify", "convert", "wait", "read"}
  /\ n \in 1..Len(Parts)
  /\ sensors \in BOOLEAN
  /\ opened \in Nat
  /\ retry \in 0..Retry
  /\ die \in BOOLEAN
  /\ readings \in Seq(Readings)
  /\ latest \in Events
  /\ start \in {"none", "typed", "crystal", "right", "wrong"}

Blank ==
  /\ conf = {} /\ result = [k \in Keys |-> "cleared"] /\ converting = "none"

Init ==
  /\ power \in {"off", "starting", "ready"} /\ Blank
  /\ bus \in BOOLEAN /\ dieOk \in BOOLEAN
  /\ at = "rest" /\ n = 1
  /\ sensors = FALSE /\ opened = 0 /\ retry = 0
  /\ die = FALSE /\ readings = << >> /\ latest = NoEvent
  /\ start = "none"

-----------------------------------------------------------------------------
(* The chip, the bus and the die's sensor. *)

\* A board without power, or one that is not there.
PowerOff ==
  /\ power # "off"
  /\ power' = "off"
  /\ conf' = {} /\ result' = [k \in Keys |-> "cleared"] /\ converting' = "none"
  /\ UNCHANGED <<faults, round, start>>

PowerOn ==
  /\ power = "off"
  /\ power' = "starting"
  /\ UNCHANGED <<conf, result, converting, faults, round, start>>

\* The chip is ready ~200 ms after power-up; the writes of configure, which
\* follow an idle chip, take some milliseconds.
ChipReady ==
  /\ power = "starting"
  /\ SlowStart => at # "write"
  /\ power' = "ready"
  /\ UNCHANGED <<conf, result, converting, faults, round, start>>

\* A conversion ends; without an assignment the channel has nothing to convert.
Converted ==
  /\ converting # "none"
  /\ \E r \in IF converting \notin conf THEN {"cleared"}
              ELSE {"fault", IF conf = AllParts THEN "right" ELSE "wrong"} :
       result' = [result EXCEPT ![converting] = r]
  /\ converting' = "none"
  /\ UNCHANGED <<power, conf, faults, round, start>>

Fault ==
  /\ \/ bus' = ~bus /\ UNCHANGED dieOk
     \/ dieOk' = ~dieOk /\ UNCHANGED bus
  /\ UNCHANGED <<chip, round, start>>

-----------------------------------------------------------------------------
(* The worker's round. *)

Goto(place, k) == at' = place /\ n' = k

Publish(event) ==
  /\ latest' = event
  /\ Goto("rest", 1)
  /\ readings' = << >>

\* Variant: open() lets its device file go without closing it.
LeftOpen == IF sensors THEN opened - 1 ELSE opened

\* Variant: what could not be opened is closed as well.
ClosedAnyway == opened - 1

\* What is open once a round has failed: TemperatureSensors.open closes what it
\* opened, _fail what was open before.
Closed == IF at = "open" THEN opened ELSE opened - 1

\* _fail, and the next attempt RETRY_INTERVAL later.
Fail ==
  /\ opened' = Closed
  /\ sensors' = FALSE
  /\ retry' = Retry
  /\ Publish([available |-> FALSE, die |-> die, readings |-> << >>])
  /\ UNCHANGED <<chip, die>>

\* Variant: the chip is taken to have kept its configuration.
FirstStepUnchecked == IF sensors THEN "convert" ELSE "open"

\* _read_once: a chip that was up may have lost its configuration since.
FirstStep == IF sensors THEN "check" ELSE "open"

\* _read_die, whatever has become of the chip.
ReadDie == die' = dieOk

\* The head of run's loop: an attempt, or a round that reports the die alone.
Round ==
  /\ at = "rest"
  /\ ReadDie
  /\ \/ /\ ~sensors /\ retry > 0
        /\ retry' \in 0..(retry - 1)
        /\ Publish([available |-> FALSE, die |-> die', readings |-> << >>])
     \/ /\ sensors \/ retry = 0
        /\ Goto(FirstStep, 1)
        /\ UNCHANGED <<retry, readings, latest>>
  /\ UNCHANGED <<chip, sensors, opened>>

\* SpiDevice, which raises if the device is not there.
Open ==
  /\ at = "open"
  /\ \/ bus /\ opened' = opened + 1 /\ Goto("idle", 1)
            /\ UNCHANGED <<chip, sensors, retry, die, readings, latest>>
     \/ ~bus /\ Fail

\* A transfer, of a chip that answers or not, raises when the bus has failed.
Transfer(place, outcome) ==
  /\ at = place
  /\ \/ bus /\ outcome /\ UNCHANGED <<opened, retry, die>>
     \/ ~bus /\ Fail

Answers == power = "ready"

\* wait_idle: a chip that is off or starting reads 0x00 or 0xFF.
Idle == Answers /\ converting = "none"

\* configure: wait_idle(STARTUP_TIMEOUT), which a chip that is ready meets.
WaitIdle ==
  \/ Transfer("idle", Idle /\ Goto("write", 1) /\ UNCHANGED <<chip, sensors, readings, latest>>)
  \/ at = "idle" /\ ~Answers /\ Fail

\* One write of configure; a chip that does not answer does not keep it.
Write ==
  Transfer("write",
    /\ conf' = IF Answers THEN conf \union {Parts[n]} ELSE conf
    /\ IF n < Len(Parts) THEN Goto("write", n + 1) ELSE Goto("verify", 1)
    /\ UNCHANGED <<power, result, converting, sensors, readings, latest>>)

\* What the assignment of a channel is read back as.
Holds(channel) == Answers /\ channel \in conf

\* configured(), channel by channel: before a round's conversions...
Check ==
  Transfer("check",
    /\ IF ~Holds(Assigned[n]) THEN Goto("idle", 1)
       ELSE IF n < Len(Assigned) THEN Goto("check", n + 1) ELSE Goto("convert", 1)
    /\ UNCHANGED <<chip, sensors, readings, latest>>)

\* ...and at the end of configure, which raises on a difference.
Verify ==
  \/ Transfer("verify",
       /\ Holds(Assigned[n])
       /\ IF n < Len(Assigned) THEN Goto("verify", n + 1) /\ UNCHANGED sensors
          ELSE Goto("convert", 1) /\ sensors' = TRUE
       /\ UNCHANGED <<chip, readings, latest>>)
  \/ at = "verify" /\ bus /\ ~Holds(Assigned[n]) /\ Fail

\* convert: the start of a conversion...
Convert ==
  Transfer("convert",
    /\ converting' = IF Answers THEN Sensors[n] ELSE converting
    /\ Goto("wait", n)
    /\ UNCHANGED <<power, conf, result, sensors, readings, latest>>)

\* ...its end, or CONVERSION_TIMEOUT on a chip that does not answer...
Await ==
  \/ Transfer("wait", Idle /\ Goto("read", n) /\ UNCHANGED <<chip, sensors, readings, latest>>)
  \/ at = "wait" /\ ~Answers /\ Fail

\* ...and its result.  A chip that does not answer reads as no valid result or
\* as every fault at once.
ReadResult ==
  Transfer("read",
    \E r \in IF Answers THEN {result[Sensors[n]]} ELSE {"cleared", "fault"} :
      LET all == Append(readings, Reading(r))
      IN  /\ IF n < Len(Sensors)
             THEN Goto("convert", n + 1) /\ readings' = all /\ UNCHANGED latest
             ELSE Publish([available |-> TRUE, die |-> die, readings |-> all])
          /\ UNCHANGED <<chip, sensors>>)

Worker ==
  /\ \/ Round \/ Open \/ WaitIdle \/ Write \/ Check \/ Verify
     \/ Convert \/ Await \/ ReadResult
  /\ UNCHANGED <<faults, start>>

-----------------------------------------------------------------------------

\* start_temperature, on the QCM worker's thread: a sensor's reading if it is
\* current and has one, the crystal's own temperature if it can be solved, or
\* what was typed in.
FromSensor(i) ==
  IF latest.available /\ latest.readings[i].temperature # "none"
  THEN latest.readings[i].temperature ELSE "typed"

StartRun ==
  /\ start' \in {"typed", "crystal"} \union {FromSensor(i) : i \in DOMAIN Sensors}
  /\ UNCHANGED <<chip, faults, round>>

\* The service ends, at rest or in the middle of anything, and is started again.
Restart ==
  /\ Goto("rest", 1)
  /\ sensors' = FALSE /\ opened' = 0 /\ retry' = 0
  /\ die' = FALSE /\ readings' = << >> /\ latest' = NoEvent
  /\ start' = "none"
  /\ UNCHANGED <<chip, faults>>

Next ==
  \/ Worker
  \/ PowerOff \/ PowerOn \/ ChipReady \/ Converted \/ Fault
  \/ StartRun \/ Restart

\* The thread runs as long as the service does; a chip with power starts, and
\* ends the conversions it starts.
Fairness == WF_vars(Worker) /\ WF_vars(ChipReady) /\ WF_vars(Converted)

Spec == Init /\ [][Next]_vars /\ Fairness

-----------------------------------------------------------------------------
(* What the worker must guarantee. *)

\* A temperature that is shown, logged or taken for a run's start was converted
\* by a chip that held the whole configuration, whenever the board lost power.
ReadingsConfigured ==
  /\ \A i \in DOMAIN latest.readings : latest.readings[i].temperature # "wrong"
  /\ start # "wrong"

\* However attempts fail, and for however long the board is away, the device is
\* open once, or not at all between two attempts.
OneDevice == opened = IF sensors \/ at \notin {"rest", "open"} THEN 1 ELSE 0

\* Once the board has power for good and the bus works, every sensor reports
\* again by itself: a temperature, or the fault that hides it.
ReadingsReturn ==
  <>[](bus /\ power # "off") /\ <>[][~Restart]_vars =>
    <>[](latest.available /\ \A i \in DOMAIN latest.readings : latest.readings[i].valid)
=============================================================================
