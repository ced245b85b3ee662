------------------------ MODULE TemperatureWorkerProofs ------------------------
(***************************************************************************)
(* Why no reading of a chip that is not programmed is ever taken for a     *)
(* temperature, and why no attempt leaves the device open: for every retry *)
(* interval, wherever the supply, the bus or the service fails.            *)
(***************************************************************************)
EXTENDS TemperatureWorker, TLAPS

\* Places at which the chip was found, or made, fully programmed.
Measuring == {"convert", "wait", "read"}

\* What is in the chip is a beginning of Parts: it was written in that order
\* into a chip that was idle, and a reset takes all of it.  Hence a chip that
\* holds the last assignment holds everything.
ChipInv ==
  /\ conf # {} => power = "ready"
  /\ converting # "none" => power = "ready" /\ at # "write"
  /\ \A i, j \in DOMAIN Parts : j < i /\ Parts[i] \in conf => Parts[j] \in conf
  /\ at = "write" /\ power = "ready" =>
       \A j \in DOMAIN Parts : j < n => Parts[j] \in conf
  /\ at \in Measuring \/ converting # "none" => conf = {} \/ conf = AllParts

\* Where the worker holds the device, and how far it is in a series.
WorkerInv ==
  /\ sensors => at # "open"
  /\ at \in Measuring \union {"check"} => sensors
  /\ at \in {"check", "verify"} => n <= Len(Assigned)
  /\ at \in Measuring => n <= Len(Sensors)
  /\ OneDevice

\* No result, no reading of this round and none that was published comes from
\* a chip that was not fully programmed.
DataInv ==
  /\ \A k \in Keys : result[k] # "wrong"
  /\ \A i \in DOMAIN readings : readings[i].temperature # "wrong"
  /\ IF at \in Measuring THEN Len(readings) = n - 1 ELSE readings = << >>
  /\ latest.available => Len(latest.readings) = Len(Sensors)
  /\ ReadingsConfigured

IInv == TypeOK /\ ChipInv /\ WorkerInv /\ DataInv

-----------------------------------------------------------------------------

\* The parts, in the order configure writes them, the assignments last.
LEMMA PartsInOrder ==
  /\ Len(Parts) = 6 /\ DOMAIN Parts = 1..6
  /\ Len(Assigned) = 4 /\ DOMAIN Assigned = 1..4
  /\ Len(Sensors) = 3 /\ DOMAIN Sensors = 1..3
  /\ Assigned[4] = Parts[6]
  /\ \A i, j \in 1..6 : Parts[i] = Parts[j] => i = j
  /\ \A i \in 1..6 : Parts[i] \in AllParts
  /\ \A p \in AllParts : \E i \in 1..6 : p = Parts[i]
  /\ \A i \in 1..3 : Sensors[i] \in Keys
  /\ "none" \notin Keys
  BY DEF Parts, Assigned, Sensors, AllParts, Keys

\* What a round that fails, or has not begun, publishes.
LEMMA EmptyEvents ==
  /\ << >> \in Seq(Readings) /\ Len(<< >>) = 0 /\ DOMAIN << >> = {}
  /\ \A a, d \in BOOLEAN :
       LET e == [available |-> a, die |-> d, readings |-> << >>]
       IN  e \in Events /\ e.available = a /\ e.readings = << >>
  <1>1. << >> \in Seq(Readings) /\ Len(<< >>) = 0 /\ DOMAIN << >> = {}
    OBVIOUS
  <1> QED BY <1>1 DEF Events

\* A chip that holds the last part holds them all.
LEMMA LastMeansAll ==
  ASSUME TypeOK, ChipInv, Parts[6] \in conf
  PROVE  conf = AllParts
  <1>1. \A i \in 1..6 : Parts[i] \in conf
    BY PartsInOrder DEF ChipInv
  <1>2. AllParts \subseteq conf BY <1>1, PartsInOrder
  <1>3. conf \subseteq AllParts BY DEF TypeOK
  <1> QED BY <1>2, <1>3

\* It starts so.
LEMMA Initially == ASSUME Init PROVE IInv
  <1> USE RetryAssumption, PartsInOrder
  <1>1. TypeOK
    <2>1. result \in [Keys -> Results] BY DEF Init, Blank, Results
    <2>2. latest \in Events /\ readings \in Seq(Readings)
      BY EmptyEvents DEF Init, NoEvent
    <2>3. n \in 1..6 /\ retry \in 0..Retry /\ opened \in Nat BY DEF Init
    <2> QED BY <2>1, <2>2, <2>3 DEF Init, Blank, TypeOK
  <1>2. ChipInv BY DEF Init, Blank, ChipInv, Measuring
  <1>3. WorkerInv BY DEF Init, WorkerInv, OneDevice, Measuring
  <1>4. DataInv BY DEF Init, Blank, NoEvent, DataInv, ReadingsConfigured, Measuring
  <1> QED BY <1>1, <1>2, <1>3, <1>4 DEF IInv

-----------------------------------------------------------------------------
(* The chip and its surroundings. *)

\* Power lost, at any point: nothing is held, no conversion runs.
LEMMA PowerOffKeeps == ASSUME IInv, PowerOff PROVE IInv'
  <1> USE DEF IInv, PowerOff, faults, round
  <1>1. TypeOK' BY DEF TypeOK, Results
  <1>2. ChipInv' BY DEF ChipInv, TypeOK
  <1>3. WorkerInv' BY DEF WorkerInv, OneDevice
  <1>4. DataInv' BY DEF DataInv, ReadingsConfigured
  <1> QED BY <1>1, <1>2, <1>3, <1>4

LEMMA PowerOnKeeps == ASSUME IInv, PowerOn PROVE IInv'
  <1> USE DEF IInv, PowerOn, faults, round
  <1>1. TypeOK' BY DEF TypeOK
  <1>2. ChipInv' BY DEF ChipInv, TypeOK
  <1>3. WorkerInv' BY DEF WorkerInv, OneDevice
  <1>4. DataInv' BY DEF DataInv, ReadingsConfigured
  <1> QED BY <1>1, <1>2, <1>3, <1>4

\* A chip that becomes ready is empty, and no series of writes is under way.
LEMMA ChipReadyKeeps == ASSUME SlowStart, IInv, ChipReady PROVE IInv'
  <1> USE DEF IInv, ChipReady, faults, round
  <1>1. TypeOK' BY DEF TypeOK
  <1>2. ChipInv' BY DEF ChipInv, TypeOK
  <1>3. WorkerInv' BY DEF WorkerInv, OneDevice
  <1>4. DataInv' BY DEF DataInv, ReadingsConfigured
  <1> QED BY <1>1, <1>2, <1>3, <1>4

\* A conversion that finds its channel assigned finds the whole configuration.
LEMMA ConvertedKeeps == ASSUME IInv, Converted PROVE IInv'
  <1> USE DEF IInv, Converted, faults, round
  <1>1. converting \in conf => conf = AllParts
    BY DEF ChipInv
  <1>2. PICK r \in {"cleared", "fault", "right"} : result' = [result EXCEPT ![converting] = r]
    BY <1>1
  <1>3. TypeOK'
    <2>1. result' \in [Keys -> Results] BY <1>2 DEF TypeOK, Results
    <2> QED BY <2>1 DEF TypeOK
  <1>4. ChipInv' BY DEF ChipInv, TypeOK
  <1>5. WorkerInv' BY DEF WorkerInv, OneDevice
  <1>6. DataInv' BY <1>2 DEF DataInv, ReadingsConfigured, TypeOK
  <1> QED BY <1>3, <1>4, <1>5, <1>6

LEMMA FaultKeeps == ASSUME IInv, Fault PROVE IInv'
  <1> USE DEF IInv, Fault, chip, round
  <1>1. TypeOK'
    <2>1. bus' \in BOOLEAN /\ dieOk' \in BOOLEAN BY DEF TypeOK
    <2> QED BY <2>1 DEF TypeOK
  <1>2. ChipInv' BY DEF ChipInv
  <1>3. WorkerInv' BY DEF WorkerInv, OneDevice
  <1>4. DataInv' BY DEF DataInv, ReadingsConfigured
  <1> QED BY <1>1, <1>2, <1>3, <1>4

\* A run takes what was published, and that is none of the wrong ones.
LEMMA StartRunKeeps == ASSUME IInv, StartRun PROVE IInv'
  <1> USE DEF IInv, StartRun, chip, faults, round
  <1>1. start' \in {"typed", "crystal", "right"}
    <2>1. ASSUME NEW i \in 1..3, latest.available
          PROVE  latest.readings[i].temperature \in {"none", "right"}
      <3>1. latest.readings \in Seq(Readings) BY DEF TypeOK, Events
      <3>2. i \in DOMAIN latest.readings BY <2>1, <3>1, PartsInOrder DEF DataInv
      <3>3. latest.readings[i] \in Readings BY <3>1, <3>2
      <3> QED BY <3>2, <3>3 DEF DataInv, ReadingsConfigured, Readings
    <2>2. \A i \in 1..3 : FromSensor(i) \in {"typed", "right"}
      BY <2>1 DEF FromSensor
    <2> QED BY <2>2, PartsInOrder
  <1>2. TypeOK' BY <1>1 DEF TypeOK
  <1>3. ChipInv' BY DEF ChipInv
  <1>4. WorkerInv' BY DEF WorkerInv, OneDevice
  <1>5. DataInv' BY <1>1 DEF DataInv, ReadingsConfigured
  <1> QED BY <1>2, <1>3, <1>4, <1>5

LEMMA RestartKeeps == ASSUME IInv, Restart PROVE IInv'
  <1> USE RetryAssumption, PartsInOrder DEF IInv, Restart, chip, faults, Goto, NoEvent
  <1>1. TypeOK'
    <2>1. latest' \in Events /\ readings' \in Seq(Readings) BY EmptyEvents
    <2>2. n' \in 1..6 /\ retry' \in 0..Retry /\ opened' \in Nat OBVIOUS
    <2> QED BY <2>1, <2>2 DEF TypeOK
  <1>2. ChipInv' BY DEF ChipInv, Measuring
  <1>3. WorkerInv' BY DEF WorkerInv, OneDevice, Measuring
  <1>4. DataInv' BY DEF DataInv, ReadingsConfigured, Measuring
  <1> QED BY <1>1, <1>2, <1>3, <1>4

-----------------------------------------------------------------------------
(* The worker's steps. *)

\* A round that fails, wherever it was, closes what it had open.
LEMMA FailKeeps ==
  ASSUME IInv, Fail, at # "rest", UNCHANGED <<faults, start>>
  PROVE  IInv'
  <1> USE RetryAssumption, PartsInOrder DEF IInv, Fail, Publish, Goto, Closed, chip, faults
  <1>1. TypeOK'
    <2>1. latest' \in Events /\ readings' \in Seq(Readings)
      BY EmptyEvents DEF TypeOK
    <2>2. opened' \in Nat
      BY DEF TypeOK, WorkerInv, OneDevice
    <2>3. n' \in 1..6 /\ retry' \in 0..Retry OBVIOUS
    <2> QED BY <2>1, <2>2, <2>3 DEF TypeOK
  <1>2. ChipInv' BY DEF ChipInv, Measuring
  <1>3. WorkerInv' BY DEF WorkerInv, OneDevice, Measuring, TypeOK
  <1>4. DataInv' BY DEF DataInv, ReadingsConfigured, Measuring
  <1> QED BY <1>1, <1>2, <1>3, <1>4

LEMMA RoundKeeps ==
  ASSUME IInv, Round, UNCHANGED <<faults, start>>
  PROVE  IInv'
  <1> USE RetryAssumption, PartsInOrder
        DEF IInv, Round, ReadDie, Publish, Goto, FirstStep, chip, faults
  <1>1. TypeOK'
    <2>1. die' \in BOOLEAN BY DEF TypeOK
    <2>2. latest' \in Events
      <3>1. [available |-> FALSE, die |-> die', readings |-> << >>] \in Events
        BY <2>1, EmptyEvents
      <3>2. latest \in Events BY DEF TypeOK
      <3> QED BY <3>1, <3>2
    <2>5. readings' \in Seq(Readings) BY EmptyEvents DEF TypeOK
    <2>3. n' \in 1..6 OBVIOUS
    <2>4. retry' \in 0..Retry BY DEF TypeOK
    <2> QED BY <2>1, <2>2, <2>3, <2>4, <2>5 DEF TypeOK
  <1>2. ChipInv' BY DEF ChipInv, Measuring
  <1>3. WorkerInv' BY DEF WorkerInv, OneDevice, Measuring
  <1>4. DataInv' BY DEF DataInv, ReadingsConfigured, Measuring
  <1> QED BY <1>1, <1>2, <1>3, <1>4

LEMMA OpenKeeps ==
  ASSUME IInv, Open, UNCHANGED <<faults, start>>
  PROVE  IInv'
  <1>1. CASE Fail BY <1>1, FailKeeps DEF Open
  <1>2. CASE ~Fail
    <2> USE <1>2, PartsInOrder DEF IInv, Open, Goto, chip, faults
    <2>1. TypeOK' BY DEF TypeOK
    <2>2. ChipInv' BY DEF ChipInv, Measuring
    <2>3. WorkerInv' BY DEF WorkerInv, OneDevice, Measuring
    <2>4. DataInv' BY DEF DataInv, ReadingsConfigured, Measuring
    <2> QED BY <2>1, <2>2, <2>3, <2>4
  <1> QED BY <1>1, <1>2

LEMMA WaitIdleKeeps ==
  ASSUME IInv, WaitIdle, UNCHANGED <<faults, start>>
  PROVE  IInv'
  <1>1. CASE Fail BY <1>1, FailKeeps DEF WaitIdle, Transfer
  <1>2. CASE ~Fail
    <2> USE <1>2, PartsInOrder DEF IInv, WaitIdle, Transfer, Idle, Answers, Goto, chip, faults
    <2>1. TypeOK' BY DEF TypeOK
    <2>2. ChipInv' BY DEF ChipInv, Measuring
    <2>3. WorkerInv' BY DEF WorkerInv, OneDevice, Measuring
    <2>4. DataInv' BY DEF DataInv, ReadingsConfigured, Measuring
    <2> QED BY <2>1, <2>2, <2>3, <2>4
  <1> QED BY <1>1, <1>2

\* One more part, behind those before it, or none.
LEMMA WriteKeeps ==
  ASSUME IInv, Write, UNCHANGED <<faults, start>>
  PROVE  IInv'
  <1>1. CASE Fail BY <1>1, FailKeeps DEF Write, Transfer
  <1>2. CASE ~Fail
    <2> USE <1>2, PartsInOrder DEF IInv, Write, Transfer, Answers, Goto, faults
    <2>1. TypeOK' BY DEF TypeOK
    <2>2. ChipInv'
      <3>1. n \in 1..6 /\ Parts[n] \in AllParts BY DEF TypeOK
      <3>2. (conf # {} => power = "ready")' BY DEF ChipInv
      <3>3. (\A i, j \in DOMAIN Parts : j < i /\ Parts[i] \in conf => Parts[j] \in conf)'
        BY <3>1 DEF ChipInv
      <3>4. (at = "write" /\ power = "ready" =>
               \A j \in DOMAIN Parts : j < n => Parts[j] \in conf)'
        BY <3>1 DEF ChipInv
      <3>5. converting' = "none" /\ at' \notin Measuring BY DEF ChipInv, Measuring
      <3> QED BY <3>2, <3>3, <3>4, <3>5 DEF ChipInv
    <2>3. WorkerInv' BY DEF WorkerInv, OneDevice, Measuring
    <2>4. DataInv' BY DEF DataInv, ReadingsConfigured, Measuring
    <2> QED BY <2>1, <2>2, <2>3, <2>4
  <1> QED BY <1>1, <1>2

\* A chip whose last assignment is found is programmed as a whole.
LEMMA CheckKeeps ==
  ASSUME IInv, Check, UNCHANGED <<faults, start>>
  PROVE  IInv'
  <1>1. CASE Fail BY <1>1, FailKeeps DEF Check, Transfer
  <1>2. CASE ~Fail
    <2>1. /\ n \in 1..4 /\ at = "check"
          /\ \/ at' = "check" /\ n < 4 /\ n' = n + 1 /\ sensors' = sensors
             \/ at' = "idle" /\ n' = 1 /\ sensors' = sensors
             \/ /\ at' = "convert" /\ n' = 1 /\ Parts[6] \in conf
                /\ sensors' = sensors
          /\ UNCHANGED <<chip, opened, retry, die, readings, latest>>
      <3>1. at = "check" BY <1>2 DEF Check, Transfer
      <3>2. n \in 1..4
        <4>1. n \in 1..6 BY PartsInOrder DEF IInv, TypeOK
        <4>2. n <= 4 BY <3>1, PartsInOrder DEF IInv, WorkerInv
        <4> QED BY <4>1, <4>2
      <3>3. bus /\ UNCHANGED <<opened, retry, die>> BY <1>2 DEF Check, Transfer
      <3> QED BY <1>2, <3>1, <3>2, <3>3, PartsInOrder DEF Check, Transfer, Holds, Goto
    <2> USE <2>1, PartsInOrder DEF IInv, chip, faults
    <2>2. TypeOK'
      <3>1. n' \in 1..6 OBVIOUS
      <3>2. sensors' \in BOOLEAN BY DEF TypeOK
      <3> QED BY <3>1, <3>2 DEF TypeOK
    <2>3. ChipInv' BY LastMeansAll DEF ChipInv, Measuring
    <2>4. WorkerInv'
      <3>1. opened = 1 BY DEF WorkerInv, OneDevice
      <3>2. OneDevice' BY <3>1 DEF OneDevice
      <3>3. (at \in Measuring \union {"check"} => sensors)'
        <4>1. sensors BY DEF WorkerInv
        <4>2. sensors' = sensors OBVIOUS
        <4> QED BY <4>1, <4>2
      <3>4. (at \in {"check", "verify"} => n <= 4)' OBVIOUS
      <3>5. (at \in Measuring => n <= 3)' BY DEF Measuring
      <3>6. (sensors => at # "open")' OBVIOUS
      <3> QED BY <3>2, <3>3, <3>4, <3>5, <3>6 DEF WorkerInv
    <2>5. DataInv' BY DEF DataInv, ReadingsConfigured, Measuring
    <2> QED BY <2>2, <2>3, <2>4, <2>5
  <1> QED BY <1>1, <1>2

LEMMA VerifyKeeps ==
  ASSUME IInv, Verify, UNCHANGED <<faults, start>>
  PROVE  IInv'
  <1>1. CASE Fail BY <1>1, FailKeeps DEF Verify, Transfer
  <1>2. CASE ~Fail
    <2>1. /\ n \in 1..4 /\ at = "verify"
          /\ \/ at' = "verify" /\ n < 4 /\ n' = n + 1 /\ sensors' = sensors
             \/ /\ at' = "convert" /\ n' = 1 /\ Parts[6] \in conf
                /\ sensors' = TRUE
          /\ UNCHANGED <<chip, opened, retry, die, readings, latest>>
      <3>1. at = "verify" BY <1>2 DEF Verify, Transfer
      <3>2. n \in 1..4
        <4>1. n \in 1..6 BY PartsInOrder DEF IInv, TypeOK
        <4>2. n <= 4 BY <3>1, PartsInOrder DEF IInv, WorkerInv
        <4> QED BY <4>1, <4>2
      <3>3. bus /\ UNCHANGED <<opened, retry, die>> BY <1>2 DEF Verify, Transfer
      <3> QED BY <1>2, <3>1, <3>2, <3>3, PartsInOrder DEF Verify, Transfer, Holds, Goto
    <2> USE <2>1, PartsInOrder DEF IInv, chip, faults
    <2>2. TypeOK'
      <3>1. n' \in 1..6 OBVIOUS
      <3>2. sensors' \in BOOLEAN BY DEF TypeOK
      <3> QED BY <3>1, <3>2 DEF TypeOK
    <2>3. ChipInv' BY LastMeansAll DEF ChipInv, Measuring
    <2>4. WorkerInv'
      <3>1. opened = 1 BY DEF WorkerInv, OneDevice
      <3>2. OneDevice' BY <3>1 DEF OneDevice
      <3>3. (at \in Measuring \union {"check"} => sensors)'
        BY DEF WorkerInv, Measuring
      <3>4. (at \in {"check", "verify"} => n <= 4)' OBVIOUS
      <3>5. (at \in Measuring => n <= 3)' BY DEF Measuring
      <3>6. (sensors => at # "open")' OBVIOUS
      <3> QED BY <3>2, <3>3, <3>4, <3>5, <3>6 DEF WorkerInv
    <2>5. DataInv' BY DEF DataInv, ReadingsConfigured, Measuring
    <2> QED BY <2>2, <2>3, <2>4, <2>5
  <1> QED BY <1>1, <1>2

LEMMA ConvertKeeps ==
  ASSUME IInv, Convert, UNCHANGED <<faults, start>>
  PROVE  IInv'
  <1>1. CASE Fail BY <1>1, FailKeeps DEF Convert, Transfer
  <1>2. CASE ~Fail
    <2> USE <1>2, PartsInOrder DEF IInv, Convert, Transfer, Answers, Goto, faults
    <2>1. TypeOK'
      <3>1. n \in 1..3 BY DEF TypeOK, WorkerInv, Measuring
      <3>2. converting' \in Keys \union {"none"} BY <3>1 DEF TypeOK
      <3> QED BY <3>1, <3>2 DEF TypeOK
    <2>2. ChipInv' BY DEF ChipInv, Measuring
    <2>3. WorkerInv' BY DEF WorkerInv, OneDevice, Measuring
    <2>4. DataInv' BY DEF DataInv, ReadingsConfigured, Measuring
    <2> QED BY <2>1, <2>2, <2>3, <2>4
  <1> QED BY <1>1, <1>2

LEMMA AwaitKeeps ==
  ASSUME IInv, Await, UNCHANGED <<faults, start>>
  PROVE  IInv'
  <1>1. CASE Fail BY <1>1, FailKeeps DEF Await, Transfer
  <1>2. CASE ~Fail
    <2> USE <1>2, PartsInOrder DEF IInv, Await, Transfer, Goto, chip, faults
    <2>1. TypeOK' BY DEF TypeOK
    <2>2. ChipInv' BY DEF ChipInv, Measuring
    <2>3. WorkerInv' BY DEF WorkerInv, OneDevice, Measuring
    <2>4. DataInv' BY DEF DataInv, ReadingsConfigured, Measuring
    <2> QED BY <2>1, <2>2, <2>3, <2>4
  <1> QED BY <1>1, <1>2

\* A register holds no wrong result, so no reading of one is wrong.
LEMMA ReadResultKeeps ==
  ASSUME IInv, ReadResult, UNCHANGED <<faults, start>>
  PROVE  IInv'
  <1>1. CASE Fail BY <1>1, FailKeeps DEF ReadResult, Transfer
  <1>2. CASE ~Fail
    <2> USE <1>2, PartsInOrder DEF IInv
    <2>1. at = "read" /\ n \in 1..3 /\ UNCHANGED <<opened, retry, die>>
      <3>1. at = "read" /\ UNCHANGED <<opened, retry, die>>
        BY <1>2 DEF ReadResult, Transfer
      <3>2. n \in 1..6 BY DEF TypeOK
      <3> QED BY <3>1, <3>2 DEF WorkerInv, Measuring
    <2>2. PICK r \in Results \ {"wrong"} :
            LET all == Append(readings, Reading(r))
            IN  /\ IF n < Len(Sensors)
                   THEN Goto("convert", n + 1) /\ readings' = all /\ UNCHANGED latest
                   ELSE Publish([available |-> TRUE, die |-> die, readings |-> all])
                /\ UNCHANGED <<chip, sensors>>
      <3>1. result[Sensors[n]] \in Results \ {"wrong"}
        BY <2>1 DEF TypeOK, DataInv
      <3>2. {"cleared", "fault"} \subseteq Results \ {"wrong"} BY DEF Results
      <3> QED BY <1>2, <3>1, <3>2 DEF ReadResult, Transfer
    <2> DEFINE all == Append(readings, Reading(r))
    <2>3. /\ all \in Seq(Readings) /\ Len(all) = n
          /\ \A i \in DOMAIN all : all[i].temperature # "wrong"
      <3>1. Reading(r) \in Readings /\ Reading(r).temperature # "wrong"
        BY DEF Reading, Readings, Temperature, Results
      <3>2. readings \in Seq(Readings) /\ Len(readings) = n - 1
        BY <2>1 DEF TypeOK, DataInv, Measuring
      <3> QED BY <3>1, <3>2, <2>1 DEF DataInv
    <2> HIDE DEF all
    <2>4. \/ /\ n < 3 /\ at' = "convert" /\ n' = n + 1 /\ readings' = all /\ latest' = latest
          \/ /\ n = 3 /\ at' = "rest" /\ n' = 1 /\ readings' = << >>
             /\ latest' = [available |-> TRUE, die |-> die, readings |-> all]
      BY <2>2, <2>1 DEF all, Goto, Publish
    <2>5. UNCHANGED <<chip, sensors>> BY <2>2
    <2> USE <2>1, <2>3, <2>4, <2>5 DEF chip, faults
    <2>6. TypeOK'
      <3>0. latest \in Events /\ die \in BOOLEAN BY DEF TypeOK
      <3>1. latest' \in Events
        <4>1. [available |-> TRUE, die |-> die, readings |-> all] \in Events
          BY <3>0 DEF Events
        <4> QED BY <3>0, <4>1
      <3>2. readings' \in Seq(Readings) BY EmptyEvents
      <3>3. n' \in 1..6 BY <2>1
      <3> QED BY <3>1, <3>2, <3>3 DEF TypeOK
    <2>7. ChipInv' BY DEF ChipInv, Measuring
    <2>8. WorkerInv' BY DEF WorkerInv, OneDevice, Measuring
    <2>9. DataInv'
      <3>1. (\A i \in DOMAIN readings : readings[i].temperature # "wrong")'
        BY EmptyEvents
      <3>2. (IF at \in Measuring THEN Len(readings) = n - 1 ELSE readings = << >>)'
        BY DEF Measuring
      <3>3. (latest.available => Len(latest.readings) = Len(Sensors))'
        <4>1. CASE latest' = latest BY <4>1 DEF DataInv
        <4>2. CASE latest' = [available |-> TRUE, die |-> die, readings |-> all] /\ n = 3
          BY <4>2
        <4> QED BY <4>1, <4>2
      <3>4. ReadingsConfigured' BY DEF DataInv, ReadingsConfigured
      <3> QED BY <3>1, <3>2, <3>3, <3>4 DEF DataInv
    <2> QED BY <2>6, <2>7, <2>8, <2>9
  <1> QED BY <1>1, <1>2

-----------------------------------------------------------------------------

LEMMA StepKeeps == ASSUME SlowStart, IInv, [Next]_vars PROVE IInv'
  <1>1. CASE Worker
    BY <1>1, RoundKeeps, OpenKeeps, WaitIdleKeeps, WriteKeeps, CheckKeeps, VerifyKeeps,
       ConvertKeeps, AwaitKeeps, ReadResultKeeps DEF Worker
  <1>2. CASE UNCHANGED vars
    BY <1>2 DEF vars, chip, faults, round, IInv, TypeOK, ChipInv, WorkerInv, DataInv,
                OneDevice, ReadingsConfigured
  <1>3. CASE PowerOff \/ PowerOn \/ ChipReady \/ Converted \/ Fault
    BY <1>3, PowerOffKeeps, PowerOnKeeps, ChipReadyKeeps, ConvertedKeeps, FaultKeeps
  <1>4. CASE StartRun \/ Restart
    BY <1>4, StartRunKeeps, RestartKeeps
  <1> QED BY <1>1, <1>2, <1>3, <1>4 DEF Next

LEMMA Inductive == ASSUME SlowStart PROVE Spec => []IInv
  <1>1. Init => IInv BY Initially
  <1>2. IInv /\ [Next]_vars => IInv' BY StepKeeps
  <1> QED BY <1>1, <1>2, PTL DEF Spec

\* Every variable of the worker and of the chip keeps its type, for every
\* retry interval (temperature_worker.py, ltc2986.py).
THEOREM WorkerTypeCorrect == ASSUME SlowStart PROVE Spec => []TypeOK
  <1>1. IInv => TypeOK BY DEF IInv
  <1> QED BY <1>1, Inductive, PTL

\* No temperature that is shown, logged or taken for a run's start comes from
\* a chip that was not fully programmed: a chip that comes back within the
\* writes of one configure() excepted.
THEOREM OnlyConfiguredReadings == ASSUME SlowStart PROVE Spec => []ReadingsConfigured
  <1>1. IInv => ReadingsConfigured BY DEF IInv, DataInv
  <1> QED BY <1>1, Inductive, PTL

\* The device is open once, or not at all between two attempts: _fail and
\* TemperatureSensors.open close between them exactly what is open.
THEOREM NoDeviceLeftOpen == ASSUME SlowStart PROVE Spec => []OneDevice
  <1>1. IInv => OneDevice BY DEF IInv, WorkerInv
  <1> QED BY <1>1, Inductive, PTL
=============================================================================
