------------------------- MODULE QcmWorkerProofs ----------------------------
(***************************************************************************)
(* Theorems about the measurement worker, for every choice of frequencies, *)
(* gains, thicknesses, window length, settling time and timeout, with or   *)
(* without failing register writes: its types, that an attempt is never    *)
(* stranded, and that the worker implements RunLifecycle.                  *)
(***************************************************************************)
EXTENDS QcmWorker, TLAPS

\* What TypeOK and LockingHasAttempt need to carry themselves through a step:
\* _advance_lock is entered in LOCKING only, and _abort_lock with no attempt.
AttemptPoints ==
  /\ pc = "advance" => state = "LOCKING"
  /\ pc = "abort" => lock = NoLock

AttemptInv == TypeOK /\ LockingHasAttempt /\ AttemptPoints

-----------------------------------------------------------------------------
(* The loop hardware keeps its types, operation by operation. *)

\* The gains beginLock and finishLock write are integrator values.
LEMMA GainsType ==
  ASSUME HwTypeOK, NEW active \in SUBSET Osc
  PROVE  /\ LockGains(active) \in [Osc -> IntegVals]
         /\ FinishGains(active) \in [Osc -> IntegVals]
         /\ OpenGains \in [Osc -> IntegVals]
  BY DEF HwTypeOK, LockGains, FinishGains, OpenGains, IntegVals, Off, Pre

\* However far a failing sequence of writes gets, it leaves integrator values.
LEMMA WrittenType ==
  ASSUME NEW v \in [Osc -> IntegVals], NEW f \in Written(v)
  PROVE  f \in [Osc -> IntegVals]
  BY DEF Written

\* Clearing the windows.
LEMMA ResetType ==
  ASSUME ResetLockStats
  PROVE  fill' \in 0..Window /\ detected' \in SUBSET Osc
  BY WindowAssumption DEF ResetLockStats

\* Starting an attempt, whether or not its writes all succeed.
LEMMA BeginLockType ==
  ASSUME HwTypeOK, NEW active \in SUBSET Osc, NEW near \in SUBSET Osc,
         BeginLock(active, near) \/ BeginLockRaises(active) \/ ParkBoth
  PROVE  HwTypeOK'
  <1>1. CASE BeginLock(active, near)
    <2>1. fill' \in 0..Window /\ detected' \in SUBSET Osc
      BY <1>1, ResetType DEF BeginLock
    <2>2. integ' \in [Osc -> IntegVals]
      BY <1>1, GainsType DEF BeginLock
    <2>3. loop' \in [Osc -> Loops]
      BY <1>1 DEF BeginLock, Loops
    <2> QED
      BY <1>1, <2>1, <2>2, <2>3 DEF HwTypeOK, BeginLock
  <1>2. CASE BeginLockRaises(active)
    BY <1>2, GainsType, WrittenType DEF HwTypeOK, BeginLockRaises, AllOpen, Loops
  <1>3. CASE ParkBoth
    <2>1. fill' \in 0..Window /\ detected' \in SUBSET Osc
      BY <1>3, ResetType DEF ParkBoth
    <2>2. integ' \in [Osc -> IntegVals]
      BY <1>3, GainsType DEF ParkBoth
    <2> QED
      BY <1>3, <2>1, <2>2 DEF HwTypeOK, ParkBoth, AllOpen, Loops
  <1> QED
    BY <1>1, <1>2, <1>3

\* Ending one.
LEMMA FinishLockType ==
  ASSUME HwTypeOK, NEW active \in SUBSET Osc, NEW success \in BOOLEAN,
         FinishLock(active, success) \/ FinishLockRaises(active)
  PROVE  HwTypeOK'
  <1>1. CASE FinishLock(active, success)
    <2>1. fill' \in 0..Window /\ detected' \in SUBSET Osc
      BY <1>1, ResetType DEF HwTypeOK, FinishLock, windowVars
    <2>2. integ' \in [Osc -> IntegVals]
      BY <1>1, GainsType DEF FinishLock
    <2> QED
      BY <1>1, <2>1, <2>2 DEF HwTypeOK, FinishLock
  <1>2. CASE FinishLockRaises(active)
    BY <1>2, GainsType, WrittenType DEF HwTypeOK, FinishLockRaises
  <1> QED
    BY <1>1, <1>2

\* Opening the loops for a sweep or a capacitor adjustment.
LEMMA OpenLoopsType ==
  ASSUME HwTypeOK, OpenLoops \/ OpenLoopsRaises
  PROVE  HwTypeOK'
  <1>1. CASE OpenLoops
    BY <1>1, GainsType, WindowAssumption DEF HwTypeOK, OpenLoops, ResetLockStats, AllOpen, Loops
  <1>2. CASE OpenLoopsRaises
    BY <1>2, GainsType, WrittenType, WindowAssumption
       DEF HwTypeOK, OpenLoopsRaises, ResetLockStats, windowVars, AllOpen, Loops
  <1> QED
    BY <1>1, <1>2

\* A gain set from the settings page or a profile.
LEMMA SetIntGainType ==
  ASSUME HwTypeOK, NEW i \in Osc, NEW g \in Gains,
         SetIntGain(i, g) \/ SetIntGainRaises(i, g)
  PROVE  HwTypeOK'
  <1>1. g \in IntegVals
    BY DEF IntegVals
  <1>2. [integ EXCEPT ![i] = g] \in [Osc -> IntegVals]
    BY <1>1 DEF HwTypeOK
  <1>3. [intGain EXCEPT ![i] = g] \in [Osc -> Gains]
    BY DEF HwTypeOK
  <1>4. integ' \in [Osc -> IntegVals] /\ intGain' \in [Osc -> Gains]
    BY <1>2, <1>3 DEF HwTypeOK, SetIntGain, SetIntGainRaises
  <1>5. /\ UNCHANGED <<parked, acquiring, loop, agcEnabled, agcActive, fill, detected>>
        /\ unsure' \in BOOLEAN
    BY DEF HwTypeOK, SetIntGain, SetIntGainRaises
  <1> QED
    BY <1>4, <1>5 DEF HwTypeOK

\* An NCO moved by hand.
LEMMA SetFreqType ==
  ASSUME HwTypeOK, NEW i \in Osc, SetFreq(i)
  PROVE  HwTypeOK'
  <1>1. loop' \in [Osc -> Loops]
    BY DEF HwTypeOK, SetFreq, Loops
  <1> QED
    BY <1>1 DEF HwTypeOK, SetFreq, agcVars, windowVars

\* The servo, all the way or stopped by a failed write.
LEMMA ServoType ==
  ASSUME HwTypeOK, NEW d \in SUBSET Osc,
         agcActive' = Servoed(d) \/ ServoRaises(d)
  PROVE  agcActive' \in SUBSET Osc
  BY DEF HwTypeOK, Servoed, ServoRaises

-----------------------------------------------------------------------------
(* The worker's own state, in the three groups its steps change together. *)

LockTypeOK ==
  /\ pc \in Points /\ back \in {"get", "update", "acquire"}
  /\ resuming \in BOOLEAN
  /\ state \in States
  /\ lock \in Attempts \union {NoLock}
  /\ lockActive \in SUBSET Osc
  /\ lockFreqs \in StartFreqs \union {NoFreqs}
  /\ loopsAimed \in BOOLEAN
  /\ lossTimer \in BOOLEAN
  /\ logActive \in BOOLEAN

OptTypeOK ==
  /\ compensated \in BOOLEAN /\ runCompensated \in BOOLEAN
  /\ autoRelock \in BOOLEAN /\ tempHold \in BOOLEAN /\ freqTracking \in BOOLEAN
  /\ offered \in StartFreqs \union {NoFreqs}
  /\ deferred \in Seq(Deferrable)
  /\ locked \in SUBSET Osc

OutTypeOK ==
  /\ tempHeld \in BOOLEAN
  /\ target \in Targets /\ targetReached \in BOOLEAN
  /\ thickness \in Thicknesses

\* The three groups and the hardware are all of TypeOK, in each state of a step.
LEMMA TypeParts ==
  /\ TypeOK <=> HwTypeOK /\ LockTypeOK /\ OptTypeOK /\ OutTypeOK
  /\ TypeOK' <=> HwTypeOK' /\ LockTypeOK' /\ OptTypeOK' /\ OutTypeOK'
  <1>1. TypeOK <=> HwTypeOK /\ LockTypeOK /\ OptTypeOK /\ OutTypeOK
    BY Zenon DEF TypeOK, LockTypeOK, OptTypeOK, OutTypeOK
  <1>2. TypeOK' <=> HwTypeOK' /\ LockTypeOK' /\ OptTypeOK' /\ OutTypeOK'
    BY Zenon DEF TypeOK, LockTypeOK, OptTypeOK, OutTypeOK
  <1> QED
    BY <1>1, <1>2

\* An attempt is recognisable, and belongs to LOCKING.
LEMMA AttemptIsNotNone ==
  ASSUME NEW a \in Attempts
  PROVE  a # NoLock
  BY NoneAssumption

\* _start_lock, from a GET LOCK or an automatic re-lock.
LEMMA StartLockType ==
  ASSUME TypeOK, NEW freqs \in StartFreqs, NEW ret \in {"get", "update"},
         StartLock(freqs, ret)
  PROVE  HwTypeOK' /\ LockTypeOK' /\ LockingHasAttempt' /\ AttemptPoints'
  <1> DEFINE active == Lockable(freqs, IF CompensatedNow THEN Osc ELSE {1})
             near == {i \in active : freqs[i] \notin {Junk, Stray}}
             rec == [active |-> active, age |-> 0, resume |-> InRun, settled |-> FALSE]
  <1>1. active \in SUBSET Osc /\ near \in SUBSET Osc /\ {} \in SUBSET Osc
    BY DEF Lockable, Osc
  <1>2. InRun \in BOOLEAN
    BY DEF InRun
  <1>3. rec \in Attempts
    <2>1. 0 \in 0..Timeout
      BY WorkerAssumption
    <2> QED
      BY <1>1, <1>2, <2>1 DEF Attempts
  <1>4. lockFreqs' \in StartFreqs
    BY DEF StartLock
  <1>5. CASE /\ BeginLock(active, near) /\ Goto(ret)
             /\ lock' = rec /\ state' = "LOCKING" /\ lockActive' = active
             /\ loopsAimed' = TRUE
             /\ IF InRun THEN LogWritten ELSE UNCHANGED logActive
             /\ UNCHANGED lossTimer
    <2>1. HwTypeOK'
      BY <1>1, <1>5, BeginLockType DEF TypeOK
    <2>2. LockTypeOK'
      BY <1>1, <1>3, <1>4, <1>5
         DEF TypeOK, LockTypeOK, Goto, LogWritten, Points, States
    <2>3. LockingHasAttempt' /\ AttemptPoints'
      BY <1>3, <1>5, AttemptIsNotNone DEF LockingHasAttempt, AttemptPoints, Goto
    <2> QED
      BY <2>1, <2>2, <2>3
  <1>6. CASE /\ ParkBoth /\ Goto(ret)
             /\ lockActive' = {} /\ loopsAimed' = FALSE /\ lock' = NoLock
             /\ lossTimer' = FALSE /\ state' = AfterAttempt(InRun)
             /\ UNCHANGED logActive
    <2>1. HwTypeOK'
      BY <1>1, <1>6, BeginLockType DEF TypeOK
    <2>2. LockTypeOK'
      BY <1>1, <1>4, <1>6
         DEF TypeOK, LockTypeOK, Goto, Points, States, AfterAttempt
    <2>3. LockingHasAttempt' /\ AttemptPoints'
      BY <1>6 DEF LockingHasAttempt, AttemptPoints, Goto, AfterAttempt
    <2> QED
      BY <2>1, <2>2, <2>3
  <1>7. CASE /\ BeginLockRaises(active)
             /\ loopsAimed' = FALSE /\ lock' = NoLock
             /\ pc' = "abort" /\ back' = ret /\ resuming' = InRun
             /\ UNCHANGED <<lockActive, state, lossTimer, logActive>>
    <2>1. HwTypeOK'
      BY <1>1, <1>7, BeginLockType DEF TypeOK
    <2>2. LockTypeOK'
      BY <1>2, <1>4, <1>7 DEF TypeOK, LockTypeOK, Points
    <2>3. LockingHasAttempt' /\ AttemptPoints'
      BY <1>7 DEF LockingHasAttempt, AttemptPoints
    <2> QED
      BY <2>1, <2>2, <2>3
  <1> QED
    BY <1>5, <1>6, <1>7 DEF StartLock

\* _finish_lock, to the end or into _abort_lock.
LEMMA EndLockType ==
  ASSUME TypeOK, lock \in Attempts, NEW success \in BOOLEAN, EndLock(success),
         UNCHANGED <<lockActive, lockFreqs, loopsAimed>>
  PROVE  HwTypeOK' /\ LockTypeOK' /\ LockingHasAttempt' /\ AttemptPoints'
  <1>1. lock.active \in SUBSET Osc /\ lock.resume \in BOOLEAN
    BY DEF Attempts
  <1>2. HwTypeOK'
    BY <1>1, FinishLockType DEF TypeOK, EndLock
  <1>3. LockTypeOK'
    BY <1>1 DEF TypeOK, LockTypeOK, EndLock, EndAttempt, AfterAttempt, LogWritten,
                Points, States
  <1>4. LockingHasAttempt' /\ AttemptPoints'
    BY <1>1 DEF LockingHasAttempt, AttemptPoints, EndLock, EndAttempt, AfterAttempt
  <1> QED
    BY <1>2, <1>3, <1>4

-----------------------------------------------------------------------------
(* The inductive invariant. *)

\* At power-up nothing is in flight.
LEMMA AttemptInit == Init => AttemptInv
  <1> SUFFICES ASSUME Init PROVE AttemptInv
    OBVIOUS
  <1>1. HwTypeOK
    <2>1. 0 \in 0..Window
      BY WindowAssumption
    <2>2. integ \in [Osc -> IntegVals]
      BY DEF Init, HwInit, IntegVals
    <2>3. intGain \in [Osc -> Gains]
      BY DEF Init, HwInit
    <2> QED
      BY <2>1, <2>2, <2>3 DEF Init, HwInit, HwTypeOK, AllOpen, Loops
  <1>2. LockTypeOK
    BY DEF Init, LockTypeOK, Points, States
  <1>3. OptTypeOK
    <2>1. << >> \in Seq(Deferrable)
      OBVIOUS
    <2> QED
      BY <2>1 DEF Init, OptTypeOK
  <1>4. OutTypeOK
    BY WorkerAssumption DEF Init, OutTypeOK
  <1>5. LockingHasAttempt /\ AttemptPoints
    BY DEF Init, LockingHasAttempt, AttemptPoints
  <1> QED
    BY <1>1, <1>2, <1>3, <1>4, <1>5, TypeParts DEF AttemptInv

\* The commands that start, stop or hold back something.
LEMMA ControlStep ==
  ASSUME AttemptInv,
         \/ \E f \in [Osc -> Freqs] : GetLock(f)
         \/ \E c \in Deferrable : Defer(c)
         \/ StartCapAdjust \/ StopCapAdjust \/ Sweep
         \/ StartMeasurement \/ StartRefused \/ StopMeasurement \/ RetryRunLog
  PROVE  AttemptInv'
  <1> USE DEF AttemptInv
  <1>1. ASSUME NEW f \in [Osc -> Freqs], GetLock(f)
        PROVE  AttemptInv'
    <2>1. f \in StartFreqs
      BY DEF StartFreqs
    <2>2. HwTypeOK' /\ LockTypeOK' /\ LockingHasAttempt' /\ AttemptPoints'
      BY <1>1, <2>1, StartLockType DEF GetLock
    <2>3. OptTypeOK' /\ OutTypeOK'
      BY <1>1, TypeParts DEF GetLock, OptTypeOK, OutTypeOK, optVars, outVars
    <2> QED
      BY <2>2, <2>3, TypeParts
  <1>2. ASSUME NEW c \in Deferrable, Defer(c)
        PROVE  AttemptInv'
    <2>1. deferred' \in Seq(Deferrable)
      BY <1>2 DEF TypeOK, Defer
    <2>2. HwTypeOK'
      BY <1>2 DEF TypeOK, HwTypeOK, Defer, hwVars
    <2>3. LockTypeOK' /\ OutTypeOK'
      BY <1>2, TypeParts
         DEF Defer, Handled, Goto, AtQueue, ctlVars, lockVars, runVars, outVars,
             LockTypeOK, OutTypeOK, Points
    <2>4. OptTypeOK'
      BY <1>2, <2>1, TypeParts DEF Defer, OptTypeOK, runVars, optVars
    <2>5. LockingHasAttempt' /\ AttemptPoints'
      BY <1>2 DEF Defer, Handled, Goto, AtQueue, ctlVars, lockVars,
                  LockingHasAttempt, AttemptPoints
    <2> QED
      BY <2>2, <2>3, <2>4, <2>5, TypeParts
  <1>3. ASSUME NEW c \in Deferrable, Taken(c)
        PROVE  deferred' \in Seq(Deferrable) /\ pc \in {"get", "replay"}
    BY <1>3 DEF TypeOK, Taken, AtQueue
  <1>4. CASE StartCapAdjust \/ Sweep
    <2>1. deferred' \in Seq(Deferrable) /\ pc \in {"get", "replay"}
      BY <1>3, <1>4 DEF StartCapAdjust, Sweep, Deferrable
    <2>2. HwTypeOK'
      BY <1>4, OpenLoopsType, TypeParts DEF StartCapAdjust, Sweep
    <2>3. LockTypeOK' /\ OutTypeOK'
      <3>1. LockTypeOK /\ OutTypeOK
        BY TypeParts
      <3>2. pc' \in Points /\ back' \in {"get", "update", "acquire"} /\ resuming' \in BOOLEAN
        BY <1>4, <3>1 DEF StartCapAdjust, Sweep, Handled, Raised, Goto, ctlVars, LockTypeOK, Points
      <3>3. state' \in States /\ loopsAimed' \in BOOLEAN
        BY <1>4, <3>1 DEF StartCapAdjust, Sweep, LockTypeOK, States
      <3>4. OutTypeOK'
        BY <1>4, <3>1 DEF StartCapAdjust, Sweep, outVars, OutTypeOK
      <3> QED
        BY <1>4, <3>1, <3>2, <3>3, <3>4 DEF StartCapAdjust, Sweep, runVars, LockTypeOK
    <2>4. OptTypeOK'
      BY <1>4, <2>1, TypeParts DEF StartCapAdjust, Sweep, OptTypeOK, runVars, optVars
    <2>5. LockingHasAttempt' /\ AttemptPoints'
      BY <1>4, <2>1 DEF StartCapAdjust, Sweep, Handled, Raised, Goto, ctlVars,
                        LockingHasAttempt, AttemptPoints
    <2> QED
      BY <2>2, <2>3, <2>4, <2>5, TypeParts
  <1>5. CASE StopCapAdjust
    <2>1. HwTypeOK'
      BY <1>5, OpenLoopsType, TypeParts DEF StopCapAdjust
    <2>2. LockTypeOK' /\ OutTypeOK'
      BY <1>5, TypeParts
         DEF StopCapAdjust, Handled, Raised, Goto, AtQueue, ctlVars, runVars, outVars,
             LockTypeOK, OutTypeOK, Points, States
    <2>3. OptTypeOK'
      BY <1>5, TypeParts DEF StopCapAdjust, OptTypeOK, runVars, optVars
    <2>4. LockingHasAttempt' /\ AttemptPoints'
      BY <1>5 DEF StopCapAdjust, Handled, Raised, Goto, AtQueue, ctlVars,
                  LockingHasAttempt, AttemptPoints
    <2> QED
      BY <2>1, <2>2, <2>3, <2>4, TypeParts
  <1>6. CASE StartMeasurement \/ StartRefused
    <2>1. deferred' \in Seq(Deferrable) /\ pc \in {"get", "replay"}
      BY <1>3, <1>6 DEF StartMeasurement, StartRefused, Deferrable
    <2>2. HwTypeOK'
      BY <1>6 DEF TypeOK, HwTypeOK, StartMeasurement, StartRefused, hwVars
    <2>3. LockTypeOK' /\ OutTypeOK'
      <3>1. CASE StartMeasurement
        <4>1. LockTypeOK'
          BY <3>1, TypeParts
             DEF StartMeasurement, Handled, Goto, ctlVars, LockTypeOK, Points, States
        <4>2. OutTypeOK'
          BY <3>1, TypeParts DEF StartMeasurement, OutTypeOK
        <4> QED
          BY <4>1, <4>2
      <3>2. CASE StartRefused
        BY <3>2, TypeParts
           DEF StartRefused, Raised, ctlVars, lockVars, runVars, outVars,
               LockTypeOK, OutTypeOK
      <3> QED
        BY <1>6, <3>1, <3>2
    <2>4. OptTypeOK'
      BY <1>6, <2>1, TypeParts
         DEF StartMeasurement, StartRefused, OptTypeOK, runVars, optVars
    <2>5. LockingHasAttempt' /\ AttemptPoints'
      BY <1>6, <2>1 DEF StartMeasurement, StartRefused, Handled, Raised, Goto, ctlVars,
                        lockVars, LockingHasAttempt, AttemptPoints
    <2> QED
      BY <2>2, <2>3, <2>4, <2>5, TypeParts
  <1>7. CASE StopMeasurement
    <2>1. CASE lock # NoLock
      <3>1. lock' \in Attempts
        BY <1>7, <2>1 DEF TypeOK, StopMeasurement, Attempts
      <3>2. HwTypeOK'
        BY <1>7 DEF TypeOK, HwTypeOK, StopMeasurement, hwVars
      <3>3. LockTypeOK' /\ OutTypeOK'
        BY <1>7, <2>1, <3>1, TypeParts
           DEF StopMeasurement, Handled, Goto, AtQueue, ctlVars, outVars,
               LockTypeOK, OutTypeOK, Points
      <3>4. OptTypeOK'
        BY <1>7, TypeParts DEF StopMeasurement, HeldFreqs, OptTypeOK, optVars
      <3>5. LockingHasAttempt' /\ AttemptPoints'
        BY <1>7, <2>1, <3>1, AttemptIsNotNone
           DEF StopMeasurement, Handled, Goto, AtQueue, ctlVars,
               LockingHasAttempt, AttemptPoints
      <3> QED
        BY <3>2, <3>3, <3>4, <3>5, TypeParts
    <2>2. CASE lock = NoLock
      <3>1. HwTypeOK'
        BY <1>7 DEF TypeOK, HwTypeOK, StopMeasurement, hwVars
      <3>2. LockTypeOK' /\ OutTypeOK'
        BY <1>7, <2>2, TypeParts
           DEF StopMeasurement, Handled, Goto, AtQueue, ctlVars, outVars,
               LockTypeOK, OutTypeOK, Points, States
      <3>3. OptTypeOK'
        BY <1>7, TypeParts DEF StopMeasurement, HeldFreqs, OptTypeOK, optVars
      <3>4. LockingHasAttempt' /\ AttemptPoints'
        BY <1>7, <2>2 DEF StopMeasurement, Handled, Goto, AtQueue, ctlVars,
                          LockingHasAttempt, AttemptPoints
      <3> QED
        BY <3>1, <3>2, <3>3, <3>4, TypeParts
    <2> QED
      BY <2>1, <2>2
  <1>8. CASE RetryRunLog
    <2>1. HwTypeOK'
      BY <1>8 DEF TypeOK, HwTypeOK, RetryRunLog, hwVars
    <2>2. LockTypeOK' /\ OutTypeOK'
      BY <1>8, TypeParts
         DEF RetryRunLog, Handled, Goto, AtQueue, ctlVars, lockVars, outVars,
             LockTypeOK, OutTypeOK, Points
    <2>3. OptTypeOK'
      BY <1>8, TypeParts DEF RetryRunLog, OptTypeOK, optVars
    <2>4. LockingHasAttempt' /\ AttemptPoints'
      BY <1>8 DEF RetryRunLog, Handled, Goto, AtQueue, ctlVars, lockVars,
                  LockingHasAttempt, AttemptPoints
    <2> QED
      BY <2>1, <2>2, <2>3, <2>4, TypeParts
  <1> QED
    BY <1>1, <1>2, <1>4, <1>5, <1>6, <1>7, <1>8

\* The setting commands, and what leaves this state alone.  None of them moves
\* the worker between its states or touches an attempt.
LEMMA SettingStep ==
  ASSUME AttemptInv,
         \/ \E i \in Osc, g \in Gains : SetIntegratorGain(i, g)
         \/ \E i \in Osc, on \in BOOLEAN : SetAgcEnabled(i, on)
         \/ \E on \in BOOLEAN : \/ SetAutoRelock(on) \/ SetTempHold(on)
                                \/ SetFreqTracking(on) \/ SetMeasurementMode(on)
         \/ \E t \in Targets : SetTargetThickness(t)
         \/ \E d \in SUBSET Osc : SetLockLimits(d)
         \/ \E i \in Osc : SetFrequency(i)
         \/ OtherCommand \/ QueueEmpty
  PROVE  AttemptInv'
  <1> USE DEF AttemptInv
  <1> DEFINE Stays == /\ pc = "get"
                      /\ pc' \in {"get", "update"}
                      /\ back' \in {"get", back} /\ resuming' \in {FALSE, resuming}
                      /\ UNCHANGED <<state, lock, lockActive, lockFreqs, loopsAimed, logActive>>
                      /\ lossTimer' \in {FALSE, lossTimer}
  <1>1. ASSUME Stays, HwTypeOK', OptTypeOK', OutTypeOK'
        PROVE  AttemptInv'
    <2>1. LockTypeOK'
      BY <1>1, TypeParts DEF LockTypeOK, Points
    <2>2. LockingHasAttempt' /\ AttemptPoints'
      BY <1>1 DEF LockingHasAttempt, AttemptPoints
    <2> QED
      BY <1>1, <2>1, <2>2, TypeParts
  <1>2. ASSUME NEW i \in Osc, NEW g \in Gains, SetIntegratorGain(i, g)
        PROVE  AttemptInv'
    <2>1. HwTypeOK'
      BY <1>2, SetIntGainType, TypeParts DEF SetIntegratorGain
    <2>2. OptTypeOK' /\ OutTypeOK'
      BY <1>2, TypeParts
         DEF SetIntegratorGain, runVars, optVars, outVars, OptTypeOK, OutTypeOK
    <2>3. Stays
      BY <1>2 DEF SetIntegratorGain, Setting, AtQueue, Handled, Raised, Goto, ctlVars,
                  lockVars, runVars
    <2> QED
      BY <1>1, <2>1, <2>2, <2>3
  <1>3. ASSUME NEW i \in Osc, NEW on \in BOOLEAN, SetAgcEnabled(i, on)
        PROVE  AttemptInv'
    <2>1. HwTypeOK'
      BY <1>3, TypeParts
         DEF SetAgcEnabled, SetAGC, HwTypeOK, loopVars, windowVars
    <2>2. OptTypeOK' /\ OutTypeOK'
      BY <1>3, TypeParts
         DEF SetAgcEnabled, runVars, optVars, outVars, OptTypeOK, OutTypeOK
    <2>3. Stays
      BY <1>3 DEF SetAgcEnabled, Setting, AtQueue, Handled, Raised, Goto, ctlVars,
                  lockVars, runVars
    <2> QED
      BY <1>1, <2>1, <2>2, <2>3
  <1>4. ASSUME NEW on \in BOOLEAN,
               \/ SetAutoRelock(on) \/ SetTempHold(on)
               \/ SetFreqTracking(on) \/ SetMeasurementMode(on)
        PROVE  AttemptInv'
    <2>1. UNCHANGED hwVars
      BY <1>4 DEF SetAutoRelock, SetTempHold, SetFreqTracking, SetMeasurementMode
    <2>2. HwTypeOK'
      BY <2>1, TypeParts DEF HwTypeOK, hwVars
    <2>3. OptTypeOK'
      BY <1>4, TypeParts
         DEF SetAutoRelock, SetTempHold, SetFreqTracking, SetMeasurementMode,
             runVars, optVars, OptTypeOK
    <2>4. OutTypeOK'
      BY <1>4, TypeParts
         DEF SetAutoRelock, SetTempHold, SetFreqTracking, SetMeasurementMode,
             outVars, OutTypeOK
    <2>5. Stays
      BY <1>4 DEF SetAutoRelock, SetTempHold, SetFreqTracking, SetMeasurementMode,
                  Setting, AtQueue, Handled, Goto, lockVars, runVars
    <2> QED
      BY <1>1, <2>2, <2>3, <2>4, <2>5
  <1>5. ASSUME NEW t \in Targets, SetTargetThickness(t)
        PROVE  AttemptInv'
    <2>1. HwTypeOK'
      BY <1>5, TypeParts DEF SetTargetThickness, HwTypeOK, hwVars
    <2>2. OptTypeOK'
      BY <1>5, TypeParts DEF SetTargetThickness, runVars, optVars, OptTypeOK
    <2>3. targetReached' \in BOOLEAN
      BY <1>5, TypeParts DEF SetTargetThickness, OutTypeOK
    <2>4. OutTypeOK'
      BY <1>5, <2>3, TypeParts DEF SetTargetThickness, OutTypeOK
    <2>5. Stays
      BY <1>5 DEF SetTargetThickness, Setting, AtQueue, Handled, Goto, lockVars, runVars
    <2> QED
      BY <1>1, <2>1, <2>2, <2>4, <2>5
  <1>6. ASSUME NEW d \in SUBSET Osc, SetLockLimits(d)
        PROVE  AttemptInv'
    <2>1. HwTypeOK'
      BY <1>6, TypeParts
         DEF SetLockLimits, SetLockDetect, HwTypeOK, loopVars, agcVars
    <2>2. OptTypeOK' /\ OutTypeOK'
      BY <1>6, TypeParts
         DEF SetLockLimits, runVars, optVars, outVars, OptTypeOK, OutTypeOK
    <2>3. Stays
      BY <1>6 DEF SetLockLimits, Setting, AtQueue, Handled, Goto, lockVars, runVars
    <2> QED
      BY <1>1, <2>1, <2>2, <2>3
  <1>7. CASE OtherCommand \/ QueueEmpty
    <2>1. HwTypeOK'
      BY <1>7, TypeParts DEF OtherCommand, QueueEmpty, HwTypeOK, hwVars
    <2>2. OptTypeOK' /\ OutTypeOK'
      BY <1>7, TypeParts
         DEF OtherCommand, QueueEmpty, runVars, optVars, outVars, OptTypeOK, OutTypeOK
    <2>3. Stays
      BY <1>7 DEF OtherCommand, QueueEmpty, AtQueue, Handled, Goto, ctlVars,
                  lockVars, runVars
    <2> QED
      BY <1>1, <2>1, <2>2, <2>3
  <1>8. ASSUME NEW i \in Osc, SetFrequency(i)
        PROVE  AttemptInv'
    <2>1. HwTypeOK'
      BY <1>8, SetFreqType, TypeParts DEF SetFrequency
    <2>2. OptTypeOK' /\ OutTypeOK'
      BY <1>8, TypeParts
         DEF SetFrequency, runVars, optVars, outVars, OptTypeOK, OutTypeOK
    <2>3. Stays
      BY <1>8 DEF SetFrequency, Setting, AtQueue, Handled, Raised, Goto, ctlVars,
                  lockVars, runVars
    <2> QED
      BY <1>1, <2>1, <2>2, <2>3
  <1> QED
    BY <1>2, <1>3, <1>4, <1>5, <1>6, <1>7, <1>8

\* The acquisition cycle.
LEMMA CycleStep ==
  ASSUME AttemptInv,
         \/ Update \/ AdvanceLock \/ Telemetry \/ Measure \/ Relock
         \/ AbortLock \/ ReplayRefused \/ ReplayDone
  PROVE  AttemptInv'
  <1> USE DEF AttemptInv
  <1>1. CASE Update
    <2>1. HwTypeOK'
      BY <1>1, WindowAssumption, TypeParts
         DEF Update, SampleLock, NextFill, HwTypeOK, loopVars, agcVars
    <2>2. LockTypeOK'
      BY <1>1, TypeParts DEF Update, HeldFreqs, Goto, LockTypeOK, Points
    <2>3. OptTypeOK' /\ OutTypeOK'
      BY <1>1, TypeParts DEF Update, optVars, outVars, OptTypeOK, OutTypeOK
    <2>4. LockingHasAttempt' /\ AttemptPoints'
      BY <1>1 DEF Update, Goto, LockingHasAttempt, AttemptPoints
    <2> QED
      BY <2>1, <2>2, <2>3, <2>4, TypeParts
  <1>2. CASE AdvanceLock
    <2>1. lock \in Attempts /\ state = "LOCKING" /\ pc = "advance"
      BY <1>2, TypeParts DEF AdvanceLock, AttemptPoints, LockingHasAttempt, LockTypeOK
    <2>2. OptTypeOK' /\ OutTypeOK'
      BY <1>2, TypeParts DEF AdvanceLock, optVars, outVars, OptTypeOK, OutTypeOK
    <2>3. PICK age \in 0..Timeout :
            \/ /\ lock' = [lock EXCEPT !.age = age, !.settled = age >= Settle]
               /\ IF age >= Settle THEN ResetLockStats ELSE UNCHANGED windowVars
               /\ Goto("acquire")
               /\ UNCHANGED <<state, lossTimer, logActive, loopVars, agcVars>>
            \/ EndLock(TRUE)
            \/ EndLock(FALSE)
            \/ /\ lock' = [lock EXCEPT !.age = age]
               /\ Goto("acquire")
               /\ UNCHANGED <<state, lossTimer, logActive, hwVars>>
      BY <1>2 DEF AdvanceLock
    <2>4. UNCHANGED <<lockActive, lockFreqs, loopsAimed>>
      BY <1>2 DEF AdvanceLock
    <2>5. CASE EndLock(TRUE) \/ EndLock(FALSE)
      <3>1. HwTypeOK' /\ LockTypeOK' /\ LockingHasAttempt' /\ AttemptPoints'
        BY <2>1, <2>4, <2>5, EndLockType
      <3> QED
        BY <2>2, <3>1, TypeParts
    <2>6. CASE /\ lock' \in Attempts /\ HwTypeOK' /\ Goto("acquire")
               /\ UNCHANGED <<state, lossTimer, logActive>>
      <3>1. LockTypeOK'
        BY <2>4, <2>6, TypeParts DEF Goto, LockTypeOK, Points
      <3>2. LockingHasAttempt' /\ AttemptPoints'
        BY <2>1, <2>6, AttemptIsNotNone DEF Goto, LockingHasAttempt, AttemptPoints
      <3> QED
        BY <2>2, <2>6, <3>1, <3>2, TypeParts
    <2>7. CASE /\ lock' = [lock EXCEPT !.age = age, !.settled = age >= Settle]
               /\ IF age >= Settle THEN ResetLockStats ELSE UNCHANGED windowVars
               /\ Goto("acquire")
               /\ UNCHANGED <<state, lossTimer, logActive, loopVars, agcVars>>
      <3>1. (age >= Settle) \in BOOLEAN
        OBVIOUS
      <3>2. lock' \in Attempts
        BY <2>1, <2>7, <3>1 DEF Attempts
      <3>3. fill' \in 0..Window /\ detected' \in SUBSET Osc
        BY <2>7, ResetType, TypeParts DEF HwTypeOK, windowVars
      <3>4. HwTypeOK'
        BY <2>7, <3>3, TypeParts DEF HwTypeOK, loopVars, agcVars
      <3> QED
        BY <2>6, <2>7, <3>2, <3>4
    <2>8. CASE /\ lock' = [lock EXCEPT !.age = age]
               /\ Goto("acquire")
               /\ UNCHANGED <<state, lossTimer, logActive, hwVars>>
      <3>1. lock' \in Attempts
        BY <2>1, <2>8 DEF Attempts
      <3>2. HwTypeOK'
        BY <2>8, TypeParts DEF HwTypeOK, hwVars
      <3> QED
        BY <2>6, <2>8, <3>1, <3>2
    <2> QED
      BY <2>3, <2>5, <2>7, <2>8
  <1>3. CASE Telemetry
    <2>1. agcActive' \in SUBSET Osc
      BY <1>3, ServoType, TypeParts DEF Telemetry, HwTypeOK, OptTypeOK
    <2>2. HwTypeOK'
      BY <1>3, <2>1, TypeParts DEF Telemetry, HwTypeOK, loopVars, windowVars
    <2>3. LockTypeOK' /\ OutTypeOK'
      BY <1>3, TypeParts
         DEF Telemetry, Goto, lockVars, runVars, outVars, LockTypeOK, OutTypeOK, Points
    <2>4. OptTypeOK'
      BY <1>3, TypeParts DEF Telemetry, runVars, optVars, OptTypeOK
    <2>5. LockingHasAttempt' /\ AttemptPoints'
      BY <1>3 DEF Telemetry, Goto, lockVars, LockingHasAttempt, AttemptPoints
    <2> QED
      BY <2>2, <2>3, <2>4, <2>5, TypeParts
  <1>4. CASE Measure
    <2>1. agcActive' \in SUBSET Osc
      BY <1>4, ServoType, TypeParts DEF Measure, HwTypeOK, OptTypeOK
    <2>2. HwTypeOK'
      BY <1>4, <2>1, TypeParts DEF Measure, HwTypeOK, loopVars, windowVars
    <2>3. LockTypeOK'
      BY <1>4, TypeParts DEF Measure, Goto, LogWritten, lockVars, LockTypeOK, Points
    <2>4. OptTypeOK'
      BY <1>4, TypeParts DEF Measure, optVars, OptTypeOK
    <2>5. tempHeld' \in BOOLEAN
      BY <1>4, TypeParts DEF Measure, HoldTemp, OptTypeOK, OutTypeOK
    <2>6. target' \in Targets /\ targetReached' \in BOOLEAN /\ thickness' \in Thicknesses
      BY <1>4, TypeParts DEF Measure, CheckTarget, targetVars, OutTypeOK
    <2>7. LockingHasAttempt' /\ AttemptPoints'
      BY <1>4 DEF Measure, Goto, lockVars, LockingHasAttempt, AttemptPoints
    <2> QED
      BY <2>2, <2>3, <2>4, <2>5, <2>6, <2>7, TypeParts DEF OutTypeOK
  <1>5. CASE Relock
    <2>1. OptTypeOK' /\ OutTypeOK'
      BY <1>5, TypeParts DEF Relock, optVars, outVars, OptTypeOK, OutTypeOK
    <2>2. CASE lockFreqs # NoFreqs /\ StartLock(lockFreqs, "get")
      <3>1. lockFreqs \in StartFreqs
        BY <2>2, TypeParts DEF LockTypeOK
      <3>2. HwTypeOK' /\ LockTypeOK' /\ LockingHasAttempt' /\ AttemptPoints'
        BY <2>2, <3>1, StartLockType
      <3> QED
        BY <2>1, <3>2, TypeParts
    <2>3. ASSUME NEW timer \in BOOLEAN, LeaveCycle(timer)
          PROVE  AttemptInv'
      <3>1. HwTypeOK'
        BY <2>3, TypeParts DEF LeaveCycle, HwTypeOK, hwVars
      <3>2. LockTypeOK'
        BY <2>3, TypeParts DEF LeaveCycle, Goto, LockTypeOK, Points
      <3>3. LockingHasAttempt' /\ AttemptPoints'
        BY <1>5, <2>3 DEF Relock, LeaveCycle, Goto, LockingHasAttempt, AttemptPoints
      <3> QED
        BY <2>1, <3>1, <3>2, <3>3, TypeParts
    <2>4. lossTimer \in BOOLEAN
      BY TypeParts DEF LockTypeOK
    <2> QED
      BY <1>5, <2>2, <2>3, <2>4 DEF Relock
  <1>6. CASE AbortLock
    <2>1. Osc \ parked \in SUBSET Osc
      OBVIOUS
    <2>2. HwTypeOK'
      BY <1>6, <2>1, FinishLockType, TypeParts DEF AbortLock
    <2>3. LockTypeOK'
      BY <1>6, TypeParts
         DEF AbortLock, EndAttempt, AfterAttempt, LogWritten, LockTypeOK, Points, States
    <2>4. OptTypeOK' /\ OutTypeOK'
      BY <1>6, TypeParts DEF AbortLock, optVars, outVars, OptTypeOK, OutTypeOK
    <2>5. LockingHasAttempt' /\ AttemptPoints'
      BY <1>6 DEF AbortLock, EndAttempt, AfterAttempt, LockingHasAttempt, AttemptPoints
    <2> QED
      BY <2>2, <2>3, <2>4, <2>5, TypeParts
  <1>7. CASE ReplayRefused \/ ReplayDone
    <2>1. deferred' \in Seq(Deferrable)
      BY <1>7, TypeParts DEF ReplayRefused, ReplayDone, OptTypeOK
    <2>2. HwTypeOK'
      BY <1>7, TypeParts DEF ReplayRefused, ReplayDone, HwTypeOK, hwVars
    <2>3. LockTypeOK' /\ OutTypeOK'
      <3>1. LockTypeOK /\ OutTypeOK
        BY TypeParts
      <3>2. pc' \in Points /\ back' \in {"get", "update", "acquire"} /\ resuming' \in BOOLEAN
        BY <1>7, <3>1 DEF ReplayRefused, ReplayDone, Goto, ctlVars, LockTypeOK, Points
      <3>3. OutTypeOK'
        BY <1>7, <3>1 DEF ReplayRefused, ReplayDone, outVars, OutTypeOK
      <3> QED
        BY <1>7, <3>1, <3>2, <3>3 DEF ReplayRefused, ReplayDone, lockVars, runVars, LockTypeOK
    <2>4. OptTypeOK'
      BY <1>7, <2>1, TypeParts
         DEF ReplayRefused, ReplayDone, runVars, optVars, OptTypeOK
    <2>5. LockingHasAttempt' /\ AttemptPoints'
      BY <1>7, TypeParts
         DEF ReplayRefused, ReplayDone, Goto, ctlVars, lockVars, LockTypeOK,
             LockingHasAttempt, AttemptPoints
    <2> QED
      BY <2>2, <2>3, <2>4, <2>5, TypeParts
  <1> QED
    BY <1>1, <1>2, <1>3, <1>4, <1>5, <1>6, <1>7

\* Every step keeps the invariant.
LEMMA AttemptStep == AttemptInv /\ [Next]_vars => AttemptInv'
  <1> SUFFICES ASSUME AttemptInv, [Next]_vars PROVE AttemptInv'
    OBVIOUS
  <1>1. CASE Next
    BY <1>1, ControlStep, SettingStep, CycleStep DEF Next, Command, Cycle
  <1>2. CASE UNCHANGED vars
    <2>1. HwTypeOK'
      BY <1>2, TypeParts DEF AttemptInv, vars, hwVars, HwTypeOK
    <2>2. LockTypeOK' /\ OptTypeOK' /\ OutTypeOK'
      BY <1>2, TypeParts
         DEF AttemptInv, vars, ctlVars, lockVars, runVars, optVars, outVars,
             LockTypeOK, OptTypeOK, OutTypeOK
    <2>3. LockingHasAttempt' /\ AttemptPoints'
      BY <1>2 DEF AttemptInv, vars, ctlVars, lockVars, LockingHasAttempt, AttemptPoints
    <2> QED
      BY <2>1, <2>2, <2>3, TypeParts DEF AttemptInv
  <1> QED
    BY <1>1, <1>2

\* Every variable of the worker and of the loop hardware keeps its type.
THEOREM TypeCorrect == Spec => []TypeOK
  <1>1. AttemptInv => TypeOK
    BY DEF AttemptInv
  <1> QED
    BY <1>1, AttemptInit, AttemptStep, PTL DEF Spec

\* No path through _start_lock, _advance_lock, _finish_lock, _abort_lock and
\* the commands ends a lock attempt and stays in LOCKING.
THEOREM NeverStuckInLocking == Spec => []LockingHasAttempt
  <1>1. AttemptInv => LockingHasAttempt
    BY DEF AttemptInv
  <1> QED
    BY <1>1, AttemptInit, AttemptStep, PTL DEF Spec
-----------------------------------------------------------------------------
(* The worker implements RunLifecycle: each of its steps is a step of the  *)
(* lifecycle, or none of its business.  The argument is an invariant (a    *)
(* run interrupted by an attempt that failed at once is remembered in      *)
(* `resuming`) and one case per action.                                    *)

\* _abort_lock gives the measurement back to every run it interrupts.
AbortResumes == pc = "abort" /\ state = "MEASURING" => resuming

LifeInv == AttemptInv /\ AbortResumes

-----------------------------------------------------------------------------

\* What a step that neither ends an attempt nor touches a run leaves alone.
Unseen ==
  /\ pc # "abort" /\ pc' # "abort"
  /\ UNCHANGED <<state, logActive>>
  /\ lock' # NoLock <=> lock # NoLock
  /\ lock # NoLock => lock'.resume = lock.resume

LEMMA UnseenStutters ==
  ASSUME Unseen
  PROVE  UNCHANGED Lifecycle!lifecycleVars /\ AbortResumes'
  BY DEF Unseen, Lifecycle!lifecycleVars, RunGoing, InRun, AbortResumes

LifeStep == [Lifecycle!Next]_(Lifecycle!lifecycleVars) /\ AbortResumes'

\* _start_lock acquires, gives back at once, or hands its run to _abort_lock.
LEMMA StartLockLife ==
  ASSUME LifeInv, pc # "abort", NEW freqs \in StartFreqs, NEW ret \in {"get", "update"},
         StartLock(freqs, ret)
  PROVE  LifeStep
  <1> DEFINE active == Lockable(freqs, IF CompensatedNow THEN Osc ELSE {1})
             rec == [active |-> active, age |-> 0, resume |-> InRun, settled |-> FALSE]
  <1>1. InRun \in BOOLEAN /\ RunGoing = InRun
    BY DEF InRun, RunGoing
  <1>2. rec \in Attempts /\ rec.resume = InRun
    <2>1. active \in SUBSET Osc /\ 0 \in 0..Timeout
      BY WorkerAssumption DEF Lockable, Osc
    <2> QED
      BY <1>1, <2>1 DEF Attempts
  <1>3. CASE /\ lock' = rec /\ state' = "LOCKING" /\ Goto(ret)
             /\ IF InRun THEN LogWritten ELSE UNCHANGED logActive
    <2>1. lock' # NoLock /\ lock'.resume = InRun
      BY <1>2, <1>3, AttemptIsNotNone
    <2>2. pc' # "abort"
      BY <1>3 DEF Goto
    <2>3. InRun' = InRun /\ RunGoing' = InRun
      BY <1>1, <1>3, <2>1, <2>2 DEF InRun, RunGoing
    <2>4. Lifecycle!Acquire
      BY <1>1, <1>3, <2>3 DEF Lifecycle!Acquire, LogWritten
    <2> QED
      BY <2>2, <2>4 DEF LifeStep, Lifecycle!Next, AbortResumes
  <1>4. CASE /\ lock' = NoLock /\ state' = AfterAttempt(InRun) /\ Goto(ret)
             /\ UNCHANGED logActive
    <2>1. pc' # "abort"
      BY <1>4 DEF Goto
    <2>2. RunGoing' = InRun
      BY <1>1, <1>4, <2>1 DEF InRun, RunGoing, AfterAttempt
    <2>3. Lifecycle!Acquired
      BY <1>1, <1>4, <2>2 DEF Lifecycle!Acquired, AfterAttempt
    <2> QED
      BY <2>1, <2>3 DEF LifeStep, Lifecycle!Next, AbortResumes
  <1>5. CASE /\ lock' = NoLock /\ pc' = "abort" /\ resuming' = InRun
             /\ UNCHANGED <<state, logActive>>
    <2>1. RunGoing' = InRun
      BY <1>1, <1>5 DEF InRun, RunGoing
    <2>2. UNCHANGED Lifecycle!lifecycleVars
      BY <1>1, <1>5, <2>1 DEF Lifecycle!lifecycleVars
    <2>3. AbortResumes'
      BY <1>5 DEF AbortResumes, InRun
    <2> QED
      BY <2>2, <2>3 DEF LifeStep
  <1> QED
    BY <1>3, <1>4, <1>5 DEF StartLock

\* The end of an attempt, or of its abort, gives the run its measurement back.
LEMMA EndAttemptLife ==
  ASSUME NEW resume \in BOOLEAN, NEW ret, EndAttempt(resume, ret),
         lock' = NoLock, RunGoing = resume
  PROVE  LifeStep
  <1>1. pc' # "abort"
    BY DEF EndAttempt
  <1>2. RunGoing' = resume
    BY <1>1 DEF EndAttempt, AfterAttempt, RunGoing, InRun
  <1>3. Lifecycle!Acquired
    BY <1>2 DEF EndAttempt, AfterAttempt, LogWritten, Lifecycle!Acquired
  <1> QED
    BY <1>1, <1>3 DEF LifeStep, Lifecycle!Next, AbortResumes

LEMMA EndLockLife ==
  ASSUME LifeInv, pc = "advance", NEW success \in BOOLEAN, EndLock(success)
  PROVE  LifeStep
  <1>1. lock \in Attempts /\ lock # NoLock /\ state = "LOCKING"
    BY DEF LifeInv, AttemptInv, AttemptPoints, LockingHasAttempt, TypeOK
  <1>2. lock.resume \in BOOLEAN /\ RunGoing = lock.resume
    BY <1>1 DEF Attempts, RunGoing, InRun
  <1>3. CASE EndAttempt(lock.resume, "acquire")
    BY <1>2, <1>3, EndAttemptLife DEF EndLock
  <1>4. CASE /\ pc' = "abort" /\ resuming' = lock.resume
             /\ UNCHANGED <<state, logActive>>
    <2>1. RunGoing' = lock.resume
      BY <1>1, <1>2, <1>4 DEF EndLock, RunGoing, InRun
    <2> QED
      BY <1>1, <1>2, <1>4, <2>1 DEF LifeStep, Lifecycle!lifecycleVars, AbortResumes
  <1> QED
    BY <1>3, <1>4 DEF EndLock

-----------------------------------------------------------------------------

\* The control commands, each at its place in the lifecycle.
LEMMA ControlLife ==
  ASSUME LifeInv,
         \/ \E f \in [Osc -> Freqs] : GetLock(f)
         \/ \E c \in Deferrable : Defer(c)
         \/ StartCapAdjust \/ StopCapAdjust \/ Sweep
         \/ StartMeasurement \/ StartRefused \/ StopMeasurement \/ RetryRunLog
  PROVE  LifeStep
  <1> USE DEF LifeInv, AttemptInv
  <1>1. ASSUME NEW f \in [Osc -> Freqs], GetLock(f)
        PROVE  LifeStep
    <2>1. f \in StartFreqs
      BY DEF StartFreqs
    <2>2. pc # "abort"
      BY <1>1 DEF GetLock, AtQueue
    <2> QED
      BY <1>1, <2>1, <2>2, StartLockLife DEF GetLock
  <1>2. ASSUME NEW c \in Deferrable, Defer(c)
        PROVE  LifeStep
    <2>1. Unseen
      BY <1>2 DEF Defer, AtQueue, Handled, Goto, lockVars, runVars, Unseen
    <2> QED
      BY <2>1, UnseenStutters DEF LifeStep
  <1>3. CASE StartCapAdjust \/ Sweep \/ StopCapAdjust
    <2>1. pc # "abort" /\ pc' # "abort"
      BY <1>3 DEF StartCapAdjust, Sweep, StopCapAdjust, Taken, AtQueue, Handled, Raised,
                  Goto, ctlVars
    <2>2. \/ state = "IDLE" /\ state' \in {"IDLE", "SWEEPING", "CAP_ADJUST"}
          \/ state = "CAP_ADJUST" /\ state' \in {"CAP_ADJUST", "IDLE"}
      BY <1>3 DEF StartCapAdjust, Sweep, StopCapAdjust
    <2>3. UNCHANGED <<lock, logActive>>
      BY <1>3 DEF StartCapAdjust, Sweep, StopCapAdjust, runVars
    <2>4. lock = NoLock
      BY <2>2 DEF LockingHasAttempt
    <2>5. ~RunGoing /\ ~RunGoing'
      BY <2>1, <2>2, <2>3, <2>4 DEF RunGoing, InRun
    <2>6. RunGoing = FALSE /\ RunGoing' = FALSE
      BY <2>5 DEF RunGoing, InRun
    <2>7. Lifecycle!OpenLoop \/ UNCHANGED Lifecycle!lifecycleVars
      <3>1. CASE state' = state
        BY <2>3, <2>6, <3>1 DEF Lifecycle!lifecycleVars
      <3>2. CASE state' # state
        BY <2>2, <2>3, <2>6, <3>2 DEF Lifecycle!OpenLoop
      <3> QED
        BY <3>1, <3>2
    <2> QED
      BY <2>1, <2>7 DEF LifeStep, Lifecycle!Next, AbortResumes
  <1>4. CASE StartMeasurement
    <2>1. pc # "abort" /\ pc' # "abort" /\ state = "IDLE" /\ state' = "MEASURING"
      BY <1>4 DEF StartMeasurement, Taken, AtQueue, Handled, Goto, ctlVars
    <2>2. lock = NoLock
      BY <2>1 DEF LockingHasAttempt
    <2>3. RunGoing = FALSE /\ RunGoing' = TRUE
      BY <2>1, <2>2 DEF RunGoing, InRun
    <2>4. Lifecycle!Begin
      BY <1>4, <2>1, <2>3 DEF StartMeasurement, Lifecycle!Begin
    <2> QED
      BY <2>1, <2>4 DEF LifeStep, Lifecycle!Next, AbortResumes
  <1>5. CASE StartRefused
    <2>1. Unseen
      BY <1>5 DEF StartRefused, Taken, AtQueue, Raised, ctlVars, lockVars, runVars, Unseen
    <2> QED
      BY <2>1, UnseenStutters DEF LifeStep
  <1>6. CASE StopMeasurement
    <2>1. pc # "abort" /\ pc' # "abort" /\ InRun /\ logActive' = FALSE
      BY <1>6 DEF StopMeasurement, AtQueue, Handled, Goto, ctlVars
    <2>2. RunGoing = TRUE
      BY <2>1 DEF RunGoing, InRun
    <2>3. CASE lock # NoLock
      <3>1. lock \in Attempts /\ state = "LOCKING"
        BY <2>3 DEF TypeOK, LockingHasAttempt
      <3>2. lock' \in Attempts /\ lock'.resume = FALSE /\ state' = state
        BY <1>6, <2>3, <3>1 DEF StopMeasurement, Attempts
      <3>3. RunGoing' = FALSE
        BY <2>1, <3>1, <3>2 DEF RunGoing, InRun
      <3>4. Lifecycle!End
        BY <2>1, <2>2, <3>1, <3>2, <3>3 DEF Lifecycle!End
      <3> QED
        BY <2>1, <3>4 DEF LifeStep, Lifecycle!Next, AbortResumes
    <2>4. CASE lock = NoLock
      <3>1. state = "MEASURING" /\ state' = "IDLE" /\ lock' = NoLock
        BY <1>6, <2>1, <2>4 DEF StopMeasurement, InRun
      <3>2. RunGoing' = FALSE
        BY <2>1, <3>1 DEF RunGoing, InRun
      <3>3. Lifecycle!End
        BY <2>1, <2>2, <3>1, <3>2 DEF Lifecycle!End
      <3> QED
        BY <2>1, <3>3 DEF LifeStep, Lifecycle!Next, AbortResumes
    <2> QED
      BY <2>3, <2>4
  <1>7. CASE RetryRunLog
    <2>1. /\ pc # "abort" /\ pc' # "abort"
          /\ state = "MEASURING" /\ state' = "MEASURING" /\ lock' = lock
          /\ logActive' \in BOOLEAN
      BY <1>7 DEF RetryRunLog, AtQueue, Handled, Goto, lockVars
    <2>2. RunGoing = TRUE /\ RunGoing' = TRUE
      BY <2>1 DEF RunGoing, InRun
    <2>3. Lifecycle!LogChanges
      BY <2>1, <2>2 DEF Lifecycle!LogChanges
    <2> QED
      BY <2>1, <2>3 DEF LifeStep, Lifecycle!Next, AbortResumes
  <1> QED
    BY <1>1, <1>2, <1>3, <1>4, <1>5, <1>6, <1>7

\* The setting commands, and what leaves this state alone, are not seen.
LEMMA SettingLife ==
  ASSUME LifeInv,
         \/ \E i \in Osc, g \in Gains : SetIntegratorGain(i, g)
         \/ \E i \in Osc, on \in BOOLEAN : SetAgcEnabled(i, on)
         \/ \E on \in BOOLEAN : \/ SetAutoRelock(on) \/ SetTempHold(on)
                                \/ SetFreqTracking(on) \/ SetMeasurementMode(on)
         \/ \E t \in Targets : SetTargetThickness(t)
         \/ \E d \in SUBSET Osc : SetLockLimits(d)
         \/ \E i \in Osc : SetFrequency(i)
         \/ OtherCommand \/ QueueEmpty
  PROVE  LifeStep
  <1>1. /\ pc = "get"
        /\ pc' \in {"get", "update"}
        /\ UNCHANGED <<state, lock, logActive>>
    BY DEF SetIntegratorGain, SetAgcEnabled, SetAutoRelock, SetTempHold, SetFreqTracking,
           SetMeasurementMode, SetTargetThickness, SetLockLimits, SetFrequency, OtherCommand,
           QueueEmpty,
           Setting, AtQueue, Handled, Raised, Goto, ctlVars, lockVars, runVars
  <1>2. Unseen
    BY <1>1 DEF Unseen
  <1> QED
    BY <1>2, UnseenStutters DEF LifeStep

\* The acquisition cycle, and what follows an attempt.
LEMMA CycleLife ==
  ASSUME LifeInv,
         \/ Update \/ AdvanceLock \/ Telemetry \/ Measure \/ Relock
         \/ AbortLock \/ ReplayRefused \/ ReplayDone
  PROVE  LifeStep
  <1> USE DEF LifeInv, AttemptInv
  <1>1. CASE Update \/ Telemetry \/ ReplayRefused \/ ReplayDone
    <2>1. back # "abort"
      BY DEF TypeOK
    <2>2. Unseen
      BY <1>1, <2>1 DEF Update, Telemetry, ReplayRefused, ReplayDone, Goto, ctlVars,
                        lockVars, runVars, Unseen
    <2> QED
      BY <2>2, UnseenStutters DEF LifeStep
  <1>2. CASE AdvanceLock
    <2>1. pc = "advance" /\ lock \in Attempts /\ lock # NoLock
      BY <1>2 DEF AdvanceLock, AttemptPoints, LockingHasAttempt, TypeOK
    <2>2. PICK age \in 0..Timeout :
            \/ /\ lock' = [lock EXCEPT !.age = age, !.settled = age >= Settle]
               /\ Goto("acquire")
               /\ UNCHANGED <<state, logActive>>
            \/ EndLock(TRUE)
            \/ EndLock(FALSE)
            \/ /\ lock' = [lock EXCEPT !.age = age]
               /\ Goto("acquire")
               /\ UNCHANGED <<state, logActive>>
      BY <1>2 DEF AdvanceLock
    <2>3. CASE EndLock(TRUE) \/ EndLock(FALSE)
      BY <2>1, <2>3, EndLockLife
    <2>4. CASE /\ lock' \in Attempts /\ lock'.resume = lock.resume
               /\ Goto("acquire")
               /\ UNCHANGED <<state, logActive>>
      <3>1. Unseen
        BY <2>1, <2>4, AttemptIsNotNone DEF Goto, Unseen
      <3> QED
        BY <3>1, UnseenStutters DEF LifeStep
    <2>5. CASE lock' = [lock EXCEPT !.age = age, !.settled = age >= Settle]
      <3>1. (age >= Settle) \in BOOLEAN
        OBVIOUS
      <3>2. lock' \in Attempts /\ lock'.resume = lock.resume
        BY <2>1, <2>5, <3>1 DEF Attempts
      <3> QED
        BY <2>2, <2>3, <2>4, <3>2
    <2>6. CASE lock' = [lock EXCEPT !.age = age]
      <3>1. lock' \in Attempts /\ lock'.resume = lock.resume
        BY <2>1, <2>6 DEF Attempts
      <3> QED
        BY <2>2, <2>3, <2>4, <3>1
    <2> QED
      BY <2>2, <2>3, <2>5, <2>6
  <1>3. CASE Measure
    <2>1. /\ pc # "abort" /\ pc' # "abort"
          /\ state = "MEASURING" /\ state' = "MEASURING" /\ lock' = lock
          /\ logActive' \in {logActive, FALSE}
      BY <1>3 DEF Measure, Goto, LogWritten, lockVars
    <2>2. RunGoing = TRUE /\ RunGoing' = TRUE
      BY <2>1 DEF RunGoing, InRun
    <2>3. Lifecycle!LogChanges
      BY <2>1, <2>2 DEF Lifecycle!LogChanges
    <2> QED
      BY <2>1, <2>3 DEF LifeStep, Lifecycle!Next, AbortResumes
  <1>4. CASE Relock
    <2>1. pc # "abort"
      BY <1>4 DEF Relock
    <2>2. CASE lockFreqs # NoFreqs /\ StartLock(lockFreqs, "get")
      <3>1. lockFreqs \in StartFreqs
        BY <2>2 DEF TypeOK
      <3> QED
        BY <2>1, <2>2, <3>1, StartLockLife
    <2>3. ASSUME NEW timer, LeaveCycle(timer)
          PROVE  LifeStep
      <3>1. Unseen
        BY <2>1, <2>3 DEF LeaveCycle, Goto, Unseen
      <3> QED
        BY <3>1, UnseenStutters DEF LifeStep
    <2> QED
      BY <1>4, <2>2, <2>3 DEF Relock
  <1>5. CASE AbortLock
    <2>1. /\ resuming \in BOOLEAN /\ pc = "abort" /\ lock = NoLock /\ lock' = NoLock
          /\ EndAttempt(resuming, back)
      BY <1>5 DEF AbortLock, AttemptPoints, TypeOK
    <2>2. RunGoing = resuming
      BY <2>1 DEF RunGoing, InRun, AbortResumes
    <2> QED
      BY <2>1, <2>2, EndAttemptLife
  <1> QED
    BY <1>1, <1>2, <1>3, <1>4, <1>5

LEMMA LifeInit == Init => LifeInv /\ Lifecycle!Init
  <1> SUFFICES ASSUME Init PROVE LifeInv /\ Lifecycle!Init
    OBVIOUS
  <1>1. LifeInv
    BY AttemptInit DEF Init, LifeInv, AbortResumes
  <1>2. RunGoing = FALSE
    BY DEF Init, RunGoing, InRun
  <1> QED
    BY <1>1, <1>2 DEF Init, Lifecycle!Init

LEMMA LifeNext ==
  LifeInv /\ [Next]_vars => LifeInv' /\ [Lifecycle!Next]_(Lifecycle!lifecycleVars)
  <1> SUFFICES ASSUME LifeInv, [Next]_vars
               PROVE  LifeInv' /\ [Lifecycle!Next]_(Lifecycle!lifecycleVars)
    OBVIOUS
  <1>1. AttemptInv'
    BY AttemptStep DEF LifeInv
  <1>2. CASE Next
    BY <1>1, <1>2, ControlLife, SettingLife, CycleLife
       DEF Next, Command, Cycle, LifeStep, LifeInv
  <1>3. CASE UNCHANGED vars
    <2>1. UNCHANGED <<pc, resuming, state, lock, logActive>>
      BY <1>3 DEF vars, ctlVars, lockVars, runVars
    <2>2. UNCHANGED Lifecycle!lifecycleVars
      BY <2>1 DEF Lifecycle!lifecycleVars, RunGoing, InRun
    <2>3. AbortResumes'
      BY <2>1 DEF LifeInv, AbortResumes
    <2> QED
      BY <1>1, <2>2, <2>3 DEF LifeInv
  <1> QED
    BY <1>2, <1>3

\* The worker implements the run lifecycle: a run begins from IDLE only and
\* ends only when it is stopped, a lock attempt, failed or not, in or out of a
\* run, never begins or ends one, and the log is open only inside a run.
THEOREM ImplementsRunLifecycle == Spec => RunLifecycleHolds
  BY LifeInit, LifeNext, PTL DEF Spec, RunLifecycleHolds, Lifecycle!Spec
=============================================================================
