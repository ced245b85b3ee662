-------------------------- MODULE QcmSafetyProofs --------------------------
(***************************************************************************)
(* What the worker promises beside its types, for every choice of the      *)
(* constants.                                                              *)
(*                                                                         *)
(* First, that the integrators follow the lock attempt.  What has to be    *)
(* carried along with the claim is what parks a channel: as long as        *)
(* nothing has opened the loops since, the parked ones are exactly those   *)
(* the last attempt did not release.                                       *)
(***************************************************************************)
EXTENDS QcmWorkerProofs

\* Where the loops stand between attempts.
Aimed ==
  /\ lock # NoLock => loopsAimed
  /\ pc = "abort" => unsure
  /\ loopsAimed => parked = Osc \ lockActive /\ state \notin {"CAP_ADJUST", "SWEEPING"}

GainInv == AttemptInv /\ IntegratorsFollowAttempt /\ Aimed

\* What a step leaves behind, beside what AttemptStep already says of it.
Followed == IntegratorsFollowAttempt' /\ Aimed'

-----------------------------------------------------------------------------

\* finishLock gives each channel it is given its configured gain, and no other.
LEMMA FinishGainsAt ==
  ASSUME NEW active, NEW i \in Osc
  PROVE  FinishGains(active)[i] = IF i \in active THEN intGain[i] ELSE integ[i]
  BY DEF FinishGains

LEMMA LockGainsAt ==
  ASSUME NEW active, NEW i \in Osc
  PROVE  LockGains(active)[i] = IF i \in active THEN Pre ELSE Off
  BY DEF LockGains

\* A step that changes none of what the claim is about.
LEMMA GainsUntouched ==
  ASSUME GainInv,
         UNCHANGED <<loopVars, lock, lockActive, loopsAimed>>,
         pc # "abort", pc' # "abort",
         loopsAimed => state' \notin {"CAP_ADJUST", "SWEEPING"}
  PROVE  Followed
  BY DEF GainInv, Followed, IntegratorsFollowAttempt, Aimed, loopVars

\* _start_lock sets everything up afresh, or says that it could not.
LEMMA StartLockGains ==
  ASSUME GainInv, NEW freqs \in StartFreqs, NEW ret \in {"get", "update"},
         StartLock(freqs, ret)
  PROVE  Followed
  <1> DEFINE active == Lockable(freqs, IF CompensatedNow THEN Osc ELSE {1})
             near == {i \in active : freqs[i] \notin {Junk, Stray}}
             rec == [active |-> active, age |-> 0, resume |-> InRun, settled |-> FALSE]
  <1>1. active \in SUBSET Osc
    BY DEF Lockable, Osc
  <1>2. rec \in Attempts /\ rec.active = active
    <2>1. InRun \in BOOLEAN /\ 0 \in 0..Timeout
      BY WorkerAssumption DEF InRun
    <2> QED
      BY <1>1, <2>1 DEF Attempts
  <1>3. CASE /\ BeginLock(active, near) /\ lockActive' = active /\ loopsAimed' = TRUE
             /\ lock' = rec /\ state' = "LOCKING" /\ Goto(ret)
    <2>1. lock' # NoLock /\ lock'.active = active /\ pc' # "abort"
      BY <1>2, <1>3, AttemptIsNotNone DEF Goto
    <2>2. acquiring' = TRUE /\ parked' = Osc \ active /\ integ' = LockGains(active)
      BY <1>3 DEF BeginLock
    <2>3. integ' = LockGains(lock'.active)
      BY <2>1, <2>2
    <2>4. IntegratorsFollowAttempt'
      <3>1. acquiring' <=> lock' # NoLock \/ (pc' = "abort" /\ ~loopsAimed')
        BY <2>1, <2>2
      <3> QED
        BY <1>3, <2>1, <2>2, <2>3, <3>1 DEF IntegratorsFollowAttempt, LockGains
    <2>5. Aimed'
      BY <1>3, <2>1, <2>2 DEF Aimed
    <2> QED
      BY <2>4, <2>5 DEF Followed
  <1>4. CASE ParkBoth /\ loopsAimed' = FALSE /\ lock' = NoLock /\ Goto(ret)
    <2>1. pc' # "abort" /\ acquiring' = FALSE
      BY <1>4 DEF Goto, ParkBoth
    <2> QED
      BY <1>4, <2>1 DEF Followed, IntegratorsFollowAttempt, Aimed
  <1>5. CASE /\ BeginLockRaises(active) /\ loopsAimed' = FALSE /\ lock' = NoLock
             /\ pc' = "abort"
    BY <1>5 DEF BeginLockRaises, Followed, IntegratorsFollowAttempt, Aimed
  <1> QED
    BY <1>3, <1>4, <1>5 DEF StartLock

\* _finish_lock: the channels of the attempt get their gain, the parked ones
\* keep their integrator off.
LEMMA EndLockGains ==
  ASSUME GainInv, pc = "advance", NEW success \in BOOLEAN, EndLock(success),
         UNCHANGED <<lockActive, loopsAimed>>
  PROVE  Followed
  <1>1. lock \in Attempts /\ lock # NoLock /\ state = "LOCKING"
    BY DEF GainInv, AttemptInv, AttemptPoints, LockingHasAttempt, TypeOK
  <1>2. loopsAimed = TRUE /\ parked = Osc \ lockActive /\ lockActive = lock.active
    BY <1>1 DEF GainInv, Aimed, IntegratorsFollowAttempt, AttemptInv, TypeOK
  <1>3. acquiring' = FALSE /\ parked' = parked /\ intGain' = intGain /\ lock' = NoLock
    BY DEF EndLock, FinishLock, FinishLockRaises
  <1>4. state' \in {"LOCKING", "MEASURING", "IDLE"}
    BY <1>1 DEF EndLock, EndAttempt, AfterAttempt
  <1>5. CASE FinishLock(lock.active, success) /\ EndAttempt(lock.resume, "acquire")
    <2>1. pc' # "abort" /\ unsure' = unsure /\ integ' = FinishGains(lock.active)
      BY <1>5 DEF FinishLock, EndAttempt
    <2>2. ASSUME ~unsure, NEW i \in Osc
          PROVE  integ'[i] = IF i \in lockActive THEN intGain[i] ELSE Off
      <3>1. integ = LockGains(lock.active)
        BY <1>1, <2>2 DEF GainInv, IntegratorsFollowAttempt
      <3> QED
        BY <1>2, <2>1, <3>1, FinishGainsAt, LockGainsAt
    <2>3. IntegratorsFollowAttempt'
      BY <1>2, <1>3, <2>1, <2>2 DEF IntegratorsFollowAttempt
    <2> QED
      BY <1>2, <1>3, <1>4, <2>1, <2>3 DEF Followed, Aimed
  <1>6. CASE FinishLockRaises(lock.active) /\ pc' = "abort"
    <2>1. unsure' = TRUE
      BY <1>6 DEF FinishLockRaises
    <2> QED
      BY <1>2, <1>3, <1>4, <1>6, <2>1 DEF Followed, IntegratorsFollowAttempt, Aimed
  <1> QED
    BY <1>5, <1>6 DEF EndLock

\* _abort_lock runs only after a failed write: it ends the attempt and promises
\* nothing about the registers.
LEMMA AbortLockGains ==
  ASSUME GainInv, AbortLock
  PROVE  Followed
  <1>1. /\ pc = "abort" /\ lock = NoLock /\ lock' = NoLock /\ unsure = TRUE
        /\ UNCHANGED <<lockActive, loopsAimed>>
    BY DEF GainInv, AttemptInv, AttemptPoints, Aimed, AbortLock, TypeOK, HwTypeOK
  <1>2. acquiring' = FALSE /\ unsure' = TRUE /\ parked' = parked
    BY <1>1 DEF AbortLock, FinishLock, FinishLockRaises
  <1>3. pc' = "replay" /\ state' \in {"MEASURING", "IDLE"}
    BY DEF AbortLock, EndAttempt, AfterAttempt
  <1> QED
    BY <1>1, <1>2, <1>3 DEF GainInv, Followed, IntegratorsFollowAttempt, Aimed

\* A gain set at any time: written only where no attempt and no park forbids it.
LEMMA SetIntegratorGainGains ==
  ASSUME GainInv, NEW i \in Osc, NEW g \in Gains, SetIntegratorGain(i, g)
  PROVE  Followed
  <1>1. /\ pc # "abort" /\ pc' # "abort"
        /\ UNCHANGED <<state, lock, lockActive, loopsAimed>>
    BY DEF SetIntegratorGain, Setting, AtQueue, Handled, Raised, Goto, ctlVars, lockVars
  <1>2. /\ UNCHANGED <<parked, acquiring>>
        /\ intGain' = [intGain EXCEPT ![i] = g]
    BY DEF SetIntegratorGain, SetIntGain, SetIntGainRaises
  <1>3. Aimed'
    BY <1>1, <1>2 DEF GainInv, Aimed
  <1>4. CASE SetIntGain(i, g)
    <2>1. unsure' = unsure /\ integ' = IF GainWrites(i) THEN [integ EXCEPT ![i] = g] ELSE integ
      BY <1>4 DEF SetIntGain
    <2>2. CASE lock # NoLock
      <3>1. acquiring
        BY <2>2 DEF GainInv, IntegratorsFollowAttempt
      <3>2. integ' = integ
        BY <2>1, <3>1 DEF GainWrites
      <3> QED
        BY <1>1, <1>2, <1>3, <2>1, <2>2, <3>2
           DEF GainInv, Followed, IntegratorsFollowAttempt, LockGains
    <2>3. CASE lock = NoLock
      <3>1. ~acquiring
        BY <1>1, <2>3 DEF GainInv, IntegratorsFollowAttempt
      <3>2. integ' = IF i \in parked THEN integ ELSE [integ EXCEPT ![i] = g]
        BY <2>1, <3>1 DEF GainWrites
      <3>3. ASSUME ~unsure, loopsAimed, NEW j \in Osc
            PROVE  integ'[j] = IF j \in lockActive THEN intGain'[j] ELSE Off
        <4>1. parked = Osc \ lockActive
          BY <3>3 DEF GainInv, Aimed
        <4>2. integ[j] = IF j \in lockActive THEN intGain[j] ELSE Off
          BY <2>3, <3>3 DEF GainInv, IntegratorsFollowAttempt
        <4>3. integ \in [Osc -> IntegVals] /\ intGain \in [Osc -> Gains]
          BY DEF GainInv, AttemptInv, TypeOK, HwTypeOK
        <4>4. CASE j = i
          BY <1>2, <3>2, <4>1, <4>2, <4>3, <4>4
        <4>5. CASE j # i
          BY <1>2, <3>2, <4>1, <4>2, <4>3, <4>5
        <4> QED
          BY <4>4, <4>5
      <3> QED
        BY <1>1, <1>2, <1>3, <2>1, <2>3, <3>1, <3>3 DEF Followed, IntegratorsFollowAttempt
    <2> QED
      BY <2>2, <2>3
  <1>5. CASE SetIntGainRaises(i, g)
    <2>1. ~acquiring /\ unsure' = TRUE
      BY <1>5 DEF SetIntGainRaises, GainWrites
    <2>2. lock = NoLock
      BY <2>1 DEF GainInv, IntegratorsFollowAttempt
    <2> QED
      BY <1>1, <1>2, <1>3, <2>1, <2>2 DEF Followed, IntegratorsFollowAttempt
  <1> QED
    BY <1>4, <1>5 DEF SetIntegratorGain

\* Opening the loops withdraws the claim until the next attempt.
LEMMA OpenLoopsGains ==
  ASSUME GainInv, StartCapAdjust \/ StopCapAdjust \/ Sweep
  PROVE  Followed
  <1>1. pc # "abort" /\ pc' # "abort"
    BY DEF StartCapAdjust, StopCapAdjust, Sweep, Taken, AtQueue, Handled, Raised, Goto,
           ctlVars
  <1>2. state \in {"IDLE", "CAP_ADJUST"} /\ lock = NoLock /\ lock' = NoLock
    BY DEF GainInv, AttemptInv, LockingHasAttempt, StartCapAdjust, StopCapAdjust, Sweep
  <1>3. loopsAimed' = FALSE
    BY DEF GainInv, AttemptInv, TypeOK, Aimed, StartCapAdjust, StopCapAdjust, Sweep
  <1>4. acquiring' = acquiring /\ acquiring = FALSE
    BY <1>1, <1>2 DEF GainInv, AttemptInv, TypeOK, HwTypeOK, IntegratorsFollowAttempt,
                      StartCapAdjust, StopCapAdjust, Sweep, OpenLoops, OpenLoopsRaises
  <1> QED
    BY <1>1, <1>2, <1>3, <1>4 DEF Followed, IntegratorsFollowAttempt, Aimed

-----------------------------------------------------------------------------

\* Everything else the worker does leaves the loops alone.
LEMMA OtherGains ==
  ASSUME GainInv,
         \/ \E c \in Deferrable : Defer(c)
         \/ StartMeasurement \/ StartRefused \/ StopMeasurement \/ RetryRunLog
         \/ \E i \in Osc, on \in BOOLEAN : SetAgcEnabled(i, on)
         \/ \E on \in BOOLEAN : \/ SetAutoRelock(on) \/ SetTempHold(on)
                                \/ SetFreqTracking(on) \/ SetMeasurementMode(on)
         \/ \E t \in Targets : SetTargetThickness(t)
         \/ \E d \in SUBSET Osc : SetLockLimits(d)
         \/ OtherCommand \/ QueueEmpty
         \/ Update \/ Telemetry \/ Measure \/ ReplayRefused \/ ReplayDone
  PROVE  Followed
  <1>1. CASE StopMeasurement
    <2>1. pc # "abort" /\ pc' # "abort"
      BY <1>1 DEF StopMeasurement, AtQueue, Handled, Goto
    <2>2. UNCHANGED <<loopVars, lockActive, loopsAimed>>
      BY <1>1 DEF StopMeasurement, hwVars, loopVars
    <2>3. CASE lock = NoLock
      <3>1. lock' = NoLock /\ state' = "IDLE"
        BY <1>1, <2>3 DEF StopMeasurement
      <3> QED
        BY <2>1, <2>2, <2>3, <3>1, GainsUntouched
    <2>4. CASE lock # NoLock
      <3>1. lock \in Attempts /\ state' = state
        BY <1>1, <2>4 DEF GainInv, AttemptInv, TypeOK, StopMeasurement
      <3>2. lock' \in Attempts /\ lock'.active = lock.active
        BY <1>1, <2>4, <3>1 DEF StopMeasurement, Attempts
      <3>3. lock' # NoLock
        BY <3>2, AttemptIsNotNone
      <3>4. Aimed'
        BY <2>1, <2>2, <2>4, <3>1 DEF GainInv, Aimed, loopVars
      <3>5. IntegratorsFollowAttempt'
        BY <2>1, <2>2, <2>4, <3>2, <3>3
           DEF GainInv, IntegratorsFollowAttempt, loopVars, LockGains
      <3> QED
        BY <3>4, <3>5 DEF Followed
    <2> QED
      BY <2>3, <2>4
  <1>2. ASSUME ~StopMeasurement
        PROVE  /\ pc # "abort" /\ pc' # "abort"
               /\ UNCHANGED <<loopVars, lock, lockActive, loopsAimed>>
               /\ state' \in {state, "MEASURING"}
    <2>1. CASE \/ StartMeasurement \/ StartRefused \/ RetryRunLog
               \/ \E c \in Deferrable : Defer(c)
      BY <2>1 DEF StartMeasurement, StartRefused, RetryRunLog, Defer, Taken, AtQueue,
                  Handled, Raised, Goto, ctlVars, lockVars, hwVars, loopVars
    <2>2. CASE \/ \E i \in Osc, on \in BOOLEAN : SetAgcEnabled(i, on)
               \/ \E on \in BOOLEAN : \/ SetAutoRelock(on) \/ SetTempHold(on)
                                      \/ SetFreqTracking(on) \/ SetMeasurementMode(on)
               \/ \E t \in Targets : SetTargetThickness(t)
               \/ \E d \in SUBSET Osc : SetLockLimits(d)
               \/ OtherCommand \/ QueueEmpty
      BY <2>2 DEF SetAgcEnabled, SetAGC, SetAutoRelock, SetTempHold, SetFreqTracking,
                  SetMeasurementMode, SetTargetThickness, SetLockLimits, OtherCommand,
                  QueueEmpty, Setting, AtQueue, Handled, Raised, Goto, ctlVars, lockVars,
                  hwVars, loopVars
    <2>3. CASE Update \/ Telemetry \/ Measure \/ ReplayRefused \/ ReplayDone
      <3>1. back # "abort"
        BY DEF GainInv, AttemptInv, TypeOK
      <3> QED
        BY <2>3, <3>1 DEF Update, Telemetry, Measure, ReplayRefused, ReplayDone, Goto,
                          ctlVars, lockVars, hwVars, loopVars
    <2> QED
      BY <1>2, <2>1, <2>2, <2>3
  <1>3. CASE ~StopMeasurement
    <2>1. loopsAimed => state' \notin {"CAP_ADJUST", "SWEEPING"}
      BY <1>2, <1>3 DEF GainInv, Aimed
    <2> QED
      BY <1>2, <1>3, <2>1, GainsUntouched
  <1> QED
    BY <1>1, <1>3

\* The cycle's two steps that may start or end an attempt.
LEMMA CycleGains ==
  ASSUME GainInv, AdvanceLock \/ Relock
  PROVE  Followed
  <1>1. CASE AdvanceLock
    <2>1. pc = "advance" /\ lock \in Attempts /\ lock # NoLock
      BY <1>1 DEF GainInv, AttemptInv, AdvanceLock, AttemptPoints, LockingHasAttempt, TypeOK
    <2>2. UNCHANGED <<lockActive, loopsAimed>>
      BY <1>1 DEF AdvanceLock
    <2>3. PICK age \in 0..Timeout :
            \/ /\ lock' = [lock EXCEPT !.age = age, !.settled = age >= Settle]
               /\ Goto("acquire") /\ UNCHANGED <<state, loopVars>>
            \/ EndLock(TRUE)
            \/ EndLock(FALSE)
            \/ /\ lock' = [lock EXCEPT !.age = age]
               /\ Goto("acquire") /\ UNCHANGED <<state, loopVars>>
      BY <1>1 DEF AdvanceLock, hwVars, loopVars
    <2>4. CASE EndLock(TRUE) \/ EndLock(FALSE)
      BY <2>1, <2>2, <2>4, EndLockGains
    <2>5. CASE /\ lock' \in Attempts /\ lock'.active = lock.active
               /\ Goto("acquire") /\ UNCHANGED <<state, loopVars>>
      <3>1. lock' # NoLock /\ pc' # "abort" /\ pc # "abort"
        BY <2>1, <2>5, AttemptIsNotNone DEF Goto
      <3>2. Aimed'
        BY <2>1, <2>2, <2>5, <3>1 DEF GainInv, Aimed, loopVars
      <3>3. IntegratorsFollowAttempt'
        BY <2>1, <2>2, <2>5, <3>1 DEF GainInv, IntegratorsFollowAttempt, loopVars, LockGains
      <3> QED
        BY <3>2, <3>3 DEF Followed
    <2>6. CASE lock' = [lock EXCEPT !.age = age, !.settled = age >= Settle]
      <3>1. (age >= Settle) \in BOOLEAN
        OBVIOUS
      <3>2. lock' \in Attempts /\ lock'.active = lock.active
        BY <2>1, <2>6, <3>1 DEF Attempts
      <3> QED
        BY <2>3, <2>4, <2>5, <3>2
    <2>7. CASE lock' = [lock EXCEPT !.age = age]
      <3>1. lock' \in Attempts /\ lock'.active = lock.active
        BY <2>1, <2>7 DEF Attempts
      <3> QED
        BY <2>3, <2>4, <2>5, <3>1
    <2> QED
      BY <2>3, <2>4, <2>6, <2>7
  <1>2. CASE Relock
    <2>1. pc = "relock"
      BY <1>2 DEF Relock
    <2>2. CASE lockFreqs # NoFreqs /\ StartLock(lockFreqs, "get")
      <3>1. lockFreqs \in StartFreqs
        BY <2>2 DEF GainInv, AttemptInv, TypeOK
      <3> QED
        BY <2>2, <3>1, StartLockGains
    <2>3. ASSUME NEW timer, LeaveCycle(timer)
          PROVE  Followed
      <3>1. /\ UNCHANGED <<loopVars, lock, lockActive, loopsAimed, state>>
            /\ pc # "abort" /\ pc' # "abort"
        BY <2>1, <2>3 DEF LeaveCycle, Goto, hwVars, loopVars
      <3>2. loopsAimed => state' \notin {"CAP_ADJUST", "SWEEPING"}
        BY <3>1 DEF GainInv, Aimed
      <3> QED
        BY <3>1, <3>2, GainsUntouched
    <2> QED
      BY <1>2, <2>2, <2>3 DEF Relock
  <1> QED
    BY <1>1, <1>2

\* An NCO moved by hand leaves the integrators as they are.
LEMMA SetFrequencyGains ==
  ASSUME GainInv, NEW i \in Osc, SetFrequency(i)
  PROVE  Followed
  <1>1. /\ pc # "abort" /\ pc' # "abort"
        /\ UNCHANGED <<state, lock, lockActive, loopsAimed>>
        /\ UNCHANGED <<parked, acquiring, integ, intGain, unsure>>
    BY DEF SetFrequency, SetFreq, Setting, AtQueue, Handled, Raised, Goto, ctlVars, lockVars
  <1> QED
    BY <1>1 DEF GainInv, Followed, IntegratorsFollowAttempt, Aimed, LockGains

LEMMA GainInit == Init => GainInv
  <1> SUFFICES ASSUME Init PROVE GainInv
    OBVIOUS
  <1>1. IntegratorsFollowAttempt
    BY DEF Init, HwInit, IntegratorsFollowAttempt
  <1>2. Aimed
    BY DEF Init, Aimed
  <1> QED
    BY <1>1, <1>2, AttemptInit DEF GainInv

LEMMA GainStep == GainInv /\ [Next]_vars => GainInv'
  <1> SUFFICES ASSUME GainInv, [Next]_vars PROVE GainInv'
    OBVIOUS
  <1>1. AttemptInv'
    BY AttemptStep DEF GainInv
  <1>2. ASSUME NEW f \in [Osc -> Freqs], GetLock(f)
        PROVE  Followed
    <2>1. f \in StartFreqs
      BY DEF StartFreqs
    <2> QED
      BY <1>2, <2>1, StartLockGains DEF GetLock
  <1>3. CASE Next
    <2>1. Followed
      BY <1>2, <1>3, OpenLoopsGains, SetIntegratorGainGains, SetFrequencyGains, OtherGains, CycleGains,
         AbortLockGains DEF Next, Command, Cycle
    <2> QED
      BY <1>1, <2>1 DEF GainInv, Followed
  <1>4. CASE UNCHANGED vars
    <2>1. /\ UNCHANGED <<loopVars, lock, lockActive, loopsAimed, state, pc>>
      BY <1>4 DEF vars, ctlVars, lockVars, hwVars, loopVars
    <2>2. IntegratorsFollowAttempt'
      BY <2>1 DEF GainInv, IntegratorsFollowAttempt, loopVars, LockGains
    <2>3. Aimed'
      BY <2>1 DEF GainInv, Aimed, loopVars
    <2> QED
      BY <1>1, <2>2, <2>3 DEF GainInv
  <1> QED
    BY <1>3, <1>4

\* Whatever gains are set and whenever, and whichever writes fail: an attempt's
\* channels run at the acquisition gain, and afterwards the locked ones have
\* the gain configured last and the parked ones none.
THEOREM GainsAreRight == Spec => []IntegratorsFollowAttempt
  <1>1. GainInv => IntegratorsFollowAttempt
    BY DEF GainInv
  <1> QED
    BY <1>1, GainInit, GainStep, PTL DEF Spec
-----------------------------------------------------------------------------
(* The worker's remaining promises: where a re-lock starts, which modes it *)
(* locks, what becomes of the commands it holds back, who drives the       *)
(* sensor meanwhile, and what lowers the target flag.                      *)

\* What a start frequency's worth rests on: while the loops stand where the
\* last attempt, or a frequency set by hand, has aimed them, none of those it
\* released is open, and where it started from is known.
Aimable == loopsAimed => lockFreqs # NoFreqs /\ \A i \in lockActive : loop[i] # "open"

Promises ==
  /\ StartFreqsAreResonances
  /\ Aimable
  /\ HeldBackByAttempt
  /\ RelockKeepsRunMode
  /\ OpenLoopDriveIsManual

SafetyInv == GainInv /\ Promises

-----------------------------------------------------------------------------

\* A step that changes none of what the promises are about; a sampling cycle
\* also withdraws the offer a run stop made.
LEMMA PromisesUntouched ==
  ASSUME Promises,
         UNCHANGED <<state, lock, lockActive, lockFreqs, loopsAimed, runCompensated>>,
         UNCHANGED <<parked, loop, unsure, agcActive>>,
         offered' \in {offered, NoFreqs},
         UNCHANGED deferred, pc # "abort",
         pc = "replay" => pc' = "replay" \/ deferred = << >>
  PROVE  Promises'
  <1>1. StartFreqsAreResonances' /\ Aimable' /\ OpenLoopDriveIsManual'
    BY DEF Promises, StartFreqsAreResonances, Aimable, OpenLoopDriveIsManual
  <1>2. HeldBackByAttempt'
    BY DEF Promises, HeldBackByAttempt
  <1>3. RelockKeepsRunMode'
    BY DEF Promises, RelockKeepsRunMode
  <1> QED
    BY <1>1, <1>2, <1>3 DEF Promises

\* What a channel may offer as a start frequency, read while the loops stand
\* where the last attempt aimed them and its channels all pass as locked.
LEMMA HeldFreqsAreResonances ==
  ASSUME SafetyInv, loopsAimed, NEW d \in SUBSET Osc, lockActive \subseteq d,
         NEW f \in HeldFreqs(d)
  PROVE  f \in StartFreqs /\ \A i \in Osc : f[i] # Junk
  <1>1. lockFreqs # NoFreqs /\ \A i \in lockActive : loop[i] \in {"resonance", "astray"}
    BY DEF SafetyInv, Promises, Aimable, GainInv, AttemptInv, TypeOK, HwTypeOK, Loops
  <1>2. f \in StartFreqs
        /\ \A i \in Osc : f[i] \in IF i \in lockActive THEN Reading(i, d) ELSE {lockFreqs[i]}
    BY <1>1 DEF HeldFreqs
  <1>3. ASSUME NEW i \in Osc
        PROVE  f[i] # Junk
    <2>1. CASE i \in lockActive
      <3>1. f[i] \in Readings \union {Stray}
        BY <1>1, <1>2, <2>1 DEF Reading
      <3> QED
        BY <3>1, WorkerAssumption
    <2>2. CASE i \notin lockActive
      BY <1>1, <1>2, <2>2 DEF SafetyInv, Promises, StartFreqsAreResonances
    <2> QED
      BY <2>1, <2>2
  <1> QED
    BY <1>2, <1>3

\* _start_lock releases the channels the run's mode and the frequencies name,
\* with the drive handed back; or parks both; or says that it could not.
LEMMA StartLockPromises ==
  ASSUME SafetyInv, NEW freqs \in StartFreqs, NEW ret \in {"get", "update"},
         \A i \in Osc : freqs[i] # Junk,
         StartLock(freqs, ret), UNCHANGED <<runCompensated, offered, deferred>>
  PROVE  Promises'
  <1> DEFINE active == Lockable(freqs, IF CompensatedNow THEN Osc ELSE {1})
             near == {i \in active : freqs[i] \notin {Junk, Stray}}
             rec == [active |-> active, age |-> 0, resume |-> InRun, settled |-> FALSE]
  <1>1. lockFreqs' = freqs /\ freqs # NoFreqs
    BY NoneAssumption DEF StartLock
  <1>2. StartFreqsAreResonances'
    BY <1>1 DEF SafetyInv, Promises, StartFreqsAreResonances
  <1>3. CASE /\ BeginLock(active, near) /\ lockActive' = active /\ loopsAimed' = TRUE
             /\ lock' = rec /\ state' = "LOCKING"
    <2>1. agcActive' = {} /\ \A i \in active : loop'[i] # "open"
      BY <1>3 DEF BeginLock, Lockable, Osc
    <2>2. Aimable' /\ HeldBackByAttempt' /\ OpenLoopDriveIsManual'
      BY <1>1, <1>3, <2>1 DEF Aimable, HeldBackByAttempt, OpenLoopDriveIsManual
    <2>3. lock'.active = active /\ lock'.resume = InRun
      BY <1>3
    <2>4. RelockKeepsRunMode'
      <3>1. SUFFICES ASSUME InRun
                     PROVE  2 \in active <=> runCompensated /\ ~IsParkedFreq(freqs[2])
        BY <1>1, <2>3 DEF RelockKeepsRunMode
      <3> QED
        BY <3>1 DEF CompensatedNow, Lockable, Osc
    <2> QED
      BY <1>2, <2>2, <2>4 DEF Promises
  <1>4. CASE ParkBoth /\ loopsAimed' = FALSE /\ lock' = NoLock
    <2>1. parked' = Osc /\ agcActive' = {}
      BY <1>4 DEF ParkBoth
    <2> QED
      BY <1>2, <1>4, <2>1
         DEF Promises, Aimable, HeldBackByAttempt, RelockKeepsRunMode, OpenLoopDriveIsManual
  <1>5. CASE BeginLockRaises(active) /\ loopsAimed' = FALSE /\ lock' = NoLock
             /\ pc' = "abort"
    <2>1. unsure' = TRUE
      BY <1>5 DEF BeginLockRaises
    <2> QED
      BY <1>2, <1>5, <2>1
         DEF Promises, Aimable, HeldBackByAttempt, RelockKeepsRunMode, OpenLoopDriveIsManual
  <1> QED
    BY <1>3, <1>4, <1>5 DEF StartLock

\* An attempt's end leaves the loops where they are and turns to the commands
\* held back, by way of _abort_lock when a write fails.
LEMMA EndLockPromises ==
  ASSUME SafetyInv, state = "LOCKING", NEW success \in BOOLEAN, EndLock(success),
         UNCHANGED <<lockActive, lockFreqs, loopsAimed, runCompensated, offered, deferred>>
  PROVE  Promises'
  <1>1. UNCHANGED <<loop, agcActive>> /\ lock' = NoLock /\ pc' \in {"replay", "abort"}
    BY DEF EndLock, EndAttempt, FinishLock, FinishLockRaises
  <1>2. state' # "CAP_ADJUST" /\ (unsure => unsure')
    BY DEF EndLock, EndAttempt, AfterAttempt, FinishLock, FinishLockRaises
  <1>3. StartFreqsAreResonances' /\ Aimable'
    BY <1>1 DEF SafetyInv, Promises, StartFreqsAreResonances, Aimable
  <1>4. OpenLoopDriveIsManual'
    BY <1>1, <1>2 DEF SafetyInv, Promises, OpenLoopDriveIsManual
  <1> QED
    BY <1>1, <1>3, <1>4 DEF Promises, HeldBackByAttempt, RelockKeepsRunMode

\* _abort_lock likewise.
LEMMA AbortLockPromises ==
  ASSUME SafetyInv, AbortLock
  PROVE  Promises'
  <1>1. /\ UNCHANGED <<loop, lock, lockActive, lockFreqs, loopsAimed, deferred, offered>>
        /\ pc' = "replay" /\ state' \in {"MEASURING", "IDLE"} /\ lock = NoLock
    BY DEF SafetyInv, GainInv, AttemptInv, AttemptPoints, AbortLock, FinishLock,
           FinishLockRaises, EndAttempt, AfterAttempt
  <1> QED
    BY <1>1 DEF SafetyInv, Promises, StartFreqsAreResonances, Aimable, HeldBackByAttempt,
                RelockKeepsRunMode, OpenLoopDriveIsManual

\* Opening the loops takes the drive back and withdraws what the last attempt
\* aimed; what an attempt with nothing to lock still holds back stays so.
LEMMA OpenLoopsPromises ==
  ASSUME SafetyInv, StartCapAdjust \/ StopCapAdjust \/ Sweep
  PROVE  Promises'
  <1>1. /\ lock = NoLock /\ lock' = NoLock /\ loopsAimed' = FALSE
        /\ state # "LOCKING" /\ state' # "LOCKING"
    BY DEF SafetyInv, GainInv, AttemptInv, LockingHasAttempt, TypeOK, Aimed,
           StartCapAdjust, StopCapAdjust, Sweep
  <1>2. UNCHANGED <<lockFreqs, offered, parked>>
    BY DEF StartCapAdjust, StopCapAdjust, Sweep, OpenLoops, OpenLoopsRaises, runVars
  <1>3. agcActive' = {} \/ unsure'
    BY DEF StartCapAdjust, StopCapAdjust, Sweep, OpenLoops, OpenLoopsRaises
  <1>4. HeldBackByAttempt'
    <2>1. CASE pc = "replay" /\ pc' = "replay"
      BY <2>1 DEF HeldBackByAttempt
    <2>2. CASE pc = "get" /\ UNCHANGED deferred
      BY <1>1, <1>2, <2>2 DEF SafetyInv, Promises, HeldBackByAttempt
    <2> QED
      BY <2>1, <2>2 DEF StartCapAdjust, StopCapAdjust, Sweep, Taken, AtQueue, Handled,
                        Raised, ctlVars
  <1> QED
    BY <1>1, <1>2, <1>3, <1>4
       DEF SafetyInv, Promises, StartFreqsAreResonances, Aimable, RelockKeepsRunMode,
           OpenLoopDriveIsManual

\* Beginning and ending a run.
LEMMA RunPromises ==
  ASSUME SafetyInv, StartMeasurement \/ StopMeasurement
  PROVE  Promises'
  <1>1. CASE StartMeasurement
    <2>1. /\ lock = NoLock /\ state = "IDLE" /\ state' = "MEASURING"
          /\ UNCHANGED <<lock, lockActive, lockFreqs, loopsAimed, offered>>
          /\ UNCHANGED <<parked, loop, unsure, agcActive>>
      BY <1>1 DEF SafetyInv, GainInv, AttemptInv, LockingHasAttempt, StartMeasurement, hwVars
    <2>2. HeldBackByAttempt'
      <3>1. CASE pc = "replay" /\ pc' = "replay"
        BY <3>1 DEF HeldBackByAttempt
      <3>2. CASE pc = "get" /\ UNCHANGED deferred
        BY <2>1, <3>2 DEF SafetyInv, Promises, HeldBackByAttempt
      <3> QED
        BY <1>1, <3>1, <3>2 DEF StartMeasurement, Taken, AtQueue, Handled, ctlVars
    <2> QED
      BY <2>1, <2>2 DEF SafetyInv, Promises, StartFreqsAreResonances, Aimable,
                        RelockKeepsRunMode, OpenLoopDriveIsManual
  <1>2. CASE StopMeasurement
    <2>1. /\ pc = "get"
          /\ UNCHANGED <<lockActive, lockFreqs, loopsAimed, deferred, runCompensated>>
          /\ UNCHANGED <<parked, loop, unsure, agcActive>>
          /\ state' \in {state, "IDLE"} /\ (lock # NoLock => state' = state)
      BY <1>2 DEF StopMeasurement, AtQueue, hwVars
    <2>2. offered' # NoFreqs => \A i \in Osc : offered'[i] # Junk
      <3>1. CASE loopsAimed /\ lockActive \subseteq detected /\ offered' \in HeldFreqs(detected)
        <4>1. detected \in SUBSET Osc
          BY DEF SafetyInv, GainInv, AttemptInv, TypeOK, HwTypeOK
        <4> QED
          BY <3>1, <4>1, HeldFreqsAreResonances
      <3>2. CASE UNCHANGED offered
        BY <3>2 DEF SafetyInv, Promises, StartFreqsAreResonances
      <3> QED
        BY <1>2, <3>1, <3>2 DEF StopMeasurement
    <2>3. RelockKeepsRunMode'
      <3>1. CASE lock = NoLock
        BY <1>2, <3>1 DEF StopMeasurement, RelockKeepsRunMode
      <3>2. CASE lock # NoLock
        <4>1. lock \in Attempts /\ lock' = [lock EXCEPT !.resume = FALSE]
          BY <1>2, <3>2 DEF SafetyInv, GainInv, AttemptInv, TypeOK, StopMeasurement
        <4>2. ~lock'.resume
          BY <4>1 DEF Attempts
        <4> QED
          BY <4>2 DEF RelockKeepsRunMode
      <3> QED
        BY <3>1, <3>2
    <2>4. HeldBackByAttempt'
      <3>1. state = "LOCKING" => lock # NoLock
        BY <2>1 DEF SafetyInv, GainInv, AttemptInv, LockingHasAttempt
      <3> QED
        BY <2>1, <3>1 DEF SafetyInv, Promises, HeldBackByAttempt
    <2> QED
      BY <2>1, <2>2, <2>3, <2>4
         DEF SafetyInv, Promises, StartFreqsAreResonances, Aimable, OpenLoopDriveIsManual
  <1> QED
    BY <1>1, <1>2

\* A command held back, replayed to a refusal, or the last of them replayed.
LEMMA HeldBackPromises ==
  ASSUME SafetyInv,
         \/ \E c \in Deferrable : Defer(c)
         \/ StartRefused \/ ReplayRefused \/ ReplayDone
  PROVE  Promises'
  <1>1. /\ UNCHANGED <<state, lock, lockActive, lockFreqs, loopsAimed, runCompensated>>
        /\ UNCHANGED <<parked, loop, unsure, agcActive, offered>>
    BY DEF Defer, StartRefused, ReplayRefused, ReplayDone, lockVars, runVars, hwVars
  <1>2. HeldBackByAttempt'
    <2>1. CASE \E c \in Deferrable : Defer(c)
      BY <1>1, <2>1 DEF Defer, HeldBackByAttempt
    <2>2. CASE pc = "replay" /\ pc' = "replay"
      BY <2>2 DEF HeldBackByAttempt
    <2>3. CASE pc = "get" /\ pc' = "get" /\ UNCHANGED deferred
      BY <1>1, <2>3 DEF SafetyInv, Promises, HeldBackByAttempt
    <2>4. CASE ReplayDone
      BY <2>4 DEF ReplayDone, HeldBackByAttempt
    <2> QED
      BY <2>1, <2>2, <2>3, <2>4 DEF StartRefused, ReplayRefused, Taken, AtQueue, Raised, ctlVars
  <1> QED
    BY <1>1, <1>2 DEF SafetyInv, Promises, StartFreqsAreResonances, Aimable,
                      RelockKeepsRunMode, OpenLoopDriveIsManual

\* The settings, and commands that change nothing here.
LEMMA SettingPromises ==
  ASSUME SafetyInv,
         \/ RetryRunLog
         \/ \E i \in Osc, g \in Gains : SetIntegratorGain(i, g)
         \/ \E i \in Osc, on \in BOOLEAN : SetAgcEnabled(i, on)
         \/ \E on \in BOOLEAN : \/ SetAutoRelock(on) \/ SetTempHold(on)
                                \/ SetFreqTracking(on) \/ SetMeasurementMode(on)
         \/ \E t \in Targets : SetTargetThickness(t)
         \/ \E d \in SUBSET Osc : SetLockLimits(d)
         \/ OtherCommand \/ QueueEmpty
  PROVE  Promises'
  <1>1. CASE \E i \in Osc, g \in Gains : SetIntegratorGain(i, g)
    <2>1. /\ UNCHANGED <<state, lock, lockActive, lockFreqs, loopsAimed, runCompensated>>
          /\ UNCHANGED <<parked, loop, agcActive, offered, deferred>>
          /\ (unsure => unsure') /\ pc = "get"
      BY <1>1 DEF SetIntegratorGain, SetIntGain, SetIntGainRaises, Setting, AtQueue,
                  lockVars, runVars
    <2> QED
      BY <2>1 DEF SafetyInv, Promises, StartFreqsAreResonances, Aimable, HeldBackByAttempt,
                  RelockKeepsRunMode, OpenLoopDriveIsManual
  <1>2. CASE ~\E i \in Osc, g \in Gains : SetIntegratorGain(i, g)
    <2>1. /\ UNCHANGED <<state, lock, lockActive, lockFreqs, loopsAimed, runCompensated>>
          /\ UNCHANGED <<parked, loop, unsure, agcActive, offered, deferred>>
          /\ pc = "get"
      BY <1>2 DEF RetryRunLog, SetAgcEnabled, SetAGC, SetAutoRelock, SetTempHold,
                  SetFreqTracking, SetMeasurementMode, SetTargetThickness, SetLockLimits,
                  OtherCommand, QueueEmpty, Setting, AtQueue, lockVars, runVars, hwVars,
                  loopVars, agcVars
    <2> QED
      BY <2>1, PromisesUntouched DEF SafetyInv
  <1> QED
    BY <1>1, <1>2

\* An NCO moved by hand is not open, wherever it stands.
LEMMA SetFrequencyPromises ==
  ASSUME SafetyInv, NEW i \in Osc, SetFrequency(i)
  PROVE  Promises'
  <1>1. /\ UNCHANGED <<state, lock, lockActive, lockFreqs, loopsAimed, runCompensated>>
        /\ UNCHANGED <<parked, unsure, agcActive, offered, deferred>> /\ pc = "get"
    BY DEF SetFrequency, SetFreq, Setting, AtQueue, lockVars, runVars, agcVars
  <1>2. \A j \in Osc : loop[j] # "open" => loop'[j] # "open"
    BY DEF SetFrequency, SetFreq, SafetyInv, GainInv, AttemptInv, TypeOK, HwTypeOK
  <1>3. lockActive \subseteq Osc
    BY DEF SafetyInv, GainInv, AttemptInv, TypeOK
  <1>4. Aimable'
    BY <1>1, <1>2, <1>3 DEF SafetyInv, Promises, Aimable
  <1> QED
    BY <1>1, <1>4 DEF SafetyInv, Promises, StartFreqsAreResonances, HeldBackByAttempt,
                      RelockKeepsRunMode, OpenLoopDriveIsManual

\* The acquisition cycle: a start frequency is only followed outside an
\* attempt, and the servo only runs outside one.
LEMMA CyclePromises ==
  ASSUME SafetyInv, Update \/ AdvanceLock \/ Telemetry \/ Measure \/ Relock
  PROVE  Promises'
  <1>1. CASE Update
    <2>1. /\ UNCHANGED <<state, lock, lockActive, loopsAimed, runCompensated, deferred>>
          /\ UNCHANGED <<parked, loop, unsure, agcActive>>
          /\ offered' = NoFreqs /\ pc = "update"
      BY <1>1 DEF Update, loopVars, agcVars
    <2>2. PICK d \in SUBSET Osc, due \in BOOLEAN :
            IF Tracks(due, d) THEN lockFreqs' \in HeldFreqs(d) ELSE UNCHANGED lockFreqs
      BY <1>1 DEF Update
    <2>3. CASE Tracks(due, d)
      <3>1. lockFreqs' \in StartFreqs /\ \A i \in Osc : lockFreqs'[i] # Junk
        BY <2>2, <2>3, HeldFreqsAreResonances DEF Tracks
      <3>2. lockFreqs' # NoFreqs
        BY <3>1, NoneAssumption
      <3>3. lock = NoLock
        BY <2>3 DEF Tracks, SafetyInv, GainInv, AttemptInv, LockingHasAttempt
      <3> QED
        BY <2>1, <3>1, <3>2, <3>3
           DEF SafetyInv, Promises, StartFreqsAreResonances, Aimable, HeldBackByAttempt,
               RelockKeepsRunMode, OpenLoopDriveIsManual
    <2>4. CASE ~Tracks(due, d)
      BY <2>1, <2>2, <2>4, PromisesUntouched DEF SafetyInv
    <2> QED
      BY <2>3, <2>4
  <1>2. CASE AdvanceLock
    <2>1. /\ pc = "advance" /\ state = "LOCKING" /\ lock \in Attempts
          /\ UNCHANGED <<lockActive, lockFreqs, loopsAimed, runCompensated, offered, deferred>>
      BY <1>2 DEF SafetyInv, GainInv, AttemptInv, AttemptPoints, LockingHasAttempt, TypeOK,
                  AdvanceLock
    <2>2. PICK age \in 0..Timeout :
            \/ EndLock(TRUE) \/ EndLock(FALSE)
            \/ /\ UNCHANGED <<state, parked, loop, unsure, agcActive>>
               /\ \/ lock' = [lock EXCEPT !.age = age, !.settled = age >= Settle]
                  \/ lock' = [lock EXCEPT !.age = age]
      BY <1>2 DEF AdvanceLock, hwVars, loopVars, agcVars
    <2>3. CASE EndLock(TRUE) \/ EndLock(FALSE)
      BY <2>1, <2>3, EndLockPromises
    <2>4. CASE /\ UNCHANGED <<state, parked, loop, unsure, agcActive>>
               /\ \/ lock' = [lock EXCEPT !.age = age, !.settled = age >= Settle]
                  \/ lock' = [lock EXCEPT !.age = age]
      <3>1. lock'.active = lock.active /\ lock'.resume = lock.resume /\ lock # NoLock
        BY <2>1, <2>4, AttemptIsNotNone DEF Attempts
      <3>2. RelockKeepsRunMode'
        BY <2>1, <3>1 DEF SafetyInv, Promises, RelockKeepsRunMode
      <3> QED
        BY <2>1, <2>4, <3>2
           DEF SafetyInv, Promises, StartFreqsAreResonances, Aimable, HeldBackByAttempt,
               OpenLoopDriveIsManual
    <2> QED
      BY <2>2, <2>3, <2>4
  <1>3. CASE Telemetry \/ Measure
    <2>1. /\ UNCHANGED <<state, lock, lockActive, lockFreqs, loopsAimed, runCompensated>>
          /\ UNCHANGED <<parked, loop, unsure, offered, deferred>> /\ pc = "acquire"
          /\ state \in {"CAP_ADJUST", "LOCKING"} => agcActive' = agcActive
      BY <1>3 DEF Telemetry, Measure, ServoStates, lockVars, runVars, loopVars
    <2> QED
      BY <2>1 DEF SafetyInv, Promises, StartFreqsAreResonances, Aimable, HeldBackByAttempt,
                  RelockKeepsRunMode, OpenLoopDriveIsManual
  <1>4. CASE Relock
    <2>1. pc = "relock" /\ UNCHANGED <<runCompensated, offered, deferred>>
      BY <1>4 DEF Relock
    <2>2. CASE lockFreqs # NoFreqs /\ StartLock(lockFreqs, "get")
      <3>1. lockFreqs \in StartFreqs /\ \A i \in Osc : lockFreqs[i] # Junk
        BY <2>2 DEF SafetyInv, GainInv, AttemptInv, TypeOK, Promises, StartFreqsAreResonances
      <3> QED
        BY <2>1, <2>2, <3>1, StartLockPromises
    <2>3. ASSUME NEW timer, LeaveCycle(timer)
          PROVE  Promises'
      <3>1. /\ UNCHANGED <<state, lock, lockActive, lockFreqs, loopsAimed>>
            /\ UNCHANGED <<parked, loop, unsure, agcActive>>
        BY <2>3 DEF LeaveCycle, hwVars
      <3> QED
        BY <2>1, <3>1, PromisesUntouched DEF SafetyInv
    <2> QED
      BY <1>4, <2>2, <2>3 DEF Relock
  <1> QED
    BY <1>1, <1>2, <1>3, <1>4

-----------------------------------------------------------------------------

LEMMA SafetyInit == Init => SafetyInv
  <1> SUFFICES ASSUME Init PROVE SafetyInv
    OBVIOUS
  <1>1. Promises
    BY DEF Init, HwInit, Promises, StartFreqsAreResonances, Aimable, HeldBackByAttempt,
           RelockKeepsRunMode, OpenLoopDriveIsManual
  <1> QED
    BY <1>1, GainInit DEF SafetyInv

LEMMA SafetyStep == SafetyInv /\ [Next]_vars => SafetyInv'
  <1> SUFFICES ASSUME SafetyInv, [Next]_vars PROVE SafetyInv'
    OBVIOUS
  <1>1. GainInv'
    BY GainStep DEF SafetyInv
  <1>2. ASSUME NEW f \in [Osc -> Freqs], GetLock(f)
        PROVE  Promises'
    <2>1. f \in StartFreqs /\ \A i \in Osc : f[i] # Junk
      BY WorkerAssumption DEF StartFreqs
    <2> QED
      BY <1>2, <2>1, StartLockPromises DEF GetLock
  <1>3. CASE Next
    <2>1. Promises'
      BY <1>2, <1>3, OpenLoopsPromises, RunPromises, HeldBackPromises, SettingPromises,
         SetFrequencyPromises,
         CyclePromises, AbortLockPromises DEF Next, Command, Cycle
    <2> QED
      BY <1>1, <2>1 DEF SafetyInv
  <1>4. CASE UNCHANGED vars
    <2>1. /\ UNCHANGED <<state, lock, lockActive, lockFreqs, loopsAimed, runCompensated>>
          /\ UNCHANGED <<parked, loop, unsure, agcActive, offered, deferred, pc>>
      BY <1>4 DEF vars, ctlVars, lockVars, runVars, hwVars
    <2>2. Promises'
      BY <2>1 DEF SafetyInv, Promises, StartFreqsAreResonances, Aimable, HeldBackByAttempt,
                  RelockKeepsRunMode, OpenLoopDriveIsManual
    <2> QED
      BY <1>1, <2>2 DEF SafetyInv
  <1> QED
    BY <1>3, <1>4

\* Every start frequency of a re-lock, and every one a run stop offers for the
\* crystal's profile, was typed in or read from a loop that an attempt had aimed
\* and, unless the operator has moved it by hand since, left on its resonance.
THEOREM OnlyResonancesAreFollowed == Spec => []StartFreqsAreResonances
  <1>1. SafetyInv => StartFreqsAreResonances
    BY DEF SafetyInv, Promises
  <1> QED
    BY <1>1, SafetyInit, SafetyStep, PTL DEF Spec

\* A re-lock inside a run locks the temperature mode exactly when the run is
\* compensated and has a start frequency for it, whatever is set meanwhile.
THEOREM RelocksKeepTheMode == Spec => []RelockKeepsRunMode
  <1>1. SafetyInv => RelockKeepsRunMode
    BY DEF SafetyInv, Promises
  <1> QED
    BY <1>1, SafetyInit, SafetyStep, PTL DEF Spec

\* However an attempt ends, its failures included, it replays what it has held
\* back, unless it found nothing to lock.
THEOREM EndingsReplay == Spec => []HeldBackByAttempt
  <1>1. SafetyInv => HeldBackByAttempt
    BY DEF SafetyInv, Promises
  <1> QED
    BY <1>1, SafetyInit, SafetyStep, PTL DEF Spec

\* The servo never drives through a lock attempt or a capacitor adjustment.
THEOREM DriveIsManual == Spec => []OpenLoopDriveIsManual
  <1>1. SafetyInv => OpenLoopDriveIsManual
    BY DEF SafetyInv, Promises
  <1> QED
    BY <1>1, SafetyInit, SafetyStep, PTL DEF Spec

-----------------------------------------------------------------------------
(* What a step may never do to the output. *)

\* The flag is lowered by a run's beginning and by setting the target only.
LEMMA TargetStep ==
  ASSUME AttemptInv, [Next]_vars, targetReached, ~targetReached'
  PROVE  \/ ~InRun /\ InRun'
         \/ \E t \in Targets : (t = 0 \/ t > thickness) /\ SetTargetThickness(t)
  <1>1. CASE StartMeasurement
    <2>1. lock = NoLock /\ state = "IDLE" /\ state' = "MEASURING"
      BY <1>1 DEF AttemptInv, LockingHasAttempt, StartMeasurement
    <2> QED
      BY <2>1 DEF InRun
  <1>2. ASSUME NEW t \in Targets, SetTargetThickness(t)
        PROVE  t = 0 \/ t > thickness
    <2>1. t = 0 \/ ~(t <= thickness)
      BY <1>2 DEF SetTargetThickness
    <2>2. t \in Nat /\ thickness \in Nat
      BY WorkerAssumption DEF AttemptInv, TypeOK
    <2> QED
      BY <2>1, <2>2
  <1>3. CASE Measure
    <2>1. targetReached' = targetReached \/ \E th : CheckTarget(th)
      BY <1>3 DEF Measure, targetVars
    <2> QED
      BY <2>1 DEF CheckTarget
  <1>4. CASE Command /\ ~StartMeasurement /\ ~\E t \in Targets : SetTargetThickness(t)
    BY <1>4 DEF Command, GetLock, Defer, StartCapAdjust, StopCapAdjust, Sweep, StartRefused,
       StopMeasurement, RetryRunLog, SetIntegratorGain, SetAgcEnabled, SetAutoRelock,
       SetTempHold, SetFreqTracking, SetMeasurementMode, SetLockLimits, SetFrequency,
       OtherCommand, outVars
  <1>5. CASE Cycle /\ ~Measure
    BY <1>5 DEF Cycle, QueueEmpty, Update, AdvanceLock, Telemetry, Relock, AbortLock,
       ReplayRefused, ReplayDone, outVars
  <1>6. CASE UNCHANGED vars
    BY <1>6 DEF vars, outVars
  <1> QED
    BY <1>1, <1>2, <1>3, <1>4, <1>5, <1>6 DEF Next

\* Once raised, the target flag outlives dips, lost samples and the run itself:
\* only a new run, or a target set to zero or above the film, lowers it.
THEOREM TargetFlagIsSticky == Spec => TargetFlagSurvivesDips
  <1>1. AttemptInv /\ [Next]_vars =>
          [targetReached /\ ~targetReached' =>
             \/ ~InRun /\ InRun'
             \/ \E t \in Targets : (t = 0 \/ t > thickness) /\ SetTargetThickness(t)]_vars
    BY TargetStep
  <1> QED
    BY <1>1, AttemptInit, AttemptStep, PTL DEF Spec, TargetFlagSurvivesDips
=============================================================================
