------------------------------ MODULE QcmWorker ------------------------------
(***************************************************************************)
(* The measurement worker, workers/qcm_worker.py: one thread that takes a  *)
(* command off its queue, handles it, and then runs one acquisition cycle. *)
(*                                                                         *)
(* `pc` is where that thread is: "get" at the queue, "update" at the top   *)
(* of update(), "advance" in _advance_lock, "acquire" at the readings,     *)
(* "relock" at the end of _measure, "abort" in _abort_lock, "replay" in    *)
(* _replay_deferred.  `back` is where it goes on after a lock attempt has  *)
(* ended.  An action is everything the thread does between two of these    *)
(* points.  A command that raises skips the acquisition cycle (run()       *)
(* catches it and goes round again); one raised in a replay is caught      *)
(* there.                                                                  *)
(*                                                                         *)
(* The queue is not a variable: any command may be the next one, which is  *)
(* what a queue other threads fill without limit can offer.                *)
(***************************************************************************)
EXTENDS QcmInterface, Sequences

CONSTANTS
  Freqs,        \* start frequencies a GET LOCK may name; 0 parks the mode
  Readings,     \* what a channel on resonance may read
  Junk,         \* what a channel that is not on resonance reads
  Stray,        \* what one may read whose NCO was moved by hand
  NoFreqs, NoLock,
  Settle,       \* LOCK_SETTLE and LOCK_TIMEOUT, in units of the shortest
  Timeout,      \* acquisition cycle
  Thicknesses,  \* compensated thicknesses a sample may come out at
  NoThickness,  \* a sample whose compensation failed
  Targets,      \* target thicknesses that may be set; 0 = none
  Sent,         \* the groups of setting commands that are sent
  MaxDeferred   \* bound on the commands held back by one lock attempt

ASSUME WorkerAssumption ==
  /\ {0, Stray} \intersect Readings = {}
  /\ Junk \notin Freqs \union Readings \union {Stray}
  /\ Settle \in Nat /\ Timeout \in Nat /\ Settle < Timeout
  /\ Thicknesses \subseteq Nat /\ 0 \in Thicknesses
  /\ Targets \subseteq Nat /\ 0 \in Targets
  /\ NoThickness \notin Thicknesses
  /\ MaxDeferred \in Nat

States == {"IDLE", "LOCKING", "MEASURING", "SWEEPING", "CAP_ADJUST"}
Points == {"get", "update", "advance", "acquire", "relock", "abort", "replay"}
Deferrable == {"START", "SWEEP", "CAP_ADJUST"}   \* _DEFER_WHILE_LOCKING

StartFreqs == [Osc -> Freqs \union Readings \union {Junk, Stray}]
Attempts == [active : SUBSET Osc, age : 0..Timeout, resume : BOOLEAN, settled : BOOLEAN]

ASSUME NoneAssumption == NoLock \notin Attempts /\ NoFreqs \notin StartFreqs

VARIABLES
  pc, back,
  resuming,       \* _abort_lock's resume, while it is at "abort"
  state,
  lock,           \* _lock: the attempt in flight, or NoLock
  lockActive,     \* _lock_active
  lockFreqs,      \* _lock_freqs: where the next re-lock starts, or NoFreqs
  offered,        \* the start frequencies a run stop has just offered, or NoFreqs
  loopsAimed,     \* _loops_aimed
  deferred,       \* _deferred
  locked,         \* lock_mass and lock_temp, as this cycle sampled them
  lossTimer,      \* _lock_lost_since is set
  compensated, runCompensated,
  logActive,      \* logger.active
  autoRelock, tempHold, freqTracking,
  tempHeld,       \* _temp_held
  target, targetReached,
  thickness       \* _last_thickness

ctlVars  == <<pc, back, resuming>>
lockVars == <<state, lock, lockActive, lockFreqs, loopsAimed, lossTimer>>
runVars  == <<compensated, runCompensated, logActive, offered>>
optVars  == <<autoRelock, tempHold, freqTracking>>
targetVars == <<target, targetReached, thickness>>
outVars  == <<tempHeld, target, targetReached, thickness>>
vars == <<ctlVars, lockVars, runVars, optVars, outVars, deferred, locked, hwVars>>

TypeOK ==
  /\ HwTypeOK
  /\ pc \in Points /\ back \in {"get", "update", "acquire"}
  /\ resuming \in BOOLEAN
  /\ state \in States
  /\ lock \in Attempts \union {NoLock}
  /\ lockActive \in SUBSET Osc
  /\ lockFreqs \in StartFreqs \union {NoFreqs}
  /\ offered \in StartFreqs \union {NoFreqs}
  /\ loopsAimed \in BOOLEAN
  /\ deferred \in Seq(Deferrable)
  /\ locked \in SUBSET Osc
  /\ lossTimer \in BOOLEAN
  /\ compensated \in BOOLEAN /\ runCompensated \in BOOLEAN
  /\ logActive \in BOOLEAN
  /\ autoRelock \in BOOLEAN /\ tempHold \in BOOLEAN /\ freqTracking \in BOOLEAN
  /\ tempHeld \in BOOLEAN
  /\ target \in Targets /\ targetReached \in BOOLEAN
  /\ thickness \in Thicknesses

Init ==
  /\ HwInit
  /\ pc = "get" /\ back = "get" /\ resuming = FALSE
  /\ state = "IDLE"
  /\ lock = NoLock
  /\ lockActive = Osc
  /\ lockFreqs = NoFreqs /\ offered = NoFreqs
  /\ loopsAimed = FALSE
  /\ deferred = << >>
  /\ locked = {}
  /\ lossTimer = FALSE
  /\ compensated = TRUE /\ runCompensated = TRUE
  /\ logActive = FALSE
  /\ autoRelock = TRUE /\ tempHold = TRUE /\ freqTracking = TRUE
  /\ tempHeld = FALSE
  /\ target = 0 /\ targetReached = FALSE /\ thickness = 0

-----------------------------------------------------------------------------
(* Where the thread goes next. *)

\* (`back` and `resuming` rest at "get" and FALSE when they mean nothing.)
Goto(p) == pc' = p /\ back' = "get" /\ resuming' = FALSE

AtQueue == pc = "get"

\* An exception out of a handler: no acquisition cycle follows.
Raised == UNCHANGED ctlVars

\* The end of a command's handler: on to the acquisition cycle, or to the next
\* command being replayed.
Handled == IF AtQueue THEN Goto("update") ELSE UNCHANGED ctlVars

\* A deferrable command, taken from the queue or from the ones held back.
Taken(c) ==
  \/ AtQueue /\ state # "LOCKING" /\ UNCHANGED deferred
  \/ /\ pc = "replay" /\ deferred # << >> /\ Head(deferred) = c
     /\ deferred' = Tail(deferred)

-----------------------------------------------------------------------------
(* Runs and lock attempts. *)

\* _in_run.  Between an attempt's exception and the end of _abort_lock the run
\* it belonged to is still going; no command is handled there.
InRun == state = "MEASURING" \/ (lock # NoLock /\ lock.resume)

RunGoing == InRun \/ (pc = "abort" /\ resuming)

\* Variant: the setting is followed at once, whatever the run started in.
CompensatedAsSet == compensated

CompensatedNow == IF InRun THEN runCompensated ELSE compensated

\* Variants: an attempt that leaves the state to whoever reads it next; one
\* that forgets the run it interrupted.
AfterAttemptUnset(resume) == state
AfterAttemptIdle(resume) == "IDLE"

AfterAttempt(resume) == IF resume THEN "MEASURING" ELSE "IDLE"

\* A row written to the run log may be the one that fails and closes it.
LogWritten == logActive' \in {logActive, FALSE}

\* What channel i may read: a resonance only if its loop is on one and its
\* window, among those that pass, says it is held.
Reading(i, passing) ==
  IF i \notin passing THEN {Junk}
  ELSE CASE loop[i] = "resonance" -> Readings
         [] loop[i] = "astray" -> Readings \union {Stray}
         [] loop[i] = "open" -> {Junk}

\* _held_lock_freqs: a channel the last lock did not lock keeps what it had.
HeldFreqs(passing) ==
  LET prev == IF lockFreqs = NoFreqs THEN [i \in Osc |-> 0] ELSE lockFreqs
  IN  {f \in StartFreqs :
         \A i \in Osc : f[i] \in IF i \in lockActive THEN Reading(i, passing) ELSE {prev[i]}}

\* _start_lock.  A lock attempt with nothing to lock ends where it began.
StartLock(freqs, ret) ==
  LET resume == InRun
      active == Lockable(freqs, IF CompensatedNow THEN Osc ELSE {1})
      Released ==
        /\ active # {}
        /\ BeginLock(active, {i \in active : freqs[i] \notin {Junk, Stray}})
        /\ lockActive' = active
        /\ loopsAimed' = TRUE
        /\ lock' = [active |-> active, age |-> 0, resume |-> resume, settled |-> FALSE]
        /\ state' = "LOCKING"
        /\ IF resume THEN LogWritten ELSE UNCHANGED logActive
        /\ Goto(ret)
        /\ UNCHANGED lossTimer
      NothingToLock ==
        /\ active = {}
        /\ ParkBoth
        /\ lockActive' = {}
        /\ loopsAimed' = FALSE
        /\ lock' = NoLock
        /\ lossTimer' = FALSE
        /\ state' = AfterAttempt(resume)
        /\ Goto(ret)
        /\ UNCHANGED logActive
      Raises ==
        /\ BeginLockRaises(active)
        /\ loopsAimed' = FALSE
        /\ lock' = NoLock
        /\ pc' = "abort" /\ back' = ret /\ resuming' = resume
        /\ UNCHANGED <<lockActive, state, lossTimer, logActive>>
  IN  /\ lockFreqs' = freqs
      /\ Released \/ NothingToLock \/ Raises

\* Variant: an ending that forgets the commands it held back.
EndAttemptOnly(resume, ret) ==
  /\ state' = AfterAttempt(resume)
  /\ lossTimer' = FALSE
  /\ IF resume THEN LogWritten ELSE UNCHANGED logActive
  /\ Goto(ret)

\* The attempt has ended: the held-back commands, if any, are replayed next.
EndAttempt(resume, ret) ==
  /\ state' = AfterAttempt(resume)
  /\ lossTimer' = FALSE
  /\ IF resume THEN LogWritten ELSE UNCHANGED logActive
  /\ pc' = "replay" /\ back' = ret /\ resuming' = FALSE

\* _finish_lock
EndLock(success) ==
  /\ lock' = NoLock
  /\ \/ /\ FinishLock(lock.active, success)
        /\ EndAttempt(lock.resume, "acquire")
     \/ /\ FinishLockRaises(lock.active)
        /\ pc' = "abort" /\ back' = "acquire" /\ resuming' = lock.resume
        /\ UNCHANGED <<state, lossTimer, logActive>>

\* _abort_lock.  Its own finishLock may fail too; that is only printed.
AbortLock ==
  /\ pc = "abort"
  /\ FinishLock(Osc \ parked, FALSE) \/ FinishLockRaises(Osc \ parked)
  /\ EndAttempt(resuming, back)
  /\ UNCHANGED <<lock, lockActive, lockFreqs, loopsAimed, deferred, locked,
                 compensated, runCompensated, offered, optVars, outVars>>

\* _replay_deferred: a command the state refuses raises, and is gone.
ReplayRefused ==
  /\ pc = "replay" /\ deferred # << >> /\ state # "IDLE"
  /\ deferred' = Tail(deferred)
  /\ UNCHANGED <<ctlVars, lockVars, runVars, optVars, outVars, locked, hwVars>>

ReplayDone ==
  /\ pc = "replay" /\ deferred = << >>
  /\ Goto(back)
  /\ UNCHANGED <<lockVars, runVars, optVars, outVars, deferred, locked, hwVars>>

-----------------------------------------------------------------------------
(* Control commands. *)

GetLock(freqs) ==
  /\ AtQueue
  /\ StartLock(freqs, "update")
  /\ UNCHANGED <<compensated, runCompensated, offered, optVars, outVars, deferred, locked>>

Defer(c) ==
  /\ AtQueue /\ state = "LOCKING"
  /\ Len(deferred) < MaxDeferred
  /\ deferred' = Append(deferred, c)
  /\ Handled
  /\ UNCHANGED <<lockVars, runVars, optVars, outVars, locked, hwVars>>

StartCapAdjust ==
  /\ Taken("CAP_ADJUST") /\ state = "IDLE"
  /\ loopsAimed' = FALSE
  /\ \/ OpenLoops /\ state' = "CAP_ADJUST" /\ Handled
     \/ OpenLoopsRaises /\ UNCHANGED state /\ Raised
  /\ UNCHANGED <<lock, lockActive, lockFreqs, lossTimer, runVars, optVars, outVars, locked>>

StopCapAdjust ==
  /\ AtQueue /\ state = "CAP_ADJUST"
  /\ \/ OpenLoops /\ state' = "IDLE" /\ Handled
     \/ OpenLoopsRaises /\ UNCHANGED state /\ Raised
  /\ UNCHANGED <<lock, lockActive, lockFreqs, loopsAimed, lossTimer,
                 runVars, optVars, outVars, deferred, locked>>

\* The thread is inside _run_sweep until the last point or an abort; a sweep
\* that raises never reaches the _set_state(IDLE) behind it.
Sweep ==
  /\ Taken("SWEEP") /\ state = "IDLE"
  /\ loopsAimed' = FALSE
  /\ \/ OpenLoops /\ UNCHANGED state /\ Handled
     \/ OpenLoopsRaises /\ state' = "SWEEPING" /\ Raised
  /\ UNCHANGED <<lock, lockActive, lockFreqs, lossTimer, runVars, optVars, outVars, locked>>

StartMeasurement ==
  /\ Taken("START") /\ state = "IDLE"
  /\ state' = "MEASURING"
  /\ runCompensated' = compensated
  /\ targetReached' = FALSE
  /\ tempHeld' = FALSE
  /\ logActive' \in BOOLEAN
  /\ Handled
  /\ UNCHANGED <<lock, lockActive, lockFreqs, loopsAimed, lossTimer, compensated, offered,
                 optVars, target, thickness, locked, hwVars>>

\* setMeasurementReference refuses a mass mode that reads 0 Hz.
StartRefused ==
  /\ Taken("START") /\ state = "IDLE"
  /\ loop[1] # "resonance"
  /\ Raised
  /\ UNCHANGED <<lockVars, runVars, optVars, outVars, locked, hwVars>>

RetryRunLog ==
  /\ AtQueue
  /\ state = "MEASURING" /\ ~logActive
  /\ logActive' \in BOOLEAN
  /\ Handled
  /\ UNCHANGED <<lockVars, compensated, runCompensated, offered, optVars, outVars,
                 deferred, locked, hwVars>>

StopMeasurement ==
  /\ AtQueue /\ InRun
  /\ IF state = "MEASURING" /\ loopsAimed /\ lockActive \subseteq detected
     THEN offered' \in HeldFreqs(detected)
     ELSE UNCHANGED offered
  /\ logActive' = FALSE
  /\ IF lock # NoLock
     THEN lock' = [lock EXCEPT !.resume = FALSE] /\ UNCHANGED state
     ELSE state' = "IDLE" /\ UNCHANGED lock
  /\ Handled
  /\ UNCHANGED <<lockActive, lockFreqs, loopsAimed, lossTimer, compensated, runCompensated,
                 optVars, outVars, deferred, locked, hwVars>>

-----------------------------------------------------------------------------
(* Setting commands, handled in every state. *)

Setting(group) == AtQueue /\ group \in Sent

SetIntegratorGain(i, g) ==
  /\ Setting("gain")
  /\ (SetIntGain(i, g) /\ Handled) \/ (SetIntGainRaises(i, g) /\ Raised)
  /\ UNCHANGED <<lockVars, runVars, optVars, outVars, deferred, locked>>

SetAgcEnabled(i, on) ==
  /\ Setting("agc")
  /\ SetAGC(i, on)
  /\ \/ Handled
     \/ WriteFaults /\ i \notin agcActive /\ Raised   \* the manual gain's write
  /\ UNCHANGED <<lockVars, runVars, optVars, outVars, deferred, locked>>

SetAutoRelock(on) ==
  /\ Setting("relock")
  /\ autoRelock' = on /\ lossTimer' = FALSE
  /\ Handled
  /\ UNCHANGED <<state, lock, lockActive, lockFreqs, loopsAimed, runVars,
                 tempHold, freqTracking, outVars, deferred, locked, hwVars>>

SetTempHold(on) ==
  /\ Setting("hold")
  /\ tempHold' = on
  /\ Handled
  /\ UNCHANGED <<lockVars, runVars, autoRelock, freqTracking, outVars, deferred, locked, hwVars>>

SetFreqTracking(on) ==
  /\ Setting("track")
  /\ freqTracking' = on
  /\ Handled
  /\ UNCHANGED <<lockVars, runVars, autoRelock, tempHold, outVars, deferred, locked, hwVars>>

SetMeasurementMode(comp) ==
  /\ Setting("mode")
  /\ compensated' = comp
  /\ Handled
  /\ UNCHANGED <<lockVars, runCompensated, logActive, offered, optVars, outVars,
                 deferred, locked, hwVars>>

SetTargetThickness(t) ==
  /\ Setting("target")
  /\ target' = t
  /\ targetReached' = (targetReached /\ t # 0 /\ t <= thickness)
  /\ Handled
  /\ UNCHANGED <<lockVars, runVars, optVars, tempHeld, thickness, deferred, locked, hwVars>>

SetLockLimits(d) ==
  /\ Setting("limits")
  /\ SetLockDetect(d)
  /\ Handled
  /\ UNCHANGED <<lockVars, runVars, optVars, outVars, deferred, locked, loopVars, agcVars>>

\* The NCO is moved wherever it stands, and nothing else is: _loops_aimed and
\* the phase window stay.  The write may raise, having moved it or not.
SetFrequency(i) ==
  /\ Setting("freq")
  /\ SetFreq(i)
  /\ Handled \/ (WriteFaults /\ Raised)
  /\ UNCHANGED <<lockVars, runVars, optVars, outVars, deferred, locked>>

\* Everything else a handler does leaves this state alone: the LPF, inversion,
\* output, sensor and storage settings, and a command the state
\* refuses, which raises.
OtherCommand ==
  /\ AtQueue
  /\ Handled \/ UNCHANGED ctlVars
  /\ UNCHANGED <<lockVars, runVars, optVars, outVars, deferred, locked, hwVars>>

\* queue.Empty after 0.1 s
QueueEmpty ==
  /\ AtQueue
  /\ Goto("update")
  /\ UNCHANGED <<lockVars, runVars, optVars, outVars, deferred, locked, hwVars>>

-----------------------------------------------------------------------------
(* The acquisition cycle. *)

\* Variant: the lock test alone decides, without _loops_aimed.
TracksAnyLock(due, lockedOscs) ==
  /\ due /\ freqTracking
  /\ state \in {"MEASURING", "IDLE"}
  /\ lockActive # {} /\ lockActive \subseteq lockedOscs

\* _track_lock_freqs, `due` when the tracking interval has passed.
Tracks(due, lockedOscs) ==
  /\ due /\ freqTracking /\ loopsAimed
  /\ state \in {"MEASURING", "IDLE"}
  /\ lockActive # {} /\ lockActive \subseteq lockedOscs

\* The top of update(): sample both windows, then follow the lock.
Update ==
  /\ pc = "update"
  /\ \E d \in SUBSET Osc, due \in BOOLEAN :
       /\ SampleLock(d)
       /\ locked' = d
       /\ IF Tracks(due, d) THEN lockFreqs' \in HeldFreqs(d) ELSE UNCHANGED lockFreqs
  /\ offered' = NoFreqs
  /\ Goto(IF state = "LOCKING" THEN "advance" ELSE "acquire")
  /\ UNCHANGED <<state, lock, lockActive, loopsAimed, lossTimer, compensated, runCompensated,
                 logActive, optVars, outVars, deferred, loopVars, agcVars>>

\* Variant: the attempt waits for a lock for as long as it takes.
NeverTimedOut(age) == FALSE

TimedOut(age) == age >= Timeout

\* _advance_lock: at least one unit of time has passed, or any number of them
\* (a slow cycle; time.time() stepping forward).
AdvanceLock ==
  /\ pc = "advance"
  /\ \E age \in 0..Timeout :
       /\ age > lock.age \/ age = Timeout
       /\ \/ /\ ~lock.settled
             /\ lock' = [lock EXCEPT !.age = age, !.settled = age >= Settle]
             /\ IF age >= Settle THEN ResetLockStats ELSE UNCHANGED windowVars
             /\ Goto("acquire")
             /\ UNCHANGED <<state, lossTimer, logActive, loopVars, agcVars>>
          \/ /\ lock.settled
             /\ \/ /\ WindowFull /\ lock.active \subseteq detected
                   /\ EndLock(TRUE)
                \/ /\ ~(WindowFull /\ lock.active \subseteq detected)
                   /\ IF TimedOut(age)
                      THEN EndLock(FALSE)
                      ELSE /\ lock' = [lock EXCEPT !.age = age]
                           /\ Goto("acquire")
                           /\ UNCHANGED <<state, lossTimer, logActive, hwVars>>
  /\ UNCHANGED <<lockActive, lockFreqs, loopsAimed, compensated, runCompensated, offered,
                 optVars, outVars, deferred, locked>>

\* Variant: the servo keeps running while the loops are re-acquired.
ServoStatesLocking == {"MEASURING", "IDLE", "LOCKING"}

\* The states the drive servo runs in.
ServoStates == {"MEASURING", "IDLE"}

\* Not measuring: telemetry, and the drive servo while idle.
Telemetry ==
  /\ pc = "acquire" /\ state # "MEASURING"
  /\ IF state \in ServoStates
     THEN agcActive' = Servoed(locked) \/ ServoRaises(locked)
     ELSE UNCHANGED agcActive
  /\ locked' = {}
  /\ Goto("get")
  /\ UNCHANGED <<lockVars, runVars, optVars, outVars, deferred, loopVars, agcEnabled, windowVars>>

\* Whether the sample carries the last solved temperature instead of solving;
\* `trusted` is isPhaseTrusted(2), the newest sample alone.
HoldTemp(trusted) == runCompensated /\ tempHold /\ ~(2 \in locked /\ trusted)

\* Variant: the flag follows the thickness, dips included.
CheckTargetLive(th) ==
  /\ thickness' = IF th = NoThickness THEN thickness ELSE th
  /\ targetReached' = (th # NoThickness /\ target > 0 /\ th >= target)
  /\ UNCHANGED target

\* _check_target: only the upward crossing counts.
CheckTarget(th) ==
  /\ thickness' = IF th = NoThickness THEN thickness ELSE th
  /\ targetReached' = (targetReached \/ (th # NoThickness /\ target > 0 /\ th >= target))
  /\ UNCHANGED target

\* _measure up to the capture windows.  A register write that raises (the
\* mock signal's, then the drive's) ends the cycle there.
Measure ==
  /\ pc = "acquire" /\ state = "MEASURING"
  /\ \E trusted \in BOOLEAN, th \in Thicknesses \union {NoThickness} :
       /\ trusted => 2 \notin parked /\ fill > 0
       /\ \/ /\ LogWritten
             /\ tempHeld' = IF runCompensated THEN HoldTemp(trusted) ELSE tempHeld
             /\ \/ /\ agcActive' = Servoed(locked)
                   /\ CheckTarget(th)
                   /\ Goto("relock")
                   /\ UNCHANGED locked
                \/ /\ ServoRaises(locked)
                   /\ UNCHANGED targetVars
                   /\ Goto("get") /\ locked' = {}
          \/ /\ WriteFaults
             /\ UNCHANGED <<logActive, tempHeld, agcActive, targetVars>>
             /\ Goto("get") /\ locked' = {}
  /\ UNCHANGED <<lockVars, compensated, runCompensated, offered, optVars,
                 deferred, loopVars, agcEnabled, windowVars>>

\* The end of _measure.  A mass mode that should be locked and stays lost for
\* AUTO_RELOCK_AFTER is re-locked; a lost temperature mode is left alone.
MassLost == 1 \notin locked /\ 1 \in lockActive

LeaveCycle(timer) ==
  /\ lossTimer' = timer
  /\ Goto("get")
  /\ UNCHANGED <<state, lock, lockActive, lockFreqs, loopsAimed, logActive, hwVars>>

Relock ==
  /\ pc = "relock"
  /\ \/ ~MassLost /\ LeaveCycle(FALSE)
     \/ MassLost /\ autoRelock /\ lockFreqs # NoFreqs /\ LeaveCycle(TRUE)
     \/ /\ MassLost /\ autoRelock /\ lockFreqs # NoFreqs /\ lossTimer
        /\ StartLock(lockFreqs, "get")
     \/ MassLost /\ ~(autoRelock /\ lockFreqs # NoFreqs) /\ LeaveCycle(lossTimer)
     \/ WriteFaults /\ LeaveCycle(lossTimer)   \* moveWindow raised
  /\ locked' = {}
  /\ UNCHANGED <<compensated, runCompensated, offered, optVars, outVars, deferred>>

-----------------------------------------------------------------------------

Command ==
  \/ \E f \in [Osc -> Freqs] : GetLock(f)
  \/ \E c \in Deferrable : Defer(c)
  \/ StartCapAdjust \/ StopCapAdjust \/ Sweep
  \/ StartMeasurement \/ StartRefused \/ StopMeasurement \/ RetryRunLog
  \/ \E i \in Osc, g \in Gains : SetIntegratorGain(i, g)
  \/ \E i \in Osc, on \in BOOLEAN : SetAgcEnabled(i, on)
  \/ \E on \in BOOLEAN : \/ SetAutoRelock(on) \/ SetTempHold(on)
                         \/ SetFreqTracking(on) \/ SetMeasurementMode(on)
  \/ \E t \in Targets : SetTargetThickness(t)
  \/ \E d \in SUBSET Osc : SetLockLimits(d)
  \/ \E i \in Osc : SetFrequency(i)
  \/ OtherCommand

Cycle ==
  \/ QueueEmpty
  \/ Update \/ AdvanceLock \/ Telemetry \/ Measure \/ Relock
  \/ AbortLock \/ ReplayRefused \/ ReplayDone

Next == Command \/ Cycle

Spec == Init /\ [][Next]_vars

\* The thread always gets on with the cycle it is in, and the queue is empty
\* now and then: commands come from an operator and a PLC, the loop turns at
\* 10 Hz.  Nobody has to send anything.
Fairness == WF_vars(QueueEmpty) /\ WF_vars(pc # "get" /\ Next)

FairSpec == Spec /\ Fairness

-----------------------------------------------------------------------------
(* What the worker must guarantee.                                          *)

\* A lock attempt is in flight exactly in LOCKING, the moment _abort_lock
\* takes to leave it apart: no path ends an attempt and stays in LOCKING,
\* where START, sweeps and the capacitor adjustment are refused.  (It is why
\* _advance_lock's branch for LOCKING with no attempt is not an action.)
LockingHasAttempt ==
  /\ lock # NoLock => state = "LOCKING"
  /\ state = "LOCKING" => lock # NoLock \/ pc = "abort"

\* While an attempt runs its channels keep the acquisition gain, whatever
\* gains are set meanwhile, and the others stay parked; once it is over, and
\* until something opens the loops, every channel it locked has the gain
\* configured last and every parked one still has its integrator off.
IntegratorsFollowAttempt ==
  /\ acquiring <=> lock # NoLock \/ (pc = "abort" /\ ~loopsAimed)
  /\ lock # NoLock => parked = Osc \ lock.active /\ lockActive = lock.active
  /\ ~unsure /\ lock # NoLock => integ = LockGains(lock.active)
  /\ ~unsure /\ loopsAimed /\ lock = NoLock =>
       \A i \in Osc : integ[i] = IF i \in lockActive THEN intGain[i] ELSE Off

\* The frequencies a re-lock will start from, and those a run stop offers for
\* the crystal profile, are typed in or were read from a loop that a lock
\* attempt aimed: nothing read at power-up, after a sweep or a capacitor
\* adjustment, or from a parked mode ever gets there.  A frequency set by hand
\* (SetFrequencyCommand) after the attempt does, quiet phase or not: that
\* reading is Stray, and the only one.
StartFreqsAreResonances ==
  /\ lockFreqs # NoFreqs => \A i \in Osc : lockFreqs[i] # Junk
  /\ offered # NoFreqs => \A i \in Osc : offered[i] # Junk

\* A re-lock inside a run keeps the run's measurement mode: an uncompensated
\* run never has its temperature mode locked under it, nor a compensated one
\* its temperature mode parked while it has a start frequency.
RelockKeepsRunMode ==
  lock # NoLock /\ lock.resume =>
    (2 \in lock.active <=> runCompensated /\ ~IsParkedFreq(lockFreqs[2]))

\* Commands are held back only while an attempt runs, or by an attempt that
\* found both modes parked: every other way an attempt ends, its failures
\* included, replays them.
HeldBackByAttempt ==
  deferred # << >> => state = "LOCKING" \/ pc \in {"abort", "replay"} \/ parked = Osc

\* The drive stands at its manual value through a capacitor adjustment and a
\* lock attempt, however long they last and whatever the AGC settings do.
OpenLoopDriveIsManual ==
  ~unsure /\ state \in {"CAP_ADJUST", "LOCKING"} => agcActive = {}

\* Once raised, the target flag is lowered only by a new run, or by the
\* operator setting a target of zero or one above the thickness last measured
\* (the same one again, if the film has dipped below it): never by a dip as
\* such, a lost sample, a lock lost and regained, or the run ending.
TargetFlagSurvivesDips ==
  [][targetReached /\ ~targetReached' =>
       \/ ~InRun /\ InRun'
       \/ \E t \in Targets : (t = 0 \/ t > thickness) /\ SetTargetThickness(t)]_vars

\* The worker implements the run lifecycle everything downstream relies on.
Lifecycle == INSTANCE RunLifecycle WITH phase <- state, run <- RunGoing, log <- logActive

RunLifecycleHolds == Lifecycle!Spec

\* A lock attempt ends, unless the operator goes on starting it over for ever.
AttemptEnds ==
  \/ []<><<\E f \in [Osc -> Freqs] : GetLock(f)>>_vars
  \/ state = "LOCKING" ~> state # "LOCKING"
=============================================================================
