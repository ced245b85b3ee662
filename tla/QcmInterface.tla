---------------------------- MODULE QcmInterface ----------------------------
(***************************************************************************)
(* The loop hardware as domain/qcm_interface.py drives it: which of the    *)
(* two oscillators are parked, what their integrator registers hold, who   *)
(* sets the excitation drive, and the rolling phase window lock detection  *)
(* is judged from.  One operator per method the worker calls; QcmWorker    *)
(* composes them into its handlers.                                        *)
(*                                                                         *)
(* Frequencies are data: only what a reading is worth is kept, through     *)
(* `loop`: whether a lock attempt has released the oscillator's loop next  *)
(* to a resonance and nothing has opened it since, or whether its NCO has  *)
(* been moved away from there by hand.  A register write may raise         *)
(* (write_register reads back and compares); the writes before it stand,   *)
(* and `unsure` records that an integrator or drive register may not hold  *)
(* what was last asked of it.                                              *)
(***************************************************************************)
EXTENDS Integers, FiniteSets

CONSTANTS
  Gains,       \* configured (post-lock) integrator gains
  Window,      \* LOCK_WINDOW, samples in the phase window
  MinSamples,  \* LOCK_MIN_SAMPLES, fewer than this says nothing
  WriteFaults  \* whether register writes may fail

ASSUME WindowAssumption ==
  /\ Window \in Nat
  /\ MinSamples \in 1..Window
ASSUME FaultsAssumption == WriteFaults \in BOOLEAN
ASSUME GainsAssumption == Gains # {} /\ Gains \cap {"off", "pre"} = {}

Osc  == {1, 2}                  \* 1 = mass mode, 2 = temperature mode
Off  == "off"                   \* integrator at 0: the NCO stays where it is
Pre  == "pre"                   \* INT_GAIN_PRE_LOCK, the acquisition gain
IntegVals == Gains \union {Off, Pre}

\* "resonance": released beside one; "astray": released, or moved by hand, to
\* where no resonance need be.
Loops == {"open", "resonance", "astray"}
AllOpen == [i \in Osc |-> "open"]

VARIABLES
  parked,      \* _parked: parked, not locked, by the last lock attempt
  acquiring,   \* _acquiring: between beginLock and finishLock
  integ,       \* the integral_i registers
  intGain,     \* _int_gain: the configured gain, cached
  loop,        \* what each loop has been left on
  unsure,      \* such a register write failed since all were last written
  agcEnabled,  \* _agc_enabled
  agcActive,   \* _agc_active: the servo, not the manual value, set the drive
  fill,        \* samples in the phase windows (both are fed and cleared together)
  detected     \* channels getLockDetect reports locked

loopVars == <<parked, acquiring, integ, intGain, loop, unsure>>
agcVars  == <<agcEnabled, agcActive>>
windowVars == <<fill, detected>>
hwVars   == <<parked, acquiring, integ, intGain, loop, unsure,
              agcEnabled, agcActive, fill, detected>>

HwTypeOK ==
  /\ parked \in SUBSET Osc
  /\ acquiring \in BOOLEAN
  /\ integ \in [Osc -> IntegVals]
  /\ intGain \in [Osc -> Gains]
  /\ loop \in [Osc -> Loops]
  /\ unsure \in BOOLEAN
  /\ agcEnabled \in SUBSET Osc
  /\ agcActive \in SUBSET Osc
  /\ fill \in 0..Window
  /\ detected \in SUBSET Osc

\* Power-up: registers as the bitstream leaves them, loops open, drive manual.
HwInit ==
  /\ parked = {}
  /\ acquiring = FALSE
  /\ integ = [i \in Osc |-> Off]
  /\ intGain \in {[i \in Osc |-> g] : g \in Gains}
  /\ loop = AllOpen
  /\ unsure = FALSE
  /\ agcEnabled = {}
  /\ agcActive = {}
  /\ fill = 0
  /\ detected = {}

-----------------------------------------------------------------------------
(* Lock detection. *)

\* The sets of channels getLockDetect may report on windows of n samples.
Verdicts(n) == IF n < MinSamples THEN {{}} ELSE SUBSET (Osc \ parked)

\* isLockWindowFull
WindowFull == fill >= Window

\* Variant: the window is a list rather than a bounded deque.
NextFillUnbounded == fill + 1

NextFill == IF fill < Window THEN fill + 1 ELSE fill

\* One sample into each window, after which the channels d are detected.
SampleLock(d) ==
  /\ d \in Verdicts(NextFill)
  /\ fill' = NextFill
  /\ detected' = d

\* setLockDetect: new limits judge the samples already there.
SetLockDetect(d) ==
  /\ d \in Verdicts(fill)
  /\ detected' = d
  /\ UNCHANGED fill

ResetLockStats ==
  /\ fill' = 0
  /\ detected' = {}

-----------------------------------------------------------------------------
(* Register sequences.  Written(v) is every way the integrator registers can *)
(* be left when the writes towards v, channel 1 before channel 2, stop at a  *)
(* failed one.                                                               *)

Written(v) ==
  {f \in [Osc -> IntegVals] :
     \E k \in Osc : /\ \A i \in Osc : i < k => f[i] = v[i]
                    /\ f[k] \in {integ[k], v[k]}
                    /\ \A i \in Osc : i > k => f[i] = integ[i]}

LockGains(active) == [i \in Osc |-> IF i \in active THEN Pre ELSE Off]

\* finishLock hands the locked channels, and only those, their configured gain.
FinishGains(active) ==
  [i \in Osc |-> IF i \in active THEN intGain[i] ELSE integ[i]]

OpenGains == [i \in Osc |-> Off]

\* is_parked: 0 Hz (and anything below the capture window) is not a resonance.
IsParkedFreq(f) == f = 0

\* The channels beginLock releases, of those asked for.
Lockable(freqs, oscs) == {i \in oscs : ~IsParkedFreq(freqs[i])}

\* beginLock; `near` are the channels aimed beside a resonance.
BeginLock(active, near) ==
  /\ parked' = Osc \ active
  /\ acquiring' = TRUE
  /\ integ' = LockGains(active)
  /\ agcActive' = {}
  /\ loop' = [i \in Osc |-> IF i \notin active THEN "open" ELSE
                           IF i \in near THEN "resonance" ELSE "astray"]
  /\ unsure' = FALSE
  /\ ResetLockStats
  /\ UNCHANGED <<intGain, agcEnabled>>

\* beginLock with nothing to lock, and the finishLock that follows at once.
ParkBoth ==
  /\ parked' = Osc
  /\ acquiring' = FALSE
  /\ integ' = LockGains({})
  /\ agcActive' = {}
  /\ loop' = AllOpen
  /\ unsure' = FALSE
  /\ ResetLockStats
  /\ UNCHANGED <<intGain, agcEnabled>>

\* beginLock stopped by a failed write: the bookkeeping is done, the rest is not.
BeginLockRaises(active) ==
  /\ WriteFaults
  /\ parked' = Osc \ active
  /\ acquiring' = TRUE
  /\ integ' \in Written(LockGains(active))
  /\ agcActive' \in SUBSET agcActive
  /\ loop' = AllOpen
  /\ unsure' = TRUE
  /\ detected' = detected \intersect active
  /\ UNCHANGED <<intGain, agcEnabled, fill>>

FinishLock(active, success) ==
  /\ acquiring' = FALSE
  /\ integ' = FinishGains(active)
  /\ IF success THEN UNCHANGED windowVars ELSE ResetLockStats
  /\ UNCHANGED <<parked, intGain, loop, unsure, agcEnabled, agcActive>>

FinishLockRaises(active) ==
  /\ WriteFaults
  /\ active # {}
  /\ acquiring' = FALSE
  /\ integ' \in Written(FinishGains(active))
  /\ unsure' = TRUE
  /\ UNCHANGED <<parked, intGain, loop, agcEnabled, agcActive, fill, detected>>

\* standby(1); standby(2) -- also what startCapAdjust does to this state: both
\* integrators off, windows cleared, drive back to the manual value.
OpenLoops ==
  /\ integ' = OpenGains
  /\ loop' = AllOpen
  /\ agcActive' = {}
  /\ ResetLockStats
  /\ UNCHANGED <<parked, acquiring, intGain, unsure, agcEnabled>>

OpenLoopsRaises ==
  /\ WriteFaults
  /\ integ' \in Written(OpenGains)
  /\ loop' = AllOpen
  /\ agcActive' \in SUBSET agcActive
  /\ unsure' = TRUE
  /\ \/ ResetLockStats
     \/ UNCHANGED windowVars
  /\ UNCHANGED <<parked, acquiring, intGain, agcEnabled>>

-----------------------------------------------------------------------------
(* Settings. *)

\* setFreq from outside a lock attempt: the NCO of a released loop is moved, and
\* whether the loop stays on its resonance is anyone's guess.  The phase window
\* keeps its samples.
SetFreq(i) ==
  /\ loop' = IF loop[i] = "open" THEN loop ELSE [loop EXCEPT ![i] = "astray"]
  /\ UNCHANGED <<parked, acquiring, integ, intGain, unsure, agcVars, windowVars>>

\* Variant: a gain set during a lock attempt is written as well.
GainWritesMidAttempt(i) == i \notin parked

\* setOscConfig(int_gain): cached always, written unless the channel is parked
\* or a lock attempt owns the integrators.
GainWrites(i) == ~acquiring /\ i \notin parked

SetIntGain(i, g) ==
  /\ intGain' = [intGain EXCEPT ![i] = g]
  /\ integ' = IF GainWrites(i) THEN [integ EXCEPT ![i] = g] ELSE integ
  /\ UNCHANGED <<parked, acquiring, loop, unsure, agcEnabled, agcActive, fill, detected>>

SetIntGainRaises(i, g) ==
  /\ WriteFaults
  /\ GainWrites(i)
  /\ intGain' = [intGain EXCEPT ![i] = g]
  /\ integ' \in {integ, [integ EXCEPT ![i] = g]}
  /\ unsure' = TRUE
  /\ UNCHANGED <<parked, acquiring, loop, agcEnabled, agcActive, fill, detected>>

\* setAGC: a channel the servo is driving keeps the gain it has arrived at.
SetAGC(i, enabled) ==
  /\ agcEnabled' = IF enabled THEN agcEnabled \union {i} ELSE agcEnabled \ {i}
  /\ UNCHANGED <<loopVars, agcActive, windowVars>>

\* updateAGC on both channels: the servo takes the enabled, locked ones and
\* hands every other back to the manual value.
Servoed(lockedOscs) == agcEnabled \intersect lockedOscs

\* The same, stopped at channel k: a drive handed back is so before its gain is
\* written, one taken over only after.
ServoRaises(lockedOscs) ==
  /\ WriteFaults
  /\ \E k \in Osc :
       agcActive' = (agcActive \union {i \in Servoed(lockedOscs) : i < k})
                      \ {i \in Osc \ Servoed(lockedOscs) : i <= k}
=============================================================================
