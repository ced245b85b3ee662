# QCM Red Pitaya: a verification project

The repository drives a quartz crystal microbalance from a Red Pitaya: two
phase-locked oscillators in an FPGA follow a mass mode and a temperature mode of
the crystal, a Python program turns them into a film thickness, records it,
serves it to a browser and offers it to a PLC. This directory holds TLA+ modules
of that program, the TLC configurations that check them, and theorems with
proofs for TLAPS. All paths below are relative to `src/src/` of the repository
unless they start with `src/`.

Run things from this directory:

    tlc -workers 2 -config QcmWorker_lock.cfg MCQcmWorker    # model-check
    tlapm QcmWorkerProofs.tla                                # check proofs

## 1. The system

### Threads and queues

    browser -> REST/WebSocket server --commands--> Application --> QCM worker --> FPGA
       ^          (asyncio loop +      <--events---  (router)  <--   |  |
       |           request threads)                     ^            |  run log (CSV)
    settings.json, crystal profiles,                    |            |  sweep log (CSV)
    calibration points                     OPC UA worker, temperature worker

Five threads are started by `main.py`: the QCM worker, the temperature worker,
the Application (router), the OPC UA worker and the server; request handlers of
the server run on a thread pool, the event broadcaster on its event loop. Every
queue is an unbounded `queue.Queue`. The router takes events and commands in
order and drops none; it renames states and copies every event to the server and
to the OPC bridge.

### Components, their state and what makes them correct

| Component | State | Operations | Correct when |
|---|---|---|---|
| QCM worker (`workers/qcm_worker.py`) | worker state, lock attempt in flight, held-back commands, start frequencies, run mode, target flag, option switches | command handlers, one acquisition cycle, lock attempts and their ends, automatic re-lock | no path strands it in LOCKING; re-locks keep the run and its mode; only resonances become start frequencies; commands held back come back |
| Loop hardware (`domain/qcm_interface.py`, `fpga_interface.py`) | parked channels, integrator registers and their configured values, drive owner, phase windows | beginLock, finishLock, standby, setOscConfig, updateAGC | integrators match what is going on in every interleaving of settings and attempts |
| Run logger (`domain/run_logger.py`) | open part, run name, files on the card, reclaim switches | start, rows, roll-over, reclaim, stop | what is being recorded is never deleted or overwritten; failures are reported |
| Server (`api/server.py`) | last state, current run, recording flag, session thickness, settings, start frequencies, WebSocket clients | broadcaster, some forty handlers, settings and profiles on disk | its view comes to agree with the worker's; stored and applied settings agree; a crash leaves a loadable file |
| Router (`app/application.py`) | none of its own | translate and forward | order kept, nothing lost |
| Crystal profiles (`domain/crystal.py`) | one JSON file each | load, save in place, delete | a total is credited once; no torn or lost update |
| Calibration recorder (`domain/calibration_recorder.py`) | points, recent samples, plateau state | tick, delete, settings | a plateau gives one point; ids stay unique |
| OPC UA worker and client (`plc/`) | connection, subscription, last values written | connect, reconnect, CTRL edges, publish | a PLC edge is one command; values are right after a reconnect |
| Temperature worker (`workers/temperature_worker.py`, `domain/temperature_sensors.py`, `domain/ltc2986.py`) | sensors open or not, when to try again; in the chip, what it was programmed with | once a second: check, program, convert, read, publish; give up, try again | no reading of an unprogrammed chip is taken for a temperature; a board that comes back reads again; nothing is left open |
| LEDs, sweep log, start-up | outputs, one file, wiring | -- | -- |

Everything else (`static/index.html`, `src/tools`, the FPGA design, vendored
drivers, CAD, recorded data) is outside the control logic and not modelled.

### What is hard here

- A lock attempt runs *alongside* the acquisition. Commands, settings, stops and
  new GET LOCKs arrive in the middle of it; register writes may raise at any
  point of starting, ending or aborting it.
- Lock detection only says that the phase is quiet. It also passes on a loop
  that is not on any resonance; `_loops_aimed` is what tells the two apart.
- The lock flag is judged over a window and trails a loss by several samples.
- The server acts on a view of the worker that is two queues old, from threads
  that interleave with the broadcaster.
- The run log must survive a full card, its own roll-over, a clock that steps
  and a power cut, and must say when it has not.
- Settings reach the worker through a queue it does not always read (sweeps),
  and the disk through writers that may interleave or be cut off.
- The temperature chip forgets what it was programmed with whenever its board
  loses power, and answers afterwards as if nothing had happened.

`PROJECT.json` lists these as hazards, each at its line, with the properties
that cover them or a note on why none does.

## 2. Modules

| Module | What it is |
|---|---|
| `QcmInterface` | the loop hardware as operators, one per method the worker calls |
| `QcmWorker` | the worker thread, built on it |
| `RunLifecycle` | abstract: what everything downstream of the worker's state events may rely on |
| `RunLogger` | the run log, the card, deletion of runs, restarts |
| `RunTracking` | the server's knowledge of runs, on top of `RunLifecycle` |
| `OpcBridge` | the bridge to the PLC: its loop, its connection, the switch and address changed under it |
| `CalibrationRecorder` | the settle detector and the points it takes, with its file |
| `DurableSettings` | abstract: what storing the settings is for |
| `SettingsStore` | the settings and crystal profiles in the server's memory, in their files and as the worker was told of them |
| `TemperatureWorker` | the temperature worker, its chip and what may happen to it |
| `MCQcmWorker`, `MCCalibrationRecorder` | what TLC adds to `QcmWorker` (a symmetry set), and the readings of `CalibrationRecorder` |
| `QcmWorkerProofs`, `QcmSafetyProofs`, `RunLoggerProofs`, `RunTrackingProofs`, `OpcBridgeProofs`, `CalibrationRecorderProofs`, `SettingsStoreProofs`, `TemperatureWorkerProofs` | theorems and proofs, section 5 |

Definitions whose comment starts with *Variant* are plausible mistakes in the
definition next to them. No specification uses them: each shows, put in the
other's place, that a property would notice.

### QcmInterface and QcmWorker

The worker is one thread. `pc` is where it is between two points at which
something else may be observed or may fail: at the queue (`get`), at the top of
`update()`, in `_advance_lock`, at the readings (`acquire`), at the end of
`_measure` (`relock`), in `_abort_lock` and in `_replay_deferred`. An action is
everything the thread does from one of these to the next, so a handler with its
trailing calls is one action unless one of those calls can be entered from
several places.

- *Commands*: any command may be the next one; that is what an unbounded queue
  filled by others can offer. An exception out of a handler (`Raised`) skips the
  cycle, as `run()` catches it and goes round; one out of a replayed command is
  caught in `_replay_deferred`.
- *Lock attempts*: `StartLock` has the three ways `_start_lock` ends (released,
  nothing to lock, raised), `EndLock` the two of `_finish_lock`, `AbortLock` is
  `_abort_lock`, whose own `finishLock` may fail again.
- *Register writes*: `write_register` reads back and raises on a mismatch. With
  `WriteFaults`, a sequence of writes may stop at any point and leave the ones
  before it standing (`Written`); `unsure` then records that a loop register may
  not hold what was last asked of it, and claims about registers are made while
  it is FALSE.
- *Time* is counted in acquisition cycles, of which any number may pass at once
  (`AdvanceLock`): a slow cycle, or `time.time()` stepping forward. A clock that
  steps *back* prolongs an attempt and is not modelled.
- *Frequencies* are data. A start frequency is typed in, read from a loop that
  is on resonance, `Stray` or `Junk`. `loop` is the environment's half: open,
  released next to a resonance, or astray, that is released where there is none,
  or moved from where it was by a frequency set by hand (`SetFrequency`). What a
  channel reads depends on it (`Reading`): a quiet phase on an open loop is
  `Junk`, one on a loop that is astray may be `Stray`. What the code can see is
  only the phase window, which a frequency set by hand does not clear.
- *Phase statistics, the servo's law and the compensation* are numerics: which
  windows pass, whether the servo moves, whether a solve succeeds and whether
  the newest sample is trusted are nondeterministic, within the guards the code
  tests (window filled, parked, minimum samples).

Deliberate simplifications: the AGC's target amplitude is positive and the gain
registers are present (other builds never start the servo); register *reads* do
not raise; after a failed `beginLock` or `standby` the set of servoed channels is
any the sequence of writes could leave, and a little more.

### RunLogger

All of the logger runs on the worker thread, so a method is atomic; what is not
predictable is which of its file operations fail and how full the card is. A
method is therefore an operator from the log's state to the *set* of states it
can leave it in, composed as the code composes the calls: `Start` after
`EnsureSpace`, `RollOver` of a failed `PART_END` row, a reclaim whose own row
fails. `handle` and `path` are kept apart because the code assigns `_file`
before the header is written and `path` after it. A reclaim passes over a file
that cannot be read or removed, and goes on with the next (`Skipped`); a name is
taken unchecked when the directory cannot be listed (`NameRun`).

`told` is the last thing said of the recording, `news` what of it the server has
yet to take (`Hear`), and `view` what the server goes by. A deletion is let
through by the view (`DeleteRun`), and removes the files it has listed one at a
time (`RemovePart`), with the worker going on in between. Four fields are the
model's own and say how things came about: `named`, how the run got its name;
`overwrote`, that a part was opened over a file; `spared`, the parts that could
not be deleted when it was their turn; `behind`, that a report of the run was on
its way when its deletion was let through. Nothing but the properties reads
them.

Simplifications: the order of *other* runs is arbitrary, since it follows mtimes
and the clock steps; when the roll-over is due is up to the environment; a
report that repeats the last one is left out; one deletion is under way at a
time.

### RunTracking

The worker here is `RunLifecycle` -- which `QcmWorker` is shown to implement --
with the events each of its steps sends, in the order it sends them. The two
queues and the router between worker and server keep order and drop nothing and
are one sequence. `Broadcast` takes one event, exactly as the broadcaster's loop
does between two awaits. A deletion is two steps of a request thread, the check
and the removal, as the code holds no lock between them. A roll-over whose
`PART_END` row fails sends a failure and then a start of the same run, in one
step of the worker and two of the server. An active crystal whose profile can be
loaded is assumed. The logger's reports are taken at their word; section 4 says
when they should not be.

### OpcBridge

`pc` is the worker's loop (`run`, `_apply_enabled`) between two points at which
it waits for the network or reads something a request thread writes; the switch
is read three times in `_apply_enabled`, once more by the loop, and again for
each status. `Call` is a write or read over the connection: it goes through, or
the link is dead and the client drops it, or the namespace is not resolved and
nothing is sent. `SetConnection` and `HungUp` are the two ends of
`set_connection`, whose `disconnect()` clears the client when it is *done*.
`subs` counts the subscriptions alive over the client's connection; `orphans`
says whether one is alive over a connection the client was made to forget.
`Setup` may delete the subscription there was or not, since what `delete()`
raises is swallowed, and make a new one or not, and may fail after it was made:
that one is alive, and polling goes on beside it. `answered` counts the commands
one raising of a control node has led to, and `plcTarget` is what the last
measurement written said. Two variables are the model's own: `hasty`, the switch
was flipped back before the worker had seen it flipped, and `half`, a call that
sets up or deletes a subscription failed half way. They are set by what happens
and keep nothing from happening.

Simplifications: StartMeasurement stands for the three control nodes, which are
handled alike; the library reports a node when it is subscribed to and at each
change (a subscription interval can merge a pulse, which only loses commands);
credentials, node ids and payloads are data.

### CalibrationRecorder

Every public method holds the recorder's one lock and is one action; `Look` is
an evaluation and no more, which the code makes for a status, a tick without a
point and a capture it refuses. Times are kept as ages (`_steady_since`,
`_left_at`, `_last_end` become `steadyFor`, `leftFor`, `lastAge`), capped where
the code no longer tells them apart; the readings of the last `HISTORY_S` are
functions of their age, the points a set of records with their ids. A second's
average, `Second`, comes before any number of evaluations. Departure, window and
mean are the code's own computations on integers, the drift without its
division. `UpdateSettings` changes the thermometer, automatic capture and the
criteria -- window, readings needed in it, drift limit, hold time -- at any
time, as the page does; `_evaluate` always goes by those in force.

Simplifications: the drift of the last third of the window and that of the
sensor are one choice (`calm`), which can only hold a point up; the clock goes
forward, though the code clears its readings when it steps back; the points file
is never unreadable, since `_save` is atomic; a point's scatter, drifts and run
are data.

### SettingsStore and DurableSettings

A request handler sets the server's memory and then does one thing after the
other: a command put in the queue, a file opened, written, renamed. `job` holds,
for each request thread and for the event loop, the steps it still has to do
(`todo`) and what it has in hand; between two steps any other thread may take
one, the service may stop or the power go, and a step that raises drops the rest
of the list. `Save` is `_save_settings` (copy, temporary file, `fsync`, rename;
an `OSError` is swallowed), `WriteProfile` is `CrystalManager.save` (in place,
no `fsync`, which is what `unsafe` and `Writeback` are for). `Boot` is
`_load_settings` and `_enqueue_settings`, both called from
`RestServer.__init__`; `told` is what the worker's queue was given last. An open
file is followed by what its name has become (`fd`, `Renamed`), as one thread
may rename the temporary file another has open. `ledger` is the total a profile
was created or uploaded with and the runs credited to it since, and is the
model's own. So are three variables that say where requests have got in each
other's way: `crossed`, a setting was set again before it was sent; `outdated`,
the settings were set or copied with another copy on its way to the file;
`muddled`, the profiles taken up with somebody else about to write them. Every
request may still come at any time; the properties use the three to say exactly
what is lost when it does.

`DurableSettings` says what this is for: the settings a restart brings back were
in force at some moment, all of them at once, and are never the defaults once
something was stored. Requests that store at once (`StoreAtOnce`) are the
exception, and only while they do.

Simplifications: the settings are one that is pushed to the worker and one that
is only stored; the PLC connection, stored with them, is in `OpcBridge`; the
total of a profile counts runs; a sweeping worker that drops what it is sent is
not here but a hazard of its own.

### TemperatureWorker

One transfer over the bus is one step, and between any two of them the board may
lose its power or get it back, the bus may fail or recover, and the service may
be restarted with the chip left as it was. `Round`, `Open`, `WaitIdle`, `Write`,
`Verify`, `Check`, `Convert`, `Await` and `ReadResult` are the worker's
statements in the order of `_read_once`, `TemperatureSensors.open`, `configure`,
`configured` and `read_all`; `Fail` is `_fail` and what `run` publishes then.
The chip has a power state, the parts of its configuration it holds (`conf`) and
its result registers, in which a conversion leaves "right" if the chip held all
of its configuration and "wrong" if not -- a number the worker cannot tell from
a temperature. `StartRun` is `start_temperature`, which the QCM worker's thread
takes from the newest event.

Simplifications: the die's sensor works or not, its mean is data; the contents
of the table and the channel words are data, one part each; `RETRY_INTERVAL` is
counted in rounds, any number of which may have passed.

## 3. What is checked

| Run | Module | Shows | States |
|---|---|---|---|
| `lock` | MCQcmWorker | every order of attempts, runs, sweeps, capacitor adjustments, gain settings and held-back commands, any register write failing: `TypeOK`, `LockingHasAttempt`, `IntegratorsFollowAttempt`, `StartFreqsAreResonances`, `HeldBackByAttempt`, and the refinement `RunLifecycleHolds` | 217 000 |
| `run` | MCQcmWorker | runs in either mode with mode, hold, AGC, automatic re-lock and frequency tracking switched under them: `RelockKeepsRunMode`, `OpenLoopDriveIsManual` | 284 000 |
| `live` | MCQcmWorker | with fairness and failing writes: `AttemptEnds`; `TargetFlagSurvivesDips` | 41 000 |
| `runlog` | RunLogger | two runs of up to three parts with everything failing, deletions that interleave with the worker, and a server that hears of it later: `TypeOK`, `OpenPartKept`, `TrimmedFromTheFront`, `FirstPartReported`, `NeverOverwrites`, `SwitchesHonoured` | 565 000 |
| `tracking` | RunTracking | two runs, three logs, three events under way: `TrackingTypeOK`, `CreditedOnce`, `ViewSettles`, `RecordedRunRefused` | 218 000 |
| `bridge` | OpcBridge | switch and address changed at any point of the loop, a link that dies, subscriptions that fail or half fail: `TypeOK`, `OffOnceSeen`, `OneSubscription`, `OneStartPerEdge`, `MeasurementsCarryTheLevel`, and with fairness `StatusCatchesUp` | 718 000 |
| `calibration` | MCCalibrationRecorder | two temperatures, a lock and a sensor that drop out, points taken, deleted and cleared, a longer window to change to, saves that fail, restarts: `TypeOK`, `PlateauOnce`, `IdsNeverReused`, `RememberedIsListed` | 445 000 |
| `settings` | SettingsStore | settings set, stored and restored, a profile created, uploaded, applied, credited and deleted, any write finding the card full, the service stopped or the power cut between any two steps: `TypeOK`, `WorkerFollows`, `TotalsAddUp`, and the refinement `SettingsAreDurable` | 876 000 |
| `temperature` | TemperatureWorker | the board, the bus and the service failing between any two transfers: `TypeOK`, `ReadingsConfigured`, `OneDevice`, and with fairness `ReadingsReturn` | 325 000 |
| `silent`, `bridgeoff`, `unreadable` | | what a comment of the source promises and the code does not keep (section 4) | |

No run finds a deadlock, and none switches the check off.

### The properties in words

- `LockingHasAttempt`: the worker is in LOCKING exactly while an attempt is in
  flight or being aborted. LOCKING refuses START, sweeps and the capacitor
  adjustment, and the repository's history has a hang there.
- `IntegratorsFollowAttempt`: during an attempt its channels hold the
  acquisition gain whatever is set meanwhile, and the others stay parked;
  afterwards, until something opens the loops, each has the gain configured
  *last*, and each parked one none.
- `StartFreqsAreResonances`: what a re-lock will start from, and what a stopped
  run offers the crystal profile, was typed in or read from a loop that a lock
  attempt aimed, never at power-up, after a sweep or a capacitor adjustment or
  from a parked mode. A frequency set by hand afterwards is the one way left
  (section 4).
- `HeldBackByAttempt`: commands are held back only while an attempt runs, or by
  one that found both modes parked (the exception: section 4).
- `RunLifecycleHolds`: runs begin from IDLE only, survive any number of
  re-locks, failed and restarted ones included, and take their log with them.
- `RelockKeepsRunMode`: a re-lock brings the temperature mode up exactly if the
  run began with compensation and there is a frequency to start it from, however
  the mode is switched meanwhile.
- `OpenLoopDriveIsManual`, `TargetFlagSurvivesDips`: the drive and the target
  flag each keep to the run while the settings behind them change and locks come
  and go. The flag falls at the start of a run, or as a target is set that is
  none or above the thickness, and at no other step.
- `OpenPartKept`: the part that is being written is not removed. A deletion
  takes it in two cases only: when the request was let through with the report
  of the run still on its way to the server, and when the run took a name without
  reading the directory, or one that was just being deleted.
- `NeverOverwrites`: no part is opened over a file, but by a run that was named
  without reading the directory.
- `TrimmedFromTheFront`: what is left of a run being recorded, after reclaims and
  deletions, is its latest stretch; a gap is only ever behind a part that could
  not be deleted.
- `SwitchesHonoured`: with a switch off, nothing of that half is deleted, also
  not by the reclaim at the very start of the next run.
- `FirstPartReported`: in a run's first part the server has been told the truth.
- `CreditedOnce`, `ViewSettles`, `RecordedRunRefused`: each run's thickness is
  credited once and not early; once the events are in, the server's view is the
  worker's; a run whose log is open is let go for deletion only while an event
  that it was opened is still under way.
- `OffOnceSeen`: switched off, and the worker having looked at the switch, the
  bridge holds no connection and no subscription of it lives, unless the switch
  was flipped back before the worker had seen it flipped (`OffMeansOff` is the
  same without the exception, and section 4's), or over a connection the client
  was made to forget.
- `OneSubscription`: over the client's connection one subscription lives at most,
  unless a call that sets one up or deletes it failed half way.
- `OneStartPerEdge`: from one subscribing to the next, one raising of a control
  node is one command, subscribed or polled, unless a subscription that nobody
  holds is alive. Over a reconnect it is not: a node left at TRUE is reported
  again and starts a run again.
- `MeasurementsCarryTheLevel`: every measurement tells the PLC of the target
  flag as it was when the measurement was taken, whatever was discarded while
  the bridge was off.
- `StatusCatchesUp`: what the server has been told of the bridge becomes true
  again after any number of lost links and switches, but for a switch flipped
  back unseen.
- `PlateauOnce`: an automatic point shares no second with the settled point
  before it and lies more than `REARM_HZ` from it, also over a restart: the
  window is cut where the crystal left, and a crystal that comes back is not
  taken again.
- `IdsNeverReused`: no two points have an id in common, in memory or on file,
  and the next id is new to both, over deletions, restarts and failed saves, as
  far as the file goes.
- `RememberedIsListed`: what holds the next automatic point up is a settled
  point that is still in the list.
- `SettingsAreDurable`: what the settings file holds was in force as a whole; a
  full card, a stop or a power cut at any step of a save costs that save and
  nothing else. While two copies are on their way at once it may hold anything,
  until one that is alone is stored.
- `WorkerFollows`: what is not on its way to the worker, the worker was last sent
  as the server shows it: over boots, restored defaults, crystals applied, deleted
  and applied again, and requests that failed half way; but for a setting that
  was set twice before it was sent.
- `TotalsAddUp`: a crystal's total is the one it was created or uploaded with and
  the runs credited to it since, whatever forms were applied and calibrations
  saved to it in between, but for a profile that was taken up while somebody
  else was about to write it. `ServerKeepsServing` is section 4's.
- `ReadingsConfigured`: no temperature on the page, in the log or behind a run's
  T start was converted by a chip that had lost part of its configuration, at
  whichever transfer the power went and came back.
- `OneDevice`: an absent board can be tried for months; no attempt leaves the
  device open, and no failure closes what it does not own.
- `ReadingsReturn`: once the board keeps its power and the bus works, every
  sensor reports a valid result again, without a restart.

### What the properties let off, and need

Some of what the code does in the wrong order at the wrong moment breaks what
these properties say. The models do it all the same: nothing keeps a request, a
failure or a deletion from coming when it hurts. A history variable records that
it happened, and the property lets off exactly what it concerns, so that it
still says what holds everywhere else and from when on it holds again.

- `hasty` ends when the worker next acts on the switch being off, `half` when the
  client's connection has no subscription left, or one was set up anew after the
  old one was deleted.
- `crossed` ends for a setting when it is set with nothing of it waiting to be
  sent; `outdated` when settings are copied with no other copy on its way to the
  file; `muddled` lasts until the service is restarted, as a lost update is not
  made good. FastAPI runs the handlers on a pool of threads, so two browsers, or
  one page that sends two settings at a time, bring about each of them: two
  requests queue in the other order than they set; both write
  `settings.json.tmp`, and one renames what the other has only begun; a form is
  applied to a profile while the run's thickness is added to it.
- `behind`, `named` and `spared` of the run log are about a run, and end with it.

With one request thread beside the event loop, as in the `settings` run, only
`muddled` is ever set; the theorems of section 5 are for any number of threads.

One constant is an assumption on the hardware. `SlowStart` (`temperature`): a
chip takes longer to start (~200 ms, `domain/ltc2986.py:176`) than `configure`
takes to write (some milliseconds). `configured()` reads back the channel
assignments and neither the table nor the mains rejection, which are written
first, so a power-up in the middle of the writes would be noticed only through
them. With FALSE `ReadingsConfigured` fails.

### Bounds

- Two oscillators: all there are. Frequencies `{0, 1}`: parked, and a resonance;
  `Junk` and the readings complete the distinction any guard makes. `live` has
  only `1`: an attempt with nothing to lock is over at once and is in `lock`.
- Two gains, so that a gain set during an attempt differs from the one before
  it; they are interchangeable (symmetry), and `lock`'s refinement property is a
  safety property that does not name them.
- `Settle = 1`, `Timeout = 2` (3 in `run`): an attempt that settles at the
  deadline, after it and before it all occur. `Window = 2`, `MinSamples = 1` in
  `run` separates a window that says nothing, one that may and one that is full.
- One held-back command is enough for each of the three kinds to be replayed,
  refused and forgotten; where it plays no role the bound is 0.
- `Sent` names the groups of settings a run sends. The groups are independent of
  the properties of the runs that leave them out, and between them the runs send
  all of them.
- Thicknesses and targets `{0, 1}`: at, above and below, and no target.
- One second, two runs at once on the card, three parts, and the worker going on
  while no report is waiting (fewer than two, in `silent`): a run can lose its
  first part while its third is open and another run is there to go first, and a
  deletion can be let through in between. A run does not roll over onto a card
  with three files (`MaxFiles`) until one is gone. All runs of one second are the worst a
  clock can do to their names. The bound on runs is checked before one is
  started; deletion, reclaim and restarts make room again.
- Two runs, three logs (one re-opened), events sent while fewer than three are
  under way: a whole run, start to stop, can be on its way while a deletion is.
- One address in `bridge`, as no property it checks compares two (a request that
  sets the same one hangs up as well), two in `bridgeoff`; one event waiting at
  the bridge, so that any may be written, lost with the link or discarded while
  off; subscriptions and commands are counted to 2, one too many.
- A window of two seconds at first, and one of three, with one more to hold, that
  comes with the sensor and goes with a restart if it was not saved; every second
  of a window is needed: a window cut by a departure, one that has slid past it,
  one with a gap in it and one that grows over a departure all occur. Two points are the two that a plateau must not give. A save may
  fail, though not twice running.
- One request thread beside the event loop. One crystal, which may be active or
  not, and two calibrations, one of them the blank one; two values of the setting
  that is pushed, one of them the default, so that a default that came back is
  seen; one of the setting that is only stored, which goes where the other goes.
  `MaxTotal = 2`: a total that is replaced and one that is added to differ at the
  second run. `UploadTotals = {1}`: a profile is uploaded with a total and credited
  after it; one without a total is as one that was created.
- `Retry = 2`: rounds that wait, and the one that tries. Everything else of
  `TemperatureWorker` is as in the code: four assignments, three sensors.

The theorems of section 5 hold without any of these bounds.

### Fairness

`WF(QueueEmpty)` and `WF(pc # "get" /\ Next)`: the thread goes on with the cycle
it is in, and the queue is empty now and then -- `get` has a timeout of 0.1 s and
commands come from an operator and a PLC. No command is ever obliged to arrive,
and lock is never obliged to be found. `AttemptEnds` excludes one thing: GET LOCK
sent again and again without end, which by design starts the attempt over.

`OpcBridge` has `WF(Loop)`, as the thread goes round, and `WF(HungUp)`, as
closing a connection ends. `SF(EventsDone)`: events come at 10 Hz and are read
in one go, so the queue is found empty, though not for long. `SF(Dial)`: while
there is no connection the loop passes again and again, and the interval since
the last attempt does run out. Neither a connection attempt nor a call is
obliged to succeed.

`TemperatureWorker` has `WF(Worker)`, as the thread goes round, `WF(ChipReady)`
and `WF(Converted)`, as a chip with power starts and ends its conversions. That
the power and the bus hold is the premise of `ReadingsReturn`, never fairness.

## 4. Where code and comments disagree

Three of these are runs whose counterexample is short enough to read.

1. **A roll-over that cannot open its next part ends the recording silently**
   (`silent`, `domain/run_logger.py:495`): its `OSError` is taken for a size
   that could not be checked. The module's first page says that a failure is
   reported, never swallowed.
2. **A bridge switched off can stay connected** (`bridgeoff`,
   `plc/opc_worker.py:211`). On while the worker is still disconnecting and off
   again while it is connecting: the switch is back at the value acted on last,
   and the new connection, with a subscription that starts runs, is left up.
3. **A crystal profile that cannot be written at the end of a run takes the live
   readings down, and the next boot with it** (`unreadable`,
   `api/server.py:778`, `domain/crystal.py:76`). `CrystalManager.save` cuts the
   file off before it writes it; on a full card the write raises in the
   broadcaster, whose loop catches `queue.Empty` only. The profile stays empty,
   and `RestServer.__init__` raises on it. The doc of `_write_json` explains why
   the *settings* are not written this way, and a comment on another hook of the
   same loop says that it must never take the live readings down.

The others were met while modelling and have no run:

- A GET LOCK with both modes parked, sent during an attempt, ends it without
  `_replay_deferred` (`workers/qcm_worker.py:232`; the comment at line 70 has
  held-back commands replayed when locking finishes). `HeldBackByAttempt` makes
  that exception.
- The drive servo runs in IDLE on loops that are open (line 613): it is gated on
  the state and not, like the start-frequency tracking, on `_loops_aimed`; the
  doc at line 607 says otherwise.
- A roll-over whose header cannot be written leaves the part being written to
  the reclaim (`domain/run_logger.py:257`): the reclaim spares the open part by
  `path`, which is assigned only after the header. The doc at line 327 has it
  spared always.
- A frequency set by hand (`POST /settings/frequency`) while the loops are closed
  moves an oscillator and leaves `_loops_aimed` and the phase window as they are
  (`workers/qcm_worker.py:464`). If the phase is quiet where it comes to rest,
  that becomes a start frequency; the comments at lines 151 and 568 have only
  loops that a lock has aimed read.
- The same target set again after the film has dipped below it lowers the target
  flag (`workers/qcm_worker.py:496`), though dips are not to.
- With the directory unreadable `_fresh_base` takes no name to be taken
  (`domain/run_logger.py:235`) and a run writes over one of the same second,
  which its doc exists to rule out.
- The doc of `delete_run` (`api/server.py:1387`) has the run being recorded
  refused. The check goes by what the server has been told, two queues behind
  the worker, and the files go after the check: a run deleted as it starts, or
  as it takes the name of one being deleted, loses its open part. After a
  roll-over whose `PART_END` row failed, a run is not refused until the next
  event is in.
- A call that fails after `create_subscription` leaves a subscription alive that
  nobody deletes (`plc/opc_worker.py:282`); what `delete()` raises is swallowed
  (line 311). Until the link is dropped, one edge is then two commands.
- A connection made while a request thread is closing the one before it is
  forgotten alive (`plc/wago_client.py:97`), with its subscription.
- Two requests for one setting may be queued in the other order than they took
  effect; two that store settings share one temporary file; two that write a
  profile lose one another's update (`api/server.py:493`, `:780`). The doc of
  `_write_json` speaks of full cards and power cuts only.
- A gain set during a capacitor adjustment reaches its register
  (`domain/qcm_interface.py:329`), where the doc at line 569 has the integrators
  held at 0.
- `TemperatureSensors.configure` says it reads everything back; it reads back the
  assignments (section 3, `SlowStart`).
- A reboot is refused while the last state is RUNNING (`api/server.py:1690`), so
  not during a re-lock inside a run, though the doc above it means the run.
- RESTORE DEFAULTS with an active profile that cannot be parsed raises after the
  defaults are in force and pushed and before they are stored: the next boot
  brings the old settings back.

## 5. What is proved

Every type invariant, safety invariant and action property of a passing run,
and both refinements, are theorems: they hold for every value of the constants,
without the bounds of section 3. What stays with TLC is liveness.

The constants satisfy what their modules assume by name (`WindowAssumption`,
`FaultsAssumption`, `GainsAssumption`, `WorkerAssumption`, `BoundsAssumption`,
`LogFaultsAssumption`, `NoneAssumption`, `TrackingBounds`, `BridgeAssumption`,
`RecorderAssumption`, `StoreAssumption`, `RetryAssumption`), which TLC evaluates
on each run. One condition is a hypothesis of three theorems instead, `SlowStart`,
which is about the chip; it holds in the run that checks the same properties, and
section 3 says what fails without it. No theorem assumes anything of how
requests, operators or threads behave.

| Module | Theorem | States |
|---|---|---|
| `QcmWorkerProofs` | `TypeCorrect` | `TypeOK` |
| | `NeverStuckInLocking` | `LockingHasAttempt` |
| | `ImplementsRunLifecycle` | `RunLifecycleHolds`, that is `Lifecycle!Spec` |
| `QcmSafetyProofs` | `GainsAreRight` | `IntegratorsFollowAttempt` |
| | `OnlyResonancesAreFollowed` | `StartFreqsAreResonances` |
| | `RelocksKeepTheMode` | `RelockKeepsRunMode` |
| | `EndingsReplay` | `HeldBackByAttempt` |
| | `DriveIsManual` | `OpenLoopDriveIsManual` |
| | `TargetFlagIsSticky` | `TargetFlagSurvivesDips` |
| `RunLoggerProofs` | `LogTypeCorrect` | `TypeOK` |
| | `WrittenPartStays`, `LatestPartsLeft`, `NothingOverwritten` | `OpenPartKept`, `TrimmedFromTheFront`, `NeverOverwrites` |
| | `FirstPartSaidSo`, `SwitchesObeyed` | `FirstPartReported`, `SwitchesHonoured` |
| `RunTrackingProofs` | `TrackingTypeCorrect` | `TrackingTypeOK` |
| | `RunsCreditedOnce`, `ServerCatchesUp`, `RecordedRunIsSafe` | `CreditedOnce`, `ViewSettles`, `RecordedRunRefused` |
| `OpcBridgeProofs` | `BridgeTypeCorrect`, `LevelsAreRight` | `TypeOK`, `MeasurementsCarryTheLevel` |
| | `OffIsOff`, `OnlyOneSubscription`, `StartsOncePerEdge` | `OffOnceSeen`, `OneSubscription`, `OneStartPerEdge` |
| `CalibrationRecorderProofs` | `RecorderTypeCorrect` | `TypeOK` |
| | `IdsAreGivenOnce`, `HeldUpByListed`, `PlateausAreTakenOnce` | `IdsNeverReused`, `RememberedIsListed`, `PlateauOnce` |
| `SettingsStoreProofs` | `StoreTypeCorrect`, `TotalsAreKept` | `TypeOK`, `TotalsAddUp` |
| | `WorkerIsTold`, `SettingsRefineDurable` | `WorkerFollows`, `SettingsAreDurable`, that is `DurableSettings` |
| `TemperatureWorkerProofs` | `WorkerTypeCorrect`, `OnlyConfiguredReadings`, `NoDeviceLeftOpen` (`SlowStart`) | `TypeOK`, `ReadingsConfigured`, `OneDevice` |

Hardly any of these is inductive as it stands. What each needs beside it:

- *Types and LOCKING* (`AttemptInv`). `AttemptPoints`: `_advance_lock` is reached
  in LOCKING only, and `_abort_lock` with no attempt left. Without the first an
  attempt could be advanced that is not there, without the second the abort
  would hand its run back twice. The hardware's types are lemmas, one per
  operation; the step is split into control commands, settings and the cycle.
- *Lifecycle* (`LifeInv`), mapping `phase` to `state`, `run` to `RunGoing` and
  `log` to `logActive`. `AbortResumes`: between the exception of an attempt that
  failed at once and the end of `_abort_lock`, the run it interrupted is
  remembered in `resuming` only. Each action is a lifecycle step or a stutter.
- *Integrators* (`GainInv`). `Aimed`: as long as nothing has opened the loops,
  the parked channels are exactly those the last attempt did not release.
- *The worker's other promises* (`SafetyInv`, on top of `GainInv`). `Aimable`:
  while the loops stand where the last attempt, or a frequency set by hand, has
  aimed them, none of those it released is open, and where it started from is
  known. That is the fact behind `_loops_aimed`, and the reason why a quiet phase
  may be read as a frequency there and nowhere else.
- *Run log* (`LogInv`). Its methods are operators from a state to the states it
  can leave, so the proof goes method by method: what each leaves of a `Sound`
  log, and what it does to the files. `Recorded` ties the part that has its name
  to its file, to the run and to what was reported, and makes the run's parts
  `Tight`, that is without a gap but behind those that were spared. `Reported` is
  kept apart, since it is what a roll-over loses. `Linked` leads what the server
  goes by, along the reports on their way, to the last one made; `Pending` says
  of a deletion of the run being written that it was let through before the
  server could know, and that it takes the older parts first.
- *Run tracking* (`TrackInv`). The server is some events behind, so no relation
  between the two survives a step by itself. What does is `Caught`: the events
  under way lead the server's view, through views that are each `Good` (safe to
  act on), to one that is `Final`, the view that goes with the worker as it is
  now. A step of the worker sends what leads from the old final view to the new
  one; a step of the broadcaster takes the first.
- *Bridge* (`BridgeInv`). `QueueInv` is of the same kind: the target flag as
  the bridge knows it goes through levels along the queue, up to the level the
  QCM worker has, and each measurement carries the one it is reached with.
  `LinkInv`: a switch acted on, and not flipped back unseen, is off all the way
  round the loop (`SwitchFollowed`); a live subscription is over a link that
  works, and but for a call that failed half way it is the worker's own
  (`Subscribed`); unsubscribed, only a level not yet polled is unanswered
  (`Answering`).
- *Calibration* (`RecorderInv`). `PointsInv`: ids are below the next, which is
  not behind the file's, and what an automatic point is compared with is the
  last point if that was settled. `Since`: the departure remembered is no older
  than the seconds since the last point, which is why a window cut at it shares
  none with that point. Sums over a window of natural numbers are natural
  numbers by a least counterexample on its size, since induction is not to be
  had.
- *Settings and profiles*. `Base`: the list of what a thread has still to do is
  one the code can be in the middle of (`Listed`, from which step may follow
  which), and what those steps need it has. `Totals`: a profile
  that is not muddled is in the hands of one thread at most, and what that one
  writes has the total the ledger will have by then. `Ways`: of a setting that
  has not crossed another, the worker was told what is in force or one thread is
  about to tell it; and while nothing is outdated, one thread at most has a copy
  on its way into the settings file -- copied, temporary file, renamed -- and it
  is what is in force. The refinement maps every step to a step of
  `DurableSettings` or a stutter, to `StoreAtOnce` only while `outdated`.
- *Temperatures* (`IInv`), about the order of the writes. `ChipInv`: what a chip
  holds is a beginning of `Parts`, as it is written in that order into a chip
  that was idle and a reset takes all of it; the last assignment read back
  therefore vouches for the table and the mains rejection, which nobody reads
  back. While the worker measures, the chip holds everything or nothing.
  `WorkerInv` ties the open device to the worker's place and bounds its series;
  `DataInv` carries "not wrong" from the registers through the round's readings
  to what was published and what a run took.

A proof that would not go through found a slip in the model: `leftFor` was
capped at the window, though readings go back further where `HISTORY_S` is
longer, and a departure could look more recent than it was. It is capped where
ages are no longer told apart (`Old`).

Model-checked only: `AttemptEnds`, `StatusCatchesUp` and `ReadingsReturn`, as
liveness under fairness is out of the prover's reach; and the three promises of
the source's comments that section 4 shows broken. Nothing is proved about a chip
that starts faster than it is written to.

## 6. Plan

Done: worker and loop hardware; run lifecycle; run logger; run tracking; OPC
bridge; calibration recorder; settings and crystal profiles; temperature worker;
the theorems above.

Worth modelling next: the window test of the lock detection as an operator
against a reference definition, which would bound the nondeterminism of
`Verdicts`; the pair of start frequencies, which a request thread may read
between its two assignments; a wall clock that steps back under the calibration
recorder.

### Not modelled

- *Numerics*: `processing/TempCompAlgorithm.py`, the phase statistics, the
  servo's law, the chip's number formats and table. They are real-valued; where
  control depends on them the models choose.
- *LEDs*: outputs recomputed from the state each cycle; nothing reads them back.
- *Start-up and shutdown* (`main.py`): wiring and an ordered stop, each run once.
  What a stop finds half done is in the components' own restarts.
- *FPGA programming* and the register map, `/dev/mem`: I/O without a state of its
  own; that a register write may raise is in `QcmInterface`.
- *The browser page, `src/tools`, CAD, the FPGA design, vendored drivers*: no
  control logic of this program, or none at all.
