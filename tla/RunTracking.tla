---------------------------- MODULE RunTracking ----------------------------
(***************************************************************************)
(* What the REST server knows of the runs, api/server.py: the broadcaster  *)
(* takes the worker's events, one at a time and some time later, and keeps *)
(* the state, the run that is being recorded and what each run has         *)
(* deposited; a request thread deletes runs on the strength of it.         *)
(*                                                                         *)
(* The worker is the run lifecycle QcmWorker implements, with the events   *)
(* each of its steps sends.  They pass two queues and the router between   *)
(* them (app/application.py), which keeps their order, drops none and      *)
(* renames the states: here, one queue.  The logger's reports are taken at *)
(* their word; RunLogger shows when they are not.                          *)
(***************************************************************************)
EXTENDS RunLifecycle, Integers, Sequences

CONSTANTS
  MaxRuns,    \* bound: runs begun
  MaxLogs,    \* bound: logs opened
  MaxQueue    \* bound: events under way when the worker sends more

ASSUME TrackingBounds == MaxRuns \in Nat /\ MaxLogs \in Nat /\ MaxQueue \in Nat

Runs == 1..MaxRuns
Names == 1..MaxLogs         \* run names, in the order their logs were opened
None == 0                   \* no name

StateNames == {"IDLE", "LOCKING", "RUNNING", "SWEEPING", "CAP_ADJUST"}

StateEvent(s) == [type |-> "StateEvent", state |-> s]
RunLogStarted(n) == [type |-> "RunLogStartedEvent", name |-> n]
RunLogFailed == [type |-> "RunLogFailedEvent"]
Measurement(r) == [type |-> "MeasurementEvent", run |-> r]

Events == {StateEvent(s) : s \in StateNames} \union {RunLogStarted(n) : n \in Names}
            \union {RunLogFailed} \union {Measurement(r) : r \in Runs}

VARIABLES
  begun,       \* runs begun so far
  opened,      \* logs opened so far; the last of them is open while `log` is
  measured,    \* runs that have measured a thickness
  events,      \* on their way to the server
  files,       \* runs on the card
  lastState,   \* _last_state
  inRun,       \* _measurement_start_time is not None
  recording,   \* _recording
  currentRun,  \* _current_run, or None
  session,     \* runs whose thickness is in _session_thickness
  credited,    \* how often a run was added to its crystal's total
  deleting     \* the run a request thread is about to remove, or None

workerVars == <<lifecycleVars, begun, opened, measured>>
serverVars == <<lastState, inRun, recording, currentRun, session, credited>>
vars == <<workerVars, events, files, serverVars, deleting>>

TrackingTypeOK ==
  /\ phase \in Phases /\ run \in BOOLEAN /\ log \in BOOLEAN
  /\ begun \in 0..MaxRuns /\ opened \in 0..MaxLogs
  /\ measured \subseteq Runs
  /\ events \in Seq(Events)
  /\ files \subseteq Names
  /\ lastState \in StateNames
  /\ inRun \in BOOLEAN /\ recording \in BOOLEAN
  /\ currentRun \in Names \union {None}
  /\ session \subseteq Runs
  /\ credited \in [Runs -> Nat]
  /\ deleting \in Names \union {None}

TrackingInit ==
  /\ Init
  /\ begun = 0 /\ opened = 0 /\ measured = {}
  /\ events = << >>
  /\ files = {}
  /\ lastState = "IDLE"
  /\ inRun = FALSE /\ recording = FALSE /\ currentRun = None
  /\ session = {} /\ credited = [r \in Runs |-> 0]
  /\ deleting = None

-----------------------------------------------------------------------------
(* The worker, and what it sends. *)

\* Variant: the worker's own names are passed on.
StateNameRaw(p) == p

\* _STATE_MAP
StateName(p) == IF p = "MEASURING" THEN "RUNNING" ELSE p

Emit(es) ==
  /\ Len(events) < MaxQueue
  /\ events' = events \o es
  /\ UNCHANGED <<serverVars, deleting>>

\* What a row that cannot be written adds in front.
Failure == IF log /\ ~log' THEN <<RunLogFailed>> ELSE << >>

NoNewLog == UNCHANGED <<opened, files>>

NewLog == opened < MaxLogs /\ opened' = opened + 1 /\ files' = files \union {opened + 1}

\* Start: the log first, then the state.  The log may fail to open, or at its
\* opening rows.
WorkerBegins ==
  /\ Begin
  /\ begun < MaxRuns /\ begun' = begun + 1
  /\ \/ /\ NewLog
        /\ Emit(<<RunLogStarted(opened')>>
                  \o (IF log' THEN << >> ELSE <<RunLogFailed>>) \o <<StateEvent("RUNNING")>>)
     \/ /\ ~log' /\ NoNewLog
        /\ Emit(<<RunLogFailed, StateEvent("RUNNING")>>)
  /\ UNCHANGED measured

\* Stop: in the middle of a re-lock the state does not change, and nothing says
\* that the run is over until the attempt ends.  The log's last row may fail.
WorkerEnds ==
  /\ End
  /\ \E failure \in {<< >>} \union {<<RunLogFailed>> : l \in {log} \intersect {TRUE}} :
       Emit(failure \o (IF phase = "MEASURING" THEN <<StateEvent("IDLE")>> ELSE << >>))
  /\ NoNewLog
  /\ UNCHANGED <<begun, measured>>

WorkerMoves ==
  /\ Acquire \/ Acquired \/ OpenLoop
  /\ Emit(Failure \o <<StateEvent(StateName(phase'))>>)
  /\ NoNewLog
  /\ UNCHANGED <<begun, measured>>

\* A sweep that goes through is one step of the worker and two of its state.
WorkerSweeps ==
  /\ phase = "IDLE" /\ ~run
  /\ Emit(<<StateEvent("SWEEPING"), StateEvent("IDLE")>>)
  /\ NoNewLog
  /\ UNCHANGED <<lifecycleVars, begun, measured>>

\* A row that fails; a roll-over, which opens the next part whether or not the
\* last row of the part before could be written, and may fail at the first row
\* of the new one; RetryRunLog.
WorkerLogs ==
  /\ log' \in BOOLEAN
  /\ LogChanges
  /\ \/ log /\ ~log' /\ NoNewLog /\ Emit(Failure)
     \/ /\ phase = "MEASURING" /\ log /\ NoNewLog
        /\ \E failed \in {<< >>, <<RunLogFailed>>} :
             Emit(failed \o <<RunLogStarted(opened)>> \o Failure)
     \/ ~log /\ log' /\ NewLog /\ Emit(<<RunLogStarted(opened')>>)
  /\ UNCHANGED <<begun, measured>>

RetryFails ==
  /\ phase = "MEASURING" /\ ~log
  /\ \/ NoNewLog /\ Emit(<<RunLogFailed>>)
     \/ NewLog /\ Emit(<<RunLogStarted(opened'), RunLogFailed>>)
  /\ UNCHANGED <<lifecycleVars, begun, measured>>

WorkerMeasures ==
  /\ phase = "MEASURING"
  /\ measured' = measured \union {begun}
  /\ Emit(<<Measurement(begun)>>)
  /\ UNCHANGED <<lifecycleVars, begun, opened, files>>

-----------------------------------------------------------------------------
(* The broadcaster. *)

\* Variant: keyed on the bare RUNNING edges, as it once was.
EndsRunBare(s) == inRun /\ s # "RUNNING"

\* A run spans its re-locks.
EndsRun(s) == inRun /\ s \notin {"RUNNING", "LOCKING"}

\* Variant: the thickness of the last run is carried into the next.
BeginsRunKept(s) == inRun' = TRUE /\ UNCHANGED <<recording, session, credited>>

BeginsRun(s) ==
  /\ inRun' = TRUE /\ session' = {}
  /\ UNCHANGED <<recording, credited>>

\* The crystal's profile takes what the session has deposited.
FlushesRun ==
  /\ inRun' = FALSE /\ recording' = FALSE
  /\ credited' = [r \in Runs |-> IF r \in session THEN credited[r] + 1 ELSE credited[r]]
  /\ UNCHANGED session

TakesState(s) ==
  /\ lastState' = s
  /\ IF s = "RUNNING" /\ ~inRun THEN BeginsRun(s)
     ELSE IF EndsRun(s) THEN FlushesRun
     ELSE UNCHANGED <<inRun, recording, session, credited>>
  /\ UNCHANGED currentRun

TakesMeasurement(r) ==
  /\ session' = session \union {r}
  /\ UNCHANGED <<lastState, inRun, recording, currentRun, credited>>

\* Variant: a failure is shown, and the run still counts as being recorded.
TakesFailedShown ==
  /\ currentRun' = None
  /\ UNCHANGED <<lastState, inRun, recording, session, credited>>

TakesFailed ==
  /\ currentRun' = None /\ recording' = FALSE
  /\ UNCHANGED <<lastState, inRun, session, credited>>

TakesStarted(n) ==
  /\ currentRun' = n /\ recording' = TRUE
  /\ UNCHANGED <<lastState, inRun, session, credited>>

Broadcast ==
  /\ events # << >>
  /\ LET e == Head(events)
     IN  CASE e.type = "StateEvent" -> TakesState(e.state)
           [] e.type = "MeasurementEvent" -> TakesMeasurement(e.run)
           [] e.type = "RunLogFailedEvent" -> TakesFailed
           [] e.type = "RunLogStartedEvent" -> TakesStarted(e.name)
  /\ events' = Tail(events)
  /\ UNCHANGED <<workerVars, files, deleting>>

-----------------------------------------------------------------------------
(* DELETE /runs/{name}, on a request thread: refused, then removed. *)

Refused(n) == recording /\ currentRun = n

DeleteRun(n) ==
  /\ deleting = None
  /\ n \in files /\ ~Refused(n)
  /\ deleting' = n
  /\ UNCHANGED <<workerVars, events, files, serverVars>>

RemoveRun ==
  /\ deleting # None
  /\ files' = files \ {deleting}
  /\ deleting' = None
  /\ UNCHANGED <<workerVars, events, serverVars>>

TrackingNext ==
  \/ WorkerBegins \/ WorkerEnds \/ WorkerMoves \/ WorkerSweeps
  \/ WorkerLogs \/ RetryFails \/ WorkerMeasures
  \/ Broadcast
  \/ \E n \in Names : DeleteRun(n)
  \/ RemoveRun

TrackingSpec == TrackingInit /\ [][TrackingNext]_vars

-----------------------------------------------------------------------------
(* What the server must guarantee. *)

\* Nothing is under way, and the worker is not finishing an attempt whose run
\* has been stopped.
Settled == events = << >> /\ ~(phase = "LOCKING" /\ ~run)

\* A run's thickness is added to its crystal's total once, whatever re-locks
\* it has been through, and not before its end; once things have settled every
\* run that is over and measured anything has been added.
CreditedOnce ==
  /\ \A r \in Runs : credited[r] <= 1
  /\ \A r \in Runs : credited[r] = 1 => r < begun \/ ~run
  /\ Settled =>
       \A r \in measured : r < begun \/ ~run => credited[r] = 1

\* Once the events are in, the server has the worker's state, knows a run from
\* no run, and has a run down as being recorded exactly when its log is open,
\* under its name.
ViewSettles ==
  Settled => /\ lastState = StateName(phase)
             /\ inRun <=> run
             /\ recording <=> log
             /\ recording => currentRun = opened

\* The run whose log is open is let go for deletion only while the server has
\* yet to hear that it was opened, for the first time, after a failure or at a
\* roll-over: neither a re-lock nor anything said of an earlier log clears the
\* refusal of the one being written.
RecordedRunRefused ==
  [][deleting = None /\ deleting' # None /\ log /\ deleting' = opened =>
       \E i \in 1..Len(events) : events[i] = RunLogStarted(opened)]_vars
=============================================================================
