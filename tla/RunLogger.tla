----------------------------- MODULE RunLogger -----------------------------
(***************************************************************************)
(* The run log, domain/run_logger.py: one CSV per run that rolls over into *)
(* numbered parts, is turned off and reported when a write fails, and      *)
(* deletes old CSVs when the card fills up.  With it, the calls the worker *)
(* makes into it during a run (workers/qcm_worker.py), what it reports to  *)
(* the server, and the server's deletion of a run (api/server.py).         *)
(*                                                                         *)
(* The log runs on the worker thread, so a public method is one action.    *)
(* A method is an operator from the state of the log to the set of states  *)
(* it can leave: each of its file operations may fail, and how full the    *)
(* card is at each check is up to the environment.  The server hears of    *)
(* the reports later, in order, and a request thread of its checks and     *)
(* removes files with no lock in common with the worker.                   *)
(***************************************************************************)
EXTENDS Integers, FiniteSets, Sequences

CONSTANTS
  Stamps,     \* the seconds a run may be named after; the clock may step back
  NoBase, NoPart,
  Faults,     \* whether operations on files may fail
  MaxRuns,    \* bound: runs on the card at once
  MaxParts,   \* bound: parts of one run
  MaxFiles,   \* bound: files on the card before a run rolls over
  MaxNews     \* bound: reports on their way when the worker does more

ASSUME BoundsAssumption == MaxRuns \in Nat /\ MaxParts \in Nat \ {0} /\ MaxNews \in Nat
ASSUME LogFaultsAssumption == Faults \in BOOLEAN

Bases == Stamps \X Nat          \* <<second, n>>: the n-th run of that second
Parts == Bases \X Nat           \* <<base, k>>: part_name(base, k)

ASSUME NoneAssumption == NoBase \notin Bases /\ NoPart \notin Parts

RunBase(p) == p[1]              \* run_base
PartNumber(p) == p[2]           \* part_number

\* What a report says is being recorded: the run of a RunLogStartedEvent; none,
\* after a RunLogFailedEvent or at the end of a run.
Reports == Bases \union {NoBase}

\* How the run came by its name: no file had it; one did, but the directory could
\* not be read; none had, but a deletion of that name was under way.
Namings == {"free", "unread", "reused"}

LogStates ==
  [handle : Parts \union {NoPart},   \* what _file is open on
   path : Parts \union {NoPart},     \* path
   base : Bases \union {NoBase},     \* _base
   part : Nat,                       \* _part
   described : BOOLEAN,              \* _settings is not None
   told : Reports,                   \* the last of on_start, on_error and run end
   news : Seq(Reports),              \* reports on their way to the server
   files : SUBSET Parts,             \* the CSVs in data/runs
   named : Namings,                  \* of the run, to state properties with:
   overwrote : BOOLEAN,              \*   a part was opened over a file
   spared : SUBSET Parts]            \*   its parts that could not be deleted

VARIABLES
  log,          \* the above
  prune, trim,  \* prune_old_runs, trim_current_run
  going,        \* the worker is in a run
  view,         \* the run the server takes to be recorded, or NoBase
  deleting      \* the request that is deleting a run, or NoDeletion

workerVars == <<prune, trim, going>>
serverVars == <<view, deleting>>
vars == <<log, workerVars, serverVars>>

\* `parts` are still to be removed.  `behind`: when it was let through, a report
\* that the run is being recorded was on its way to the server.
Deletions == [base : Bases \union {NoBase}, parts : SUBSET Parts, behind : BOOLEAN]
NoDeletion == [base |-> NoBase, parts |-> {}, behind |-> FALSE]

TypeOK ==
  /\ log \in LogStates
  /\ log.part \in 1..MaxParts
  /\ prune \in BOOLEAN /\ trim \in BOOLEAN /\ going \in BOOLEAN
  /\ view \in Reports
  /\ deleting \in Deletions

active == log.handle # NoPart

NewLog(files) ==
  [handle |-> NoPart, path |-> NoPart, base |-> NoBase, part |-> 1,
   described |-> FALSE, told |-> NoBase, news |-> << >>, files |-> files,
   named |-> "free", overwrote |-> FALSE, spared |-> {}]

Init ==
  /\ log = NewLog({})
  /\ prune = TRUE /\ trim = TRUE
  /\ going = FALSE
  /\ view = NoBase /\ deleting = NoDeletion

-----------------------------------------------------------------------------
(* Opening, writing and closing. *)

Close(s) == [s EXCEPT !.handle = NoPart, !.path = NoPart]

\* An event for the server; one that says what the last one said changes
\* nothing there and is left out.
Report(s, b) ==
  IF b = s.told THEN s ELSE [s EXCEPT !.told = b, !.news = Append(@, b)]

\* Variant: off for the rest of the run, and not said.
FailSilently(s) == Close(s)

\* _fail: off for the rest of the run, and said so.  What start() means to
\* discard is never there: `path` is only assigned once _open_part is through.
Fail(s) == Report(Close(s), NoBase)

\* write_event: nothing without an open file; a row that cannot be written
\* turns recording off.
WriteEvent(s) ==
  IF s.handle = NoPart THEN {s} ELSE {s} \union {t \in {Fail(s)} : Faults}

\* open(path, "w")
Truncate(s, p) ==
  [s EXCEPT !.handle = p, !.files = @ \union {p}, !.overwrote = @ \/ p \in s.files]

\* _open_part, when it returns.  The SETTINGS row it repeats may fail.
OpenPart(s, p) ==
  LET opened == [Truncate(s, p) EXCEPT !.path = p]
  IN  {Report(t, t.base) : t \in IF s.described THEN WriteEvent(opened) ELSE {opened}}

\* _open_part, when open() raises, or the header cannot be written.
OpenPartRaises(s, p) == IF Faults THEN {s, Truncate(s, p)} ELSE {}

\* The names that are taken.
Taken(files) == {RunBase(p) : p \in files}

\* Variant: two runs of the same second get the same name.
FreshBaseUnchecked(stamp, taken) == <<stamp, 1>>

\* _fresh_base, from the names it takes to be taken
FreshBase(stamp, taken) ==
  LET n == CHOOSE k \in 1..MaxRuns + 1 :
             <<stamp, k>> \notin taken /\ \A j \in 1..k - 1 : <<stamp, j>> \in taken
  IN  <<stamp, n>>

\* start() names the run.  When the directory cannot be listed no name counts
\* as taken.
NameRun(s, stamp) ==
  LET fresh == FreshBase(stamp, Taken(s.files))
      first == FreshBase(stamp, {})
  IN  {[s EXCEPT !.base = b,
                 !.named = CASE b # fresh -> "unread"
                             [] b = fresh /\ b = deleting.base -> "reused"
                             [] b = fresh /\ b # deleting.base -> "free"] :
         b \in IF Faults THEN {fresh, first} ELSE {fresh}}

-----------------------------------------------------------------------------
(* Reclaiming space. *)

\* Variant: nothing is exempt from the reclaim.
MineAll(s) == {p \in s.files : RunBase(p) = s.base}

Mine(s) == {p \in s.files : p # s.path /\ RunBase(p) = s.base}

Others(s) == {p \in s.files : RunBase(p) # s.base}

\* Variant: the order of the runs in progress follows the names backwards.
GoesBeforeNewest(p, q) == PartNumber(p) > PartNumber(q)

\* The order in which the parts of the run in progress go.
GoesBefore(p, q) == PartNumber(p) < PartNumber(q)

\* _reclaim_candidates
Candidates(s) ==
  (IF prune THEN Others(s) ELSE {}) \union (IF trim THEN Mine(s) ELSE {})

\* What has its turn before a file of D and is not in D: it could not be
\* stat'ed, or not be removed, and was skipped.
Skipped(s, D) ==
  {q \in Candidates(s) \ D :
     \E p \in D \intersect Mine(s) : q \in Mine(s) => GoesBefore(q, p)}

\* Candidates are deleted in order until enough is free.  Other runs go first,
\* by mtime, which a stepping clock puts in any order; then this run's parts,
\* oldest first.
Deletable(s) == {D \in SUBSET Candidates(s) : Faults \/ Skipped(s, D) = {}}

\* _reclaim
Reclaim(s) ==
  UNION {WriteEvent([s EXCEPT !.files = @ \ D,
                              !.spared = @ \union (Skipped(s, D) \intersect Mine(s))]) :
         D \in Deletable(s) \ {{}}}

\* _ensure_space: not due, enough free, both switches off -- or a reclaim.
EnsureSpace(s) == {s} \union Reclaim(s)

-----------------------------------------------------------------------------
(* The methods the worker calls. *)

\* What is kept of a run to state properties with ends with it.
Forget(s) == [s EXCEPT !.named = "free", !.overwrote = FALSE, !.spared = {}]

\* Variant: the last run is still the run in progress when start() reclaims.
AfreshLate(s) == [Close(Forget(s)) EXCEPT !.part = 1, !.described = FALSE]

\* Variant: the first part is counted as the zeroth.
AfreshFromZero(s) ==
  [Close(Forget(s)) EXCEPT !.base = NoBase, !.part = 0, !.described = FALSE]

\* The top of start(): the previous run is forgotten before reclaiming.
Afresh(s) ==
  [Close(Forget(s)) EXCEPT !.base = NoBase, !.part = 1, !.described = FALSE]

\* start(): too little space, or a failure to open, is reported.
Start(s, stamp) ==
  UNION {{Fail(r)}
           \union UNION {LET p == <<n.base, 1>>
                         IN  OpenPart(n, p) \union {Fail(t) : t \in OpenPartRaises(n, p)} :
                         n \in NameRun(r, stamp)} :
         r \in EnsureSpace(Afresh(s))}

\* _roll_over
RollOver(s) ==
  UNION {LET next == [Close(e) EXCEPT !.part = @ + 1]
             p == <<s.base, next.part>>
         IN  OpenPartRaises(next, p)
               \union UNION {WriteEvent(o) : o \in OpenPart(next, p)} :
         e \in WriteEvent(s)}

\* Only a part that is still on the card has a size.
RollsOver(s) ==
  /\ s.path \in s.files
  /\ s.part < MaxParts /\ Cardinality(s.files) < MaxFiles

\* _housekeeping.  What a roll-over raises is printed there, as a size that
\* could not be checked.
Housekeep(s) ==
  UNION {EnsureSpace(h) : h \in {s} \union {r \in RollOver(s) : RollsOver(s)}}

\* Variant: a log that was turned off is opened again by the next row.
WriteMeasurementRetrying(s) ==
  IF s.handle = NoPart
    THEN IF s.base = NoBase THEN {s} ELSE {s} \union OpenPart(s, <<s.base, s.part>>)
    ELSE Housekeep(s) \union {t \in {Fail(s)} : Faults}

\* write_measurement
WriteMeasurement(s) ==
  IF s.handle = NoPart THEN {s} ELSE Housekeep(s) \union {t \in {Fail(s)} : Faults}

\* _start_run_log: the settings are kept and written with the opening rows.
StartRunLog(stamp) ==
  \E s \in Start(log, stamp) :
    log' \in IF s.handle = NoPart THEN {s} ELSE WriteEvent([s EXCEPT !.described = TRUE])

-----------------------------------------------------------------------------
(* What the worker does. *)

RoomForRun == Cardinality(Taken(log.files)) < MaxRuns
RoomForNews == Len(log.news) < MaxNews

StartMeasurement ==
  /\ ~going /\ RoomForRun /\ RoomForNews
  /\ \E stamp \in Stamps : StartRunLog(stamp)
  /\ going' = TRUE
  /\ UNCHANGED <<prune, trim, serverVars>>

RetryRunLog ==
  /\ going /\ ~active /\ RoomForRun /\ RoomForNews
  /\ \E stamp \in Stamps : StartRunLog(stamp)
  /\ UNCHANGED <<workerVars, serverVars>>

Measure ==
  /\ going /\ RoomForNews
  /\ log' \in WriteMeasurement(log)
  /\ UNCHANGED <<workerVars, serverVars>>

\* RELOCK_START, RELOCK
LogEvent ==
  /\ going /\ RoomForNews
  /\ log' \in WriteEvent(log)
  /\ UNCHANGED <<workerVars, serverVars>>

StopMeasurement ==
  /\ going /\ RoomForNews
  /\ \E s \in WriteEvent(log) : log' = Report(Close(Forget(s)), NoBase)
  /\ going' = FALSE
  /\ UNCHANGED <<prune, trim, serverVars>>

SetReclaim(p, t) ==
  /\ prune' = p /\ trim' = t
  /\ UNCHANGED <<log, going, serverVars>>

-----------------------------------------------------------------------------
(* What the server does. *)

\* The broadcaster takes the next report.
Hear ==
  /\ log.news # << >>
  /\ view' = Head(log.news) /\ log' = [log EXCEPT !.news = Tail(@)]
  /\ UNCHANGED <<workerVars, deleting>>

\* DELETE /runs/{name} lists the run's parts, and refuses if it takes the run to
\* be recorded.  (One such request at a time.)
DeleteRun(b) ==
  LET run == {p \in log.files : RunBase(p) = b}
  IN  /\ deleting = NoDeletion
      /\ run # {} /\ view # b
      /\ deleting' = [base |-> b, parts |-> run,
                      behind |-> \E i \in 1..Len(log.news) : log.news[i] = b]
      /\ UNCHANGED <<log, workerVars, view>>

\* It then removes them in order.  One that cannot be removed, or is gone, is
\* reported and passed over.
RemovePart ==
  /\ deleting.parts # {}
  /\ LET p == CHOOSE q \in deleting.parts :
                \A r \in deleting.parts : PartNumber(q) <= PartNumber(r)
         rest == deleting.parts \ {p}
     IN  /\ deleting' = IF rest = {} THEN NoDeletion ELSE [deleting EXCEPT !.parts = rest]
         /\ \/ log' = [log EXCEPT !.files = @ \ {p}]
            \/ /\ Faults \/ p \notin log.files
               /\ log' = [log EXCEPT !.spared = @ \union {q \in log.files : q = p /\ RunBase(q) = log.base}]
  /\ UNCHANGED <<workerVars, view>>

\* The power goes: what is on the card stays, the rest starts over.  The stored
\* switches are pushed to the worker before it takes any other command.
Restart ==
  /\ log' = NewLog(log.files)
  /\ going' = FALSE
  /\ view' = NoBase /\ deleting' = NoDeletion
  /\ UNCHANGED <<prune, trim>>

\* The steps that call start().
StartsRun == StartMeasurement \/ RetryRunLog

Next ==
  \/ StartMeasurement \/ RetryRunLog \/ StopMeasurement
  \/ Measure \/ LogEvent
  \/ \E p, t \in BOOLEAN : SetReclaim(p, t)
  \/ Hear
  \/ \E b \in Taken(log.files) : DeleteRun(b)
  \/ RemovePart
  \/ Restart

Spec == Init /\ [][Next]_vars

-----------------------------------------------------------------------------
(* What the log must guarantee. *)

\* The part being written stays on the card, so that the rows a run takes are
\* kept: nothing the log reclaims is it, and the server's deletion takes it only
\* when the report that the run is being recorded was on its way as the request
\* was let through, or when the run took a name whose files were still there or
\* just being deleted.
OpenPartKept ==
  [][log.path \in log.files \ log'.files /\ log'.path = log.path =>
       /\ deleting.base = log.base
       /\ deleting.behind \/ log.named # "free"]_vars

\* Opening a file truncates it.  It happens to a file that is there only to a
\* run whose name was taken without reading the directory: not two runs of one
\* second, a retry, a clock stepped back, a restart or a deletion under way
\* makes a run write over another, in its first part or in a later one.
NeverOverwrites == log.overwrote => log.named = "unread"

\* With prune_old_runs off the logger deletes no finished run, and with
\* trim_current_run off nothing of the run in progress: start() does not take
\* the previous run for the one in progress.
SwitchesHonoured ==
  [][\A p \in log.files \ log'.files :
       \/ IF RunBase(p) = log.base /\ ~StartsRun THEN trim ELSE prune
       \/ RemovePart]_vars

\* However much is reclaimed or deleted, what is left of the run being recorded
\* is its latest parts: a gap is only ever behind a part that could not be
\* deleted when its turn came.
TrimmedFromTheFront ==
  log.path # NoPart /\ log.named = "free" =>
    \A p, q \in log.files :
      /\ RunBase(p) = log.base /\ RunBase(q) = log.base /\ PartNumber(p) < PartNumber(q)
      /\ p \notin log.spared
      => \A k \in PartNumber(p)..PartNumber(q) : <<log.base, k>> \in log.files

\* As long as a run is in its first part, what has been reported of its
\* recording is what is happening.
FirstPartReported ==
  going /\ log.part = 1 => log.told = IF active THEN log.base ELSE NoBase

\* What the module's doc promises: a failure is reported, never swallowed, so
\* a run said to be recorded is being recorded.
FailureReported == going /\ log.told # NoBase => active
=============================================================================
