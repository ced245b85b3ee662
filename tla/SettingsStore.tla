---------------------------- MODULE SettingsStore ----------------------------
(***************************************************************************)
(* The settings of one instrument: in the server's memory, in              *)
(* settings.json, in the crystal profiles (domain/crystal.py) and as the   *)
(* worker was told of them, and the ways between them (api/server.py).     *)
(*                                                                         *)
(* Request handlers run on threads of their own, and the broadcaster and   *)
(* the upload of a profile on the server's event loop.  Each is a thread   *)
(* here with a list of steps left to do, `todo`; between two of them any   *)
(* other thread may take one of its own, the service may be stopped or the *)
(* power go.  A handler that raises loses the rest of its list.            *)
(*                                                                         *)
(* A setting is "pushed", one the worker is told of, or "kept", one that   *)
(* is only stored (the film parameters; the PLC connection, stored with    *)
(* them, is left out).  A profile is its calibration and its running total.*)
(***************************************************************************)
EXTENDS Integers, Sequences

CONSTANTS
  Threads,      \* request threads at work at the same time
  Loop,         \* the event loop
  Pushed, Kept, \* values of the two settings
  DefaultPushed, DefaultKept,
  Names,        \* crystal profiles
  Cals, Blank,  \* calibrations a profile may hold; Blank is all zero
  None,
  Absent, Empty, Torn,   \* a file that is not there, empty, cut off or mixed up
  CardFull,     \* whether a write may fail
  UploadTotals, \* bound: totals an uploaded profile may have
  MaxTotal      \* bound: runs credited to a profile

Settings == [pushed : Pushed, kept : Kept, active : Names \union {None}]
Profiles == [cal : Cals, total : 0..MaxTotal]
NotText == {Absent, Empty, Torn}

Defaults == [pushed |-> DefaultPushed, kept |-> DefaultKept, active |-> None]

ASSUME StoreAssumption ==
  /\ Loop \notin Threads
  /\ DefaultPushed \in Pushed /\ DefaultKept \in Kept /\ Blank \in Cals
  /\ None \notin Names \union Cals \union Pushed \union Settings \union Profiles
  /\ NotText \intersect (Settings \union Profiles \union {None}) = {}
  /\ CardFull \in BOOLEAN
  /\ MaxTotal \in Nat

Steps == {"push", "snapshot", "open", "write", "replace",
          "reload", "apply", "pushCal", "truncate", "fill", "activate", "forget"}
Ids == Threads \union {Loop}

\* What a thread is doing: the value of its request, the profile it has in
\* hand, whether that one starts a new total, its copy of the settings, and
\* what the temporary file it has open is called by now.
Jobs == [todo : Seq(Steps), value : Pushed \union {None}, name : Names \union {None},
         profile : Profiles \union {None}, fresh : BOOLEAN,
         copy : Settings \union {None}, fd : {"none", "tmp", "file", "gone"}]

NoJob == [todo |-> << >>, value |-> None, name |-> None, profile |-> None, fresh |-> FALSE,
          copy |-> None, fd |-> "none"]

VARIABLES
  status,       \* "off", "up", or "failed": the service did not come up
  setting,      \* _osc_settings, _auto_relock, ..., _active_crystal
  cal,          \* _coefficients, or None
  broadcasting, \* the broadcaster's task is alive
  job,
  told,         \* the setting and the calibration last sent to the worker
  file, tmp,    \* settings.json and settings.json.tmp, as they read
  profiles,     \* the profiles, as they read
  unsafe,       \* profiles that may not have reached the card
  ledger,       \* what a profile's total should be
  \* Where requests have got in each other's way:
  crossed,      \* what was set again before it was sent, by the step that sends it
  outdated,     \* the settings were set or copied with a copy on its way to the file
  muddled       \* profiles taken up with somebody else about to write them

raceVars == <<crossed, outdated, muddled>>
memVars == <<setting, cal, broadcasting>>
diskVars == <<file, tmp, profiles, unsafe, ledger>>
vars == <<status, memVars, job, told, diskVars, raceVars>>

TypeOK ==
  /\ status \in {"off", "up", "failed"}
  /\ setting \in Settings
  /\ cal \in Cals \union {None}
  /\ broadcasting \in BOOLEAN
  /\ job \in [Ids -> Jobs]
  /\ told \in [setting : Pushed \union {None}, cal : Cals \union {None}]
  /\ file \in Settings \union NotText
  /\ tmp \in Settings \union NotText
  /\ profiles \in [Names -> Profiles \union NotText]
  /\ unsafe \subseteq Names
  /\ ledger \in [Names -> 0..MaxTotal]
  /\ crossed \subseteq {"push", "pushCal"} /\ outdated \in BOOLEAN /\ muddled \subseteq Names

Init ==
  /\ status = "off"
  /\ setting = Defaults /\ cal = None /\ broadcasting = FALSE
  /\ job = [t \in Ids |-> NoJob]
  /\ told = [setting |-> None, cal |-> None]
  /\ file = Absent /\ tmp = Absent /\ profiles = [n \in Names |-> Absent]
  /\ unsafe = {}
  /\ ledger = [n \in Names |-> 0]
  /\ crossed = {} /\ outdated = FALSE /\ muddled = {}

-----------------------------------------------------------------------------
(* What the threads are about to do, and what one does to the others by that. *)

AtStep(t, step) == status = "up" /\ job[t].todo # << >> /\ Head(job[t].todo) = step

\* A value is set, for a later step to send: before the last one was sent?
Overtakes(step) ==
  crossed' = IF \E u \in Ids : AtStep(u, step) THEN crossed \union {step} ELSE crossed \ {step}

\* A thread has a copy of the settings that it has yet to put in their file.
HasCopy(t) == \E step \in {"open", "write", "replace"} : AtStep(t, step)

OthersHaveCopies(t) == \E u \in Ids \ {t} : HasCopy(u)

\* The settings are set.
Outdates(t) == outdated' = (outdated \/ OthersHaveCopies(t))

\* Somebody has a profile in hand that will be written back.
WritesProfile(t) == \E i \in DOMAIN job[t].todo : job[t].todo[i] = "fill"

\* A profile is taken up to be written, or removed.
TakesUp(n) ==
  muddled' = IF \E u \in Ids : WritesProfile(u) /\ job[u].name = n THEN muddled \union {n}
             ELSE muddled

-----------------------------------------------------------------------------
(* Requests.  Each sets the server's memory, then has its list to do. *)

Idle(t) == status = "up" /\ job[t] = NoJob

Begin(t, j) == job' = [job EXCEPT ![t] = j]

\* _save_settings: a copy of the settings, to a temporary file, renamed.
Save == <<"snapshot", "open", "write", "replace">>

\* The setting handlers that push what they set: in force, queued, stored.
SetPushed(t, v) ==
  /\ Idle(t)
  /\ setting' = [setting EXCEPT !.pushed = v]
  /\ Begin(t, [NoJob EXCEPT !.value = v, !.todo = <<"push">> \o Save])
  /\ Overtakes("push") /\ Outdates(t)
  /\ UNCHANGED <<status, cal, broadcasting, told, diskVars, muddled>>

\* Those that only store it: the film parameters, as they are set and as a
\* measurement is started.
SetKept(t, v) ==
  /\ Idle(t)
  /\ setting' = [setting EXCEPT !.kept = v]
  /\ Begin(t, [NoJob EXCEPT !.todo = Save])
  /\ Outdates(t)
  /\ UNCHANGED <<status, cal, broadcasting, told, diskVars, crossed, muddled>>

\* Variant: the defaults are stored and in force, and the worker never hears.
RestoreUnpushed(t) ==
  /\ Idle(t)
  /\ setting' = [Defaults EXCEPT !.active = setting.active]
  /\ Begin(t, [NoJob EXCEPT !.todo = Save])
  /\ Outdates(t)
  /\ UNCHANGED <<status, cal, broadcasting, told, diskVars, crossed, muddled>>

\* _restore_defaults: the crystal fitted stays, and is applied again.
RestoreDefaults(t) ==
  /\ Idle(t)
  /\ setting' = [Defaults EXCEPT !.active = setting.active]
  /\ Begin(t, [NoJob EXCEPT !.value = DefaultPushed, !.todo = <<"push", "reload">> \o Save])
  /\ Overtakes("push") /\ Outdates(t)
  /\ UNCHANGED <<status, cal, broadcasting, told, diskVars, muddled>>

\* set_coefficients
SetCoefficients(t, c) ==
  /\ Idle(t)
  /\ cal' = c
  /\ Begin(t, [NoJob EXCEPT !.profile = [cal |-> c, total |-> 0], !.todo = <<"pushCal">>])
  /\ Overtakes("pushCal")
  /\ UNCHANGED <<status, setting, broadcasting, told, diskVars, outdated, muddled>>

\* get_coefficients, which applies the crystal if nothing has yet.
GetCoefficients(t) ==
  /\ Idle(t) /\ cal = None /\ setting.active # None
  /\ Begin(t, [NoJob EXCEPT !.todo = <<"reload">>])
  /\ UNCHANGED <<status, memVars, told, diskVars, raceVars>>

-----------------------------------------------------------------------------
(* Requests about profiles.  One that reads a profile that is not whole     *)
(* raises and changes nothing.                                              *)

Whole(n) == profiles[n] \in Profiles

BeginProfile(t, n, p, fresh, todo) ==
  Begin(t, [NoJob EXCEPT !.name = n, !.profile = p, !.fresh = fresh, !.todo = todo])

Apply == <<"apply", "pushCal">>
WriteProfile == <<"truncate", "fill">>

\* apply_crystal_form: the form's calibration, the profile's own total.
ApplyForm(t, n, c) ==
  /\ Idle(t)
  /\ \/ /\ Whole(n)
        /\ BeginProfile(t, n, [profiles[n] EXCEPT !.cal = c], FALSE,
                        WriteProfile \o Apply \o <<"activate">> \o Save)
     \/ /\ profiles[n] = Absent
        /\ BeginProfile(t, n, [cal |-> c, total |-> 0], TRUE,
                        WriteProfile \o Apply \o <<"activate">> \o Save)
  /\ TakesUp(n)
  /\ UNCHANGED <<status, memVars, told, diskVars, crossed, outdated>>

Activate(t, n) ==
  /\ Idle(t) /\ Whole(n)
  /\ BeginProfile(t, n, profiles[n], FALSE, Apply \o <<"activate">> \o Save)
  /\ UNCHANGED <<status, memVars, told, diskVars, raceVars>>

\* save_current_to_crystal
SaveCurrent(t, n) ==
  /\ Idle(t) /\ Whole(n)
  /\ BeginProfile(t, n, [profiles[n] EXCEPT !.cal = IF cal = None THEN @ ELSE cal], FALSE,
                  WriteProfile)
  /\ TakesUp(n)
  /\ UNCHANGED <<status, memVars, told, diskVars, crossed, outdated>>

\* Variant: no coefficients are stored as if they were some.
CalInForceUnset == cal

\* The coefficients a new profile starts with.
CalInForce == IF cal = None THEN Blank ELSE cal

\* create_crystal, also over a profile of that name.
Create(t, n) ==
  /\ Idle(t)
  /\ BeginProfile(t, n, [cal |-> CalInForce, total |-> 0], TRUE, WriteProfile)
  /\ TakesUp(n)
  /\ UNCHANGED <<status, memVars, told, diskVars, crossed, outdated>>

\* upload_crystal, on the event loop: between two events of the broadcaster.
\* The total is the one in the file that is uploaded.
Upload(n, p) ==
  /\ Idle(Loop) /\ p.total \in UploadTotals /\ p.total < MaxTotal
  /\ BeginProfile(Loop, n, p, TRUE, WriteProfile)
  /\ TakesUp(n)
  /\ UNCHANGED <<status, memVars, told, diskVars, crossed, outdated>>

\* delete_crystal: the file, then the settings that name it.
Delete(t, n) ==
  /\ Idle(t) /\ profiles[n] # Absent
  /\ profiles' = [profiles EXCEPT ![n] = Absent]
  /\ unsafe' = unsafe \ {n}
  /\ ledger' = [ledger EXCEPT ![n] = 0]
  /\ BeginProfile(t, n, None, FALSE, <<"forget">>)
  /\ TakesUp(n)
  /\ UNCHANGED <<status, memVars, told, file, tmp, crossed, outdated>>

-----------------------------------------------------------------------------
(* The broadcaster, at the end of a run: load, add, save. *)

\* Variant: what the run deposited replaces the total.
CreditedAnew(p) == [p EXCEPT !.total = 1]

Credited(p) == [p EXCEPT !.total = @ + 1]

FlushRun ==
  /\ Idle(Loop) /\ broadcasting
  /\ setting.active # None
  /\ LET n == setting.active
     IN  \/ /\ Whole(n) /\ profiles[n].total < MaxTotal
            /\ BeginProfile(Loop, n, Credited(profiles[n]), FALSE, WriteProfile)
            /\ TakesUp(n) /\ UNCHANGED broadcasting
         \/ /\ profiles[n] \in {Empty, Torn}   \* json.load raises: the task ends
            /\ broadcasting' = FALSE
            /\ UNCHANGED <<job, muddled>>
  /\ UNCHANGED <<status, setting, cal, told, diskVars, crossed, outdated>>

-----------------------------------------------------------------------------
(* The steps of a thread's list. *)

\* A thread that has nothing left to do has no job.
After(t, j) == job' = [job EXCEPT ![t] = IF j.todo = << >> THEN NoJob ELSE j]

Done(t) == After(t, [job[t] EXCEPT !.todo = Tail(@)])
Raises(t) == job' = [job EXCEPT ![t] = NoJob]

Push(t) ==
  /\ AtStep(t, "push")
  /\ told' = [told EXCEPT !.setting = job[t].value]
  /\ Done(t)
  /\ UNCHANGED <<status, memVars, diskVars, raceVars>>

\* The end of _enqueue_settings: the active crystal, if it can be read.
Reload(t) ==
  /\ AtStep(t, "reload")
  /\ LET n == setting.active
     IN  IF n = None \/ profiles[n] = Absent THEN Done(t)
         ELSE IF Whole(n)
         THEN Begin(t, [job[t] EXCEPT !.profile = profiles[n], !.todo = Apply \o Tail(@)])
         ELSE Raises(t)
  /\ UNCHANGED <<status, memVars, told, diskVars, raceVars>>

\* _apply_crystal
ApplyCal(t) ==
  /\ AtStep(t, "apply")
  /\ cal' = job[t].profile.cal
  /\ Done(t)
  /\ Overtakes("pushCal")
  /\ UNCHANGED <<status, setting, broadcasting, told, diskVars, outdated, muddled>>

PushCal(t) ==
  /\ AtStep(t, "pushCal")
  /\ told' = [told EXCEPT !.cal = job[t].profile.cal]
  /\ Done(t)
  /\ UNCHANGED <<status, memVars, diskVars, raceVars>>

SetActive(t) ==
  /\ AtStep(t, "activate")
  /\ setting' = [setting EXCEPT !.active = job[t].name]
  /\ Done(t)
  /\ Outdates(t)
  /\ UNCHANGED <<status, cal, broadcasting, told, diskVars, crossed, muddled>>

Forget(t) ==
  /\ AtStep(t, "forget")
  /\ IF setting.active = job[t].name
     THEN /\ setting' = [setting EXCEPT !.active = None] /\ Outdates(t)
          /\ Begin(t, [NoJob EXCEPT !.todo = Save])
     ELSE UNCHANGED <<setting, outdated>> /\ Raises(t)
  /\ UNCHANGED <<status, cal, broadcasting, told, diskVars, crossed, muddled>>

-----------------------------------------------------------------------------
(* Files.  A write at the start of a file that somebody else has written    *)
(* meanwhile leaves the end of a longer text behind the new one.            *)

Written(old, new) == IF old \in {Empty, new} THEN {new} ELSE {new, Torn}

\* CrystalManager.save, in place: open() cuts the file off...
Truncate(t) ==
  /\ AtStep(t, "truncate")
  /\ profiles' = [profiles EXCEPT ![job[t].name] = Empty]
  /\ unsafe' = unsafe \union {job[t].name}
  /\ Done(t)
  /\ UNCHANGED <<status, memVars, told, file, tmp, ledger, raceVars>>

\* ...and the profile is written into it, wherever it is by then.
Fill(t) ==
  /\ AtStep(t, "fill")
  /\ LET n == job[t].name
     IN  \/ /\ IF profiles[n] = Absent THEN UNCHANGED profiles
               ELSE \E p \in Written(profiles[n], job[t].profile) :
                      profiles' = [profiles EXCEPT ![n] = p]
            /\ ledger' = [ledger EXCEPT ![n] = IF job[t].fresh THEN job[t].profile.total
                                               ELSE IF t = Loop /\ @ < MaxTotal THEN @ + 1
                                               ELSE @]
            /\ Done(t)
            /\ UNCHANGED broadcasting
         \/ /\ CardFull
            /\ Raises(t)
            /\ broadcasting' = (broadcasting /\ (t = Loop => job[t].fresh))
            /\ UNCHANGED <<profiles, ledger>>
  /\ UNCHANGED <<status, setting, cal, told, file, tmp, unsafe, raceVars>>

Snapshot(t) ==
  /\ AtStep(t, "snapshot")
  /\ After(t, [job[t] EXCEPT !.copy = setting, !.todo = Tail(@)])
  /\ outdated' = OthersHaveCopies(t)
  /\ UNCHANGED <<status, memVars, told, diskVars, crossed, muddled>>

\* What becomes of the names of the files the others have open.
Renamed(from, to) == [t \in Ids |-> IF job[t].fd = from THEN [job[t] EXCEPT !.fd = to] ELSE job[t]]

\* Variant: the settings file itself is opened, and so cut off.
OpenInPlace(t) ==
  /\ AtStep(t, "open")
  /\ file' = Empty
  /\ After(t, [job[t] EXCEPT !.fd = "file", !.todo = Tail(@)])
  /\ UNCHANGED <<status, memVars, told, tmp, profiles, unsafe, ledger, raceVars>>

\* _write_json: one temporary file, whoever writes it.
OpenTmp(t) ==
  /\ AtStep(t, "open")
  /\ tmp' = Empty
  /\ After(t, [job[t] EXCEPT !.fd = "tmp", !.todo = Tail(@)])
  /\ UNCHANGED <<status, memVars, told, file, profiles, unsafe, ledger, raceVars>>

\* Written and on the card, under whatever name; or the card is full, and the
\* temporary file is removed.  Nobody is told.
WriteTmp(t) ==
  /\ AtStep(t, "write")
  /\ LET j == job[t]
     IN  \/ /\ CASE j.fd = "tmp"  -> tmp' \in Written(tmp, j.copy) /\ UNCHANGED file
                 [] j.fd = "file" -> file' \in Written(file, j.copy) /\ UNCHANGED tmp
                 [] OTHER -> UNCHANGED <<tmp, file>>
            /\ After(t, [j EXCEPT !.fd = "none", !.todo = Tail(@)])
         \/ /\ CardFull
            /\ tmp' = Absent
            /\ job' = [Renamed("tmp", "gone") EXCEPT ![t] = NoJob]
            /\ file' \in IF j.fd = "file" THEN {file, Torn} ELSE {file}
  /\ UNCHANGED <<status, memVars, told, profiles, unsafe, ledger, raceVars>>

\* os.replace: of whatever the name stands for by now.
Replace(t) ==
  /\ AtStep(t, "replace")
  /\ IF tmp = Absent
     THEN UNCHANGED <<file, tmp>> /\ Done(t)
     ELSE /\ file' = tmp /\ tmp' = Absent
          /\ job' = [[u \in Ids |->
                        CASE job[u].fd = "file" -> [job[u] EXCEPT !.fd = "gone"]
                          [] job[u].fd = "tmp"  -> [job[u] EXCEPT !.fd = "file"]
                          [] OTHER -> job[u]] EXCEPT ![t] = NoJob]
  /\ UNCHANGED <<status, memVars, told, profiles, unsafe, ledger, raceVars>>

\* The filesystem writes out a profile that nobody is writing, in its own time:
\* there is no fsync.
Writeback(n) ==
  /\ n \in unsafe /\ profiles[n] # Empty
  /\ unsafe' = unsafe \ {n}
  /\ UNCHANGED <<status, memVars, job, told, file, tmp, profiles, ledger, raceVars>>

-----------------------------------------------------------------------------
(* Stopping and starting. *)

\* What a boot finds in settings.json: anything that does not parse, or is not
\* there, leaves the defaults in force.
Loaded(text) == IF text \in Settings THEN text ELSE Defaults

\* RestServer.__init__: _load_settings, then _enqueue_settings, which raises on
\* an active profile that cannot be parsed; nothing catches it.
Boot ==
  /\ status # "up"
  /\ setting' = Loaded(file)
  /\ LET n == setting'.active
     IN  IF n = None \/ profiles[n] = Absent
         THEN status' = "up" /\ cal' = None
         ELSE IF Whole(n)
         THEN status' = "up" /\ cal' = profiles[n].cal
         ELSE status' = "failed" /\ cal' = None
  /\ told' = IF status' = "up" THEN [setting |-> setting'.pushed, cal |-> cal'] ELSE told
  /\ broadcasting' = (status' = "up")
  /\ UNCHANGED <<job, diskVars, raceVars>>

\* Everything in memory is gone; a restart of the service finds the files as
\* they read, a power cut may find a profile cut off.  A temporary file that is
\* left is cut off before it is used again.
Stop ==
  /\ status = "up"
  /\ status' = "off"
  /\ setting' = Defaults /\ cal' = None /\ broadcasting' = FALSE
  /\ job' = [t \in Ids |-> NoJob]
  /\ told' = [setting |-> None, cal |-> None]
  /\ tmp' = Absent
  /\ \E cut \in SUBSET unsafe :
       profiles' = [n \in Names |-> IF n \in cut THEN Empty ELSE profiles[n]]
  /\ ledger' = [n \in Names |-> IF profiles'[n] \in Profiles THEN profiles'[n].total ELSE 0]
  /\ unsafe' = {}
  /\ crossed' = {} /\ outdated' = FALSE /\ muddled' = {}
  /\ UNCHANGED file

-----------------------------------------------------------------------------

Request(t) ==
  \/ \E v \in Pushed : SetPushed(t, v)
  \/ \E v \in Kept : SetKept(t, v)
  \/ RestoreDefaults(t)
  \/ \E c \in Cals : SetCoefficients(t, c)
  \/ GetCoefficients(t)
  \/ \E n \in Names : \/ \E c \in Cals : ApplyForm(t, n, c)
                      \/ Activate(t, n) \/ SaveCurrent(t, n) \/ Create(t, n) \/ Delete(t, n)

Step(t) ==
  \/ Push(t) \/ Reload(t) \/ ApplyCal(t) \/ PushCal(t) \/ SetActive(t) \/ Forget(t)
  \/ Truncate(t) \/ Fill(t)
  \/ Snapshot(t) \/ OpenTmp(t) \/ WriteTmp(t) \/ Replace(t)

Next ==
  \/ \E t \in Threads : Request(t)
  \/ \E t \in Ids : Step(t)
  \/ \E n \in Names, p \in Profiles : Upload(n, p)
  \/ FlushRun
  \/ \E n \in Names : Writeback(n)
  \/ Boot \/ Stop

Spec == Init /\ [][Next]_vars

-----------------------------------------------------------------------------
(* What the store must guarantee. *)

\* The settings file only ever holds settings that were in force together: a
\* boot loads those stored last, and no failed write, full card or interrupted
\* save resets the instrument.  Only a request that comes between the copy and
\* the save of another may leave older ones in it, or none that can be read.
Durable == INSTANCE DurableSettings WITH
  Settings <- Settings, Defaults <- Defaults, Off <- None,
  inForce <- IF status = "up" THEN setting ELSE None,
  stored <- Loaded(file)

SettingsAreDurable == Durable!Spec

\* What is not on its way to the worker, the worker was sent last as the server
\* shows it, over restarts, restored defaults, crystals applied and changes that
\* half failed, unless it was set twice before it was sent once.
WorkerFollows ==
  status = "up" =>
    /\ "push" \in crossed \/ (\E t \in Ids : AtStep(t, "push")) \/ told.setting = setting.pushed
    /\ "pushCal" \in crossed \/ (\E t \in Ids : AtStep(t, "pushCal")) \/ told.cal = cal

\* The total of a crystal is the one it was created or uploaded with and each
\* run credited to it since, whatever else was written to its profile meanwhile,
\* unless it was taken up while somebody else was about to write it.
TotalsAddUp ==
  \A n \in Names \ muddled :
    Whole(n) /\ (\A t \in Ids : ~(WritesProfile(t) /\ job[t].name = n)) =>
      profiles[n].total = ledger[n]

\* The live readings do not end with a run, nor the service with a restart.
ServerKeepsServing == status # "failed" /\ (status = "up" => broadcasting)
=============================================================================
