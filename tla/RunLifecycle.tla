---------------------------- MODULE RunLifecycle ----------------------------
(***************************************************************************)
(* What the QCM worker promises everything downstream of its state events  *)
(* (the REST server's run tracking, the PLC status, the front panel): when *)
(* a run begins, what it may pass through and when its log may be open.    *)
(* QcmWorker is shown to implement it.                                     *)
(***************************************************************************)
VARIABLES
  phase,   \* the worker state everyone sees
  run,     \* a run is in progress
  log      \* its log is open

lifecycleVars == <<phase, run, log>>

Phases == {"IDLE", "LOCKING", "MEASURING", "SWEEPING", "CAP_ADJUST"}

Init ==
  /\ phase = "IDLE"
  /\ run = FALSE
  /\ log = FALSE

\* A run begins from IDLE only, whether or not its log could be opened.
Begin ==
  /\ phase = "IDLE" /\ ~run
  /\ phase' = "MEASURING" /\ run' = TRUE
  /\ log' \in BOOLEAN

\* It ends, and its log with it, from wherever it is; a lock attempt in flight
\* carries on as one that belongs to no run.
End ==
  /\ run
  /\ run' = FALSE /\ log' = FALSE
  /\ phase' = IF phase = "MEASURING" THEN "IDLE" ELSE phase

\* A lock attempt may start anywhere and never begins or ends a run.
Acquire ==
  /\ phase' = "LOCKING"
  /\ log' \in {log, FALSE}
  /\ UNCHANGED run

\* However the attempt goes, it gives the run its measurement back.
Acquired ==
  /\ phase' = IF run THEN "MEASURING" ELSE "IDLE"
  /\ log' \in {log, FALSE}
  /\ UNCHANGED run

OpenLoop ==
  /\ ~run
  /\ \/ phase = "IDLE" /\ phase' \in {"SWEEPING", "CAP_ADJUST"}
     \/ phase = "CAP_ADJUST" /\ phase' = "IDLE"
  /\ UNCHANGED <<run, log>>

\* The log fails at any time, and is re-opened only while the run is measuring.
LogChanges ==
  /\ run
  /\ log' => phase = "MEASURING" \/ log
  /\ UNCHANGED <<phase, run>>

Next == Begin \/ End \/ Acquire \/ Acquired \/ OpenLoop \/ LogChanges

Spec == Init /\ [][Next]_lifecycleVars
=============================================================================
