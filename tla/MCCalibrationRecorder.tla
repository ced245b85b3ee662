----------------------- MODULE MCCalibrationRecorder -----------------------
(***************************************************************************)
(* The readings TLC offers CalibrationRecorder: two temperatures, a lock   *)
(* that drops, a sensor that reports a fault, a second without any.        *)
(***************************************************************************)
EXTENDS CalibrationRecorder

At(fT, sensor) == [bin |-> [fT |-> fT, locked |-> TRUE], sensor |-> sensor]

MCReadings ==
  {At(0, "good"), At(10, "good"),
   [bin |-> [fT |-> 10, locked |-> FALSE], sensor |-> "bad"],
   [bin |-> Nothing, sensor |-> Nothing]}

\* The window the recorder starts with, and a longer one that is held longer.
MCDefault == [window |-> 2, needed |-> 2, maxDrift |-> 5, hold |-> 0]
MCLonger == [window |-> 3, needed |-> 3, maxDrift |-> 5, hold |-> 1]
MCCriteria == {MCDefault, MCLonger}

\* It starts with the manual source; the operator picks the sensor, and with it
\* the longer window.  A change that is not saved is undone by a restart.
MCOffered == {[source |-> "sensor", auto |-> TRUE, criteria |-> MCLonger]}
=============================================================================
