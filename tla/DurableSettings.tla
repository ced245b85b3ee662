--------------------------- MODULE DurableSettings ---------------------------
(***************************************************************************)
(* What storing the settings is for: the settings in force, and those a    *)
(* restart puts in force.  It brings back settings that were in force as a *)
(* whole, never some of one moment and some of another, and never the      *)
(* defaults once there is something stored, as long as requests that store  *)
(* settings do not overlap.                                                *)
(***************************************************************************)
CONSTANTS
  Settings,   \* everything a settings file holds, at once
  Defaults,   \* those the software ships with
  Off         \* no settings are in force: the service is down

VARIABLES
  outdated,   \* the settings were set, or stored, in the middle of storing them
  inForce,
  stored      \* what a restart, or a power cut, brings back

vars == <<inForce, stored>>

Init == inForce = Off /\ stored = Defaults

Boot == inForce = Off /\ inForce' = stored /\ UNCHANGED stored

Change == inForce # Off /\ inForce' \in Settings /\ UNCHANGED stored

Store == inForce # Off /\ stored' = inForce /\ UNCHANGED inForce

\* Two requests that store settings at once may store any, or spoil the file.
StoreAtOnce == outdated /\ inForce # Off /\ stored' \in Settings /\ UNCHANGED inForce

Stop == inForce' = Off /\ UNCHANGED stored

Next == Boot \/ Change \/ Store \/ StoreAtOnce \/ Stop

Spec == Init /\ [][Next]_vars
=============================================================================
