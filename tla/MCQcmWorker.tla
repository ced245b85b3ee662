---------------------------- MODULE MCQcmWorker ----------------------------
(***************************************************************************)
(* What TLC's runs of QcmWorker add to it.  The constants are all given in *)
(* the .cfg files: two frequencies stand for "parked" and "a resonance",   *)
(* ages count in the shortest acquisition cycle, and each run sends only   *)
(* the groups of settings its properties depend on.                        *)
(***************************************************************************)
EXTENDS QcmWorker, TLC

\* Gains are only ever stored, compared and written to a register.
GainSymmetry == Permutations(Gains)
=============================================================================
