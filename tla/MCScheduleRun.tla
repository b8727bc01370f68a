---------------------------- MODULE MCScheduleRun ----------------------------
(* Small instances of ScheduleRun for TLC.                                 *)
EXTENDS ScheduleRun, TLC

\* The code does not tell worker loops apart.
WorkerSymmetry == Permutations(Workers)
=============================================================================
