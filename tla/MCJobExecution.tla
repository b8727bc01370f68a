--------------------------- MODULE MCJobExecution ---------------------------
(* JobExecution, for TLC.                                                  *)
EXTENDS JobExecution, TLC
=============================================================================
