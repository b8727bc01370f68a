----------------------------- MODULE MCJobQueue -----------------------------
(* JobQueue and its refinement of JobLease, for TLC.                       *)
EXTENDS JobQueueRefinement, TLC
=============================================================================
