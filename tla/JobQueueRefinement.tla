------------------------- MODULE JobQueueRefinement -------------------------
(***************************************************************************)
(* JobQueue implements JobLease.                                           *)
(***************************************************************************)
EXTENDS JobQueue

\* A claim is held by the worker whose snapshot carries the row's current token.
\* A worker that only has the dead-letter callback left works on no job.
LeaseOf(status) ==
    CASE status = "absent" -> "absent"
      [] status = "queued" -> "waiting"
      [] status = "processing" -> "held"
      [] OTHER -> "closed"

Lease == INSTANCE JobLease WITH
    jobs    <- [j \in Jobs |-> LeaseOf(rows[j].status)],
    holders <- [j \in Jobs |-> {w \in Workers : OwnsClaim(w) /\ workers[w].job = j}],
    busy    <- [w \in Workers |-> IF workers[w].pc = "notifying" THEN NoJob ELSE workers[w].job]

\* Every step of the queue, its workers, its recovery loops and of a crash is a
\* step of JobLease or changes nothing there: in particular the lock token makes
\* the holder unique and no stale worker closes or returns another's claim.
LeaseRefinement == Lease!LeaseSpec
=============================================================================
