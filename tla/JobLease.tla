------------------------------ MODULE JobLease ------------------------------
(***************************************************************************)
(* What the job queue promises to the code that uses it: a job waits, is   *)
(* held under a claim, and is closed once.  At most one worker holds a     *)
(* claim; only the holder can close the job or hand it back, and a claim   *)
(* may be taken away from a worker that does not notice.  A job taken away *)
(* or handed back either waits again or is closed as a dead letter.        *)
(*                                                                         *)
(* JobQueue implements this specification (JobQueueRefinement).  Attempts, *)
(* tokens, backoff and the dead-letter callback are below this level, so a *)
(* job may be delivered here any number of times.                          *)
(***************************************************************************)
EXTENDS Naturals

CONSTANTS
    Jobs,
    Workers,
    NoJob     \* a worker that works on no job

ASSUME NoJobAssumption == NoJob \notin Jobs

VARIABLES
    jobs,     \* absent, waiting, held or closed
    holders,  \* workers that hold the current claim of a job
    busy      \* the job each worker works on, rightly or no longer

leaseVars == <<jobs, holders, busy>>

LeaseTypeOK ==
    /\ jobs \in [Jobs -> {"absent", "waiting", "held", "closed"}]
    /\ holders \in [Jobs -> SUBSET Workers]
    /\ busy \in [Workers -> Jobs \cup {NoJob}]

Holds(w) == busy[w] \in Jobs /\ w \in holders[busy[w]]

LeaseInit ==
    /\ jobs = [j \in Jobs |-> "absent"]
    /\ holders = [j \in Jobs |-> {}]
    /\ busy = [w \in Workers |-> NoJob]

\* A new job.
Submit(j) ==
    /\ jobs[j] = "absent"
    /\ jobs' = [jobs EXCEPT ![j] = "waiting"]
    /\ UNCHANGED <<holders, busy>>

\* A worker is given the claim of a waiting job.
Grant(w, j) ==
    /\ busy[w] = NoJob
    /\ jobs[j] = "waiting"
    /\ jobs' = [jobs EXCEPT ![j] = "held"]
    /\ holders' = [holders EXCEPT ![j] = {w}]
    /\ busy' = [busy EXCEPT ![w] = j]

\* A claim is made whose reply nobody receives.
GrantLost(j) ==
    /\ jobs[j] = "waiting"
    /\ jobs' = [jobs EXCEPT ![j] = "held"]
    /\ UNCHANGED <<holders, busy>>

\* The holder closes its job, and goes on with what it was doing or is done.
Close(w) ==
    /\ Holds(w)
    /\ jobs' = [jobs EXCEPT ![busy[w]] = "closed"]
    /\ holders' = [holders EXCEPT ![busy[w]] = {}]
    /\ busy' \in {busy, [busy EXCEPT ![w] = NoJob]}

\* The holder hands its job back: for another delivery, or as a dead letter.
GiveBack(w, outcome) ==
    /\ Holds(w)
    /\ jobs' = [jobs EXCEPT ![busy[w]] = outcome]
    /\ holders' = [holders EXCEPT ![busy[w]] = {}]
    /\ busy' = [busy EXCEPT ![w] = NoJob]

\* A worker turns to something else; a claim it still held is left behind.
Leave(w) ==
    /\ busy[w] # NoJob
    /\ holders' = [j \in Jobs |-> holders[j] \ {w}]
    /\ busy' = [busy EXCEPT ![w] = NoJob]
    /\ UNCHANGED jobs

\* Held claims S are taken away, whoever holds them; those in dead for good.
TakeAway(S, dead) ==
    /\ S # {}
    /\ S \subseteq {j \in Jobs : jobs[j] = "held"}
    /\ dead \subseteq S
    /\ jobs' = [j \in Jobs |-> CASE j \in dead -> "closed"
                                 [] j \in S \ dead -> "waiting"
                                 [] OTHER -> jobs[j]]
    /\ holders' = [j \in Jobs |-> IF j \in S THEN {} ELSE holders[j]]
    /\ UNCHANGED busy

\* All workers stop at once.
StopAll ==
    /\ holders' = [j \in Jobs |-> {}]
    /\ busy' = [w \in Workers |-> NoJob]
    /\ UNCHANGED jobs

LeaseNext ==
    \/ \E j \in Jobs : Submit(j) \/ GrantLost(j)
    \/ \E w \in Workers :
          \/ \E j \in Jobs : Grant(w, j)
          \/ Close(w)
          \/ \E outcome \in {"waiting", "closed"} : GiveBack(w, outcome)
          \/ Leave(w)
    \/ \E S \in SUBSET Jobs : \E dead \in SUBSET S : TakeAway(S, dead)
    \/ StopAll

LeaseSpec == LeaseInit /\ [][LeaseNext]_leaseVars
=============================================================================
