------------------------------ MODULE JobQueue ------------------------------
(***************************************************************************)
(* The durable PostgreSQL job queue (internal/jobqueue): the job_queue     *)
(* table, the worker loops that claim rows under a lock token, the claim   *)
(* heartbeat, the stale-claim recovery loop and the dead-letter callback.  *)
(*                                                                         *)
(* Every SQL statement or transaction is one atomic step.  The reply of a  *)
(* committed statement may be lost: the caller then sees an error although *)
(* the row changed.  The handler is opaque here: while it runs it may      *)
(* close its own claim in a transaction of its own, it may return nil, and *)
(* it may return an error (a recovered panic is an error).  JobExecution   *)
(* says what LabTether's handlers really do.                               *)
(*                                                                         *)
(* Wall-clock time enters through two booleans of a row: `due' stands for  *)
(* available_at <= now, `expired' for locked_at < now - staleClaimAt.      *)
(***************************************************************************)
EXTENDS Naturals

CONSTANTS
    Jobs,           \* identifiers idgen gives to enqueued jobs
    Workers,        \* worker loops: goroutines of Worker.Run
    Unhandled,      \* jobs whose kind has no registered handler
    AttemptLimits,  \* values SetMaxAttempts may configure
    NoJob           \* a worker that holds no job

ASSUME JobsAssumption ==
    /\ Unhandled \subseteq Jobs
    /\ NoJob \notin Jobs
    /\ AttemptLimits \subseteq Nat \ {0}
    /\ AttemptLimits # {}

VARIABLES
    rows,         \* the job_queue table
    maxAttempts,  \* Queue.maxAttempts, the limit given to new rows
    issued,       \* number of lock tokens idgen has generated
    workers,      \* local state of every worker loop
    recovered,    \* dead jobs a recovery loop has still to report
    notices       \* invocations of the dead-letter callback, per job

queueVars == <<rows, maxAttempts, issued, workers, recovered, notices>>

-----------------------------------------------------------------------------
(* Rows.                                                                   *)

NoToken == 0   \* lock_token IS NULL

RowStatus == {"absent", "queued", "processing", "completed", "dead_lettered", "purged"}

Closed == {"completed", "dead_lettered", "purged"}

Row == [status : RowStatus, attempts : Nat, max : Nat,
        due : BOOLEAN, expired : BOOLEAN, token : Nat]

AbsentRow == [status |-> "absent", attempts |-> 0, max |-> 0,
              due |-> FALSE, expired |-> FALSE, token |-> NoToken]

\* The row INSERTed by Enqueue.
NewRow(limit) == [status |-> "queued", attempts |-> 0, max |-> limit,
                  due |-> TRUE, expired |-> FALSE, token |-> NoToken]

\* The UPDATE of Claim.
ClaimRow(r, token) ==
    [r EXCEPT !.status = "processing", !.attempts = @ + 1,
              !.token = token, !.expired = FALSE]

\* Mutant of RetryRow: one delivery too many.
RetryRowOffByOne(r) ==
    [r EXCEPT !.status = IF r.attempts > r.max THEN "dead_lettered" ELSE "queued",
              !.due = FALSE, !.expired = FALSE, !.token = NoToken]

\* The UPDATE shared by Fail and RecoverStaleClaims: retry after a backoff, or
\* close the row once the attempts are used up.
RetryRow(r) ==
    [r EXCEPT !.status = IF r.attempts >= r.max THEN "dead_lettered" ELSE "queued",
              !.due = IF r.attempts >= r.max THEN @ ELSE FALSE,
              !.expired = FALSE, !.token = NoToken]

\* The UPDATE computes the delay as CAST(power(2, attempts - 1) AS int) before
\* LEAST(30, ...) bounds it: beyond 2^30 the cast leaves the 4-byte integers and
\* the statement is an error.
MaxBackoffExponent == 30

BackoffFits(r) == r.attempts >= r.max \/ r.attempts <= MaxBackoffExponent + 1

\* The UPDATE of Complete and of completeLockedJob.
CompleteRow(r) ==
    [r EXCEPT !.status = "completed", !.expired = FALSE, !.token = NoToken]

-----------------------------------------------------------------------------
(* Workers.                                                                *)

WorkerPC == {"idle", "handling", "failing", "completing", "notifying"}

\* `exhausted' is job.Attempts >= job.MaxAttempts in the worker's snapshot,
\* `completed' its job.Status = completed, `lost' a handler context cancelled
\* with ErrClaimLost by the heartbeat.
Worker == [pc : WorkerPC, job : Jobs \cup {NoJob}, token : Nat,
           exhausted : BOOLEAN, completed : BOOLEAN, lost : BOOLEAN]

IdleWorker == [pc |-> "idle", job |-> NoJob, token |-> NoToken,
               exhausted |-> FALSE, completed |-> FALSE, lost |-> FALSE]

\* processOneWithQueue after a successful Claim: run the handler, or fail the
\* job at once when its kind has none.
ClaimingWorker(j, r) ==
    [pc |-> IF j \in Unhandled THEN "failing" ELSE "handling",
     job |-> j, token |-> r.token, exhausted |-> r.attempts >= r.max,
     completed |-> FALSE, lost |-> FALSE]

\* The WHERE clause id = $1 AND status = 'processing' AND lock_token = $2.
OwnsClaim(w) ==
    /\ workers[w].job \in Jobs
    /\ rows[workers[w].job].status = "processing"
    /\ rows[workers[w].job].token = workers[w].token

Release(w) == workers' = [workers EXCEPT ![w] = IdleWorker]

GoTo(w, pc) == workers' = [workers EXCEPT ![w].pc = pc]

UpdateOwnRow(w, Update(_)) ==
    rows' = [rows EXCEPT ![workers[w].job] = Update(@)]

-----------------------------------------------------------------------------

Init ==
    /\ rows = [j \in Jobs |-> AbsentRow]
    /\ maxAttempts \in AttemptLimits
    /\ issued = 0
    /\ workers = [w \in Workers |-> IdleWorker]
    /\ recovered = [w \in Workers |-> {}]
    /\ notices = [j \in Jobs |-> 0]

\* Queue.SetMaxAttempts: affects rows inserted from now on.
SetMaxAttempts(limit) ==
    /\ maxAttempts' = limit
    /\ UNCHANGED <<rows, issued, workers, recovered, notices>>

\* Queue.Enqueue.  Workers also poll, so the NOTIFY has no state.
Enqueue(j) ==
    /\ rows[j].status = "absent"
    /\ rows' = [rows EXCEPT ![j] = NewRow(maxAttempts)]
    /\ UNCHANGED <<maxAttempts, issued, workers, recovered, notices>>

\* Time passes the available_at of a row waiting for its retry.
BackoffElapses(j) ==
    /\ rows[j].status = "queued"
    /\ ~rows[j].due
    /\ rows' = [rows EXCEPT ![j].due = TRUE]
    /\ UNCHANGED <<maxAttempts, issued, workers, recovered, notices>>

\* Mutant of ClaimStatement: every claim of a row gets the same token.
ClaimStatementSameToken(j) ==
    /\ rows[j].status = "queued"
    /\ rows[j].due
    /\ rows' = [rows EXCEPT ![j] = ClaimRow(@, 1)]
    /\ UNCHANGED <<maxAttempts, issued, recovered, notices>>

\* The statement of Queue.Claim.  SKIP LOCKED passes over rows that another
\* transaction holds, so any due row may be the one it picks.
ClaimStatement(j) ==
    /\ rows[j].status = "queued"
    /\ rows[j].due
    /\ issued' = issued + 1
    /\ rows' = [rows EXCEPT ![j] = ClaimRow(@, issued + 1)]
    /\ UNCHANGED <<maxAttempts, recovered, notices>>

\* An idle worker claims a row and learns its token.
Claim(w) ==
    /\ workers[w].pc = "idle"
    /\ \E j \in Jobs :
          /\ ClaimStatement(j)
          /\ workers' = [workers EXCEPT ![w] = ClaimingWorker(j, rows'[j])]

\* The claim commits but its reply is lost: the row is processing, nobody
\* holds its token.
ClaimReplyLost(w) ==
    /\ workers[w].pc = "idle"
    /\ \E j \in Jobs : ClaimStatement(j)
    /\ UNCHANGED workers

\* Time passes the lease of a claim that was not renewed.
ClaimExpires(j) ==
    /\ rows[j].status = "processing"
    /\ ~rows[j].expired
    /\ rows' = [rows EXCEPT ![j].expired = TRUE]
    /\ UNCHANGED <<maxAttempts, issued, workers, recovered, notices>>

\* Mutant of RenewClaim: a renewal that fails for any reason is a lost claim.
RenewClaimGivesUp(w) ==
    /\ workers[w].pc = "handling"
    /\ ~workers[w].lost
    /\ \/ /\ OwnsClaim(w)
          /\ rows' = [rows EXCEPT ![workers[w].job].expired = FALSE]
          /\ UNCHANGED workers
       \/ /\ workers' = [workers EXCEPT ![w].lost = TRUE]
          /\ UNCHANGED rows
    /\ UNCHANGED <<maxAttempts, issued, recovered, notices>>

\* The heartbeat goroutine: RenewClaim while the handler runs; ErrClaimLost
\* cancels the handler's context and ends the heartbeat.
RenewClaim(w) ==
    /\ workers[w].pc = "handling"
    /\ ~workers[w].lost
    /\ IF OwnsClaim(w)
       THEN /\ rows' = [rows EXCEPT ![workers[w].job].expired = FALSE]
            /\ UNCHANGED workers
       ELSE /\ workers' = [workers EXCEPT ![w].lost = TRUE]
            /\ UNCHANGED rows
    /\ UNCHANGED <<maxAttempts, issued, recovered, notices>>

\* The handler closes its claim in its own transaction; the local job is
\* marked completed only when the commit is acknowledged.
HandlerCloses(w) ==
    /\ workers[w].pc = "handling"
    /\ OwnsClaim(w)
    /\ UpdateOwnRow(w, CompleteRow)
    /\ \E acknowledged \in BOOLEAN :
          workers' = [workers EXCEPT ![w].completed = acknowledged]
    /\ UNCHANGED <<maxAttempts, issued, recovered, notices>>

\* The handler returns and the heartbeat stops.  An acknowledged completion or
\* a lost claim ends the job's processing here.
HandlerReturns(w, err) ==
    /\ workers[w].pc = "handling"
    /\ IF workers[w].completed \/ workers[w].lost
       THEN Release(w)
       ELSE GoTo(w, IF err THEN "failing" ELSE "completing")
    /\ UNCHANGED <<rows, maxAttempts, issued, recovered, notices>>

\* Queue.Fail commits, and the worker goes on to the dead-letter callback
\* when its snapshot says that this was the last attempt.
Fail(w) ==
    /\ workers[w].pc = "failing"
    /\ OwnsClaim(w)
    /\ BackoffFits(rows[workers[w].job])
    /\ UpdateOwnRow(w, RetryRow)
    /\ IF workers[w].exhausted THEN GoTo(w, "notifying") ELSE Release(w)
    /\ UNCHANGED <<maxAttempts, issued, recovered, notices>>

\* Mutant of FailReplyLost: the status is compared and the token is not.
FailReplyLostAnyToken(w) ==
    /\ workers[w].pc = "failing"
    /\ rows[workers[w].job].status = "processing"
    /\ UpdateOwnRow(w, RetryRow)
    /\ Release(w)
    /\ UNCHANGED <<maxAttempts, issued, recovered, notices>>

\* Queue.Fail commits but the worker is told of an error.
FailReplyLost(w) ==
    /\ workers[w].pc = "failing"
    /\ OwnsClaim(w)
    /\ BackoffFits(rows[workers[w].job])
    /\ UpdateOwnRow(w, RetryRow)
    /\ Release(w)
    /\ UNCHANGED <<maxAttempts, issued, recovered, notices>>

\* Queue.Complete commits; its result is only logged.
Complete(w) ==
    /\ workers[w].pc = "completing"
    /\ OwnsClaim(w)
    /\ UpdateOwnRow(w, CompleteRow)
    /\ Release(w)
    /\ UNCHANGED <<maxAttempts, issued, recovered, notices>>

\* Mutant of CloseFails: the dead letter is reported although Fail returned an
\* error.
CloseFailsReported(w) ==
    /\ workers[w].pc \in {"failing", "completing"}
    /\ IF workers[w].exhausted THEN GoTo(w, "notifying") ELSE Release(w)
    /\ UNCHANGED <<rows, maxAttempts, issued, recovered, notices>>

\* Fail or Complete without effect: ErrClaimLost, or a database error (a delay
\* that does not fit among them) that rolls the statement back.  The worker logs
\* it and claims the next job.
CloseFails(w) ==
    /\ workers[w].pc \in {"failing", "completing"}
    /\ Release(w)
    /\ UNCHANGED <<rows, maxAttempts, issued, recovered, notices>>

\* The dead-letter callback of the worker loop.
Notify(w) ==
    /\ workers[w].pc = "notifying"
    /\ notices' = [notices EXCEPT ![workers[w].job] = @ + 1]
    /\ Release(w)
    /\ UNCHANGED <<rows, maxAttempts, issued, recovered>>

\* Mutant of ExpiredRows: recovery looks only for rows it can requeue.
ExpiredRetriableRows ==
    {j \in Jobs : /\ rows[j].status = "processing" /\ rows[j].expired
                  /\ rows[j].attempts < rows[j].max}

ExpiredRows == {j \in Jobs : rows[j].status = "processing" /\ rows[j].expired}

\* One pass of RecoverStaleClaims over a batch S of expired claims: LIMIT and
\* SKIP LOCKED may leave some of them to a later pass.  One row that the UPDATE
\* fails on rolls the whole batch back.  A lost reply of the commit leaves the
\* dead jobs unreported.
Recover(w, S) ==
    /\ recovered[w] = {}
    /\ S # {}
    /\ \A j \in S : BackoffFits(rows[j])
    /\ rows' = [j \in Jobs |-> IF j \in S THEN RetryRow(rows[j]) ELSE rows[j]]
    /\ \E acknowledged \in BOOLEAN :
          recovered' = [recovered EXCEPT ![w] =
              IF acknowledged THEN {j \in S : rows'[j].status = "dead_lettered"} ELSE {}]
    /\ UNCHANGED <<maxAttempts, issued, workers, notices>>

\* handleRecoveredDeadJobs: the dead-letter callback of the recovery loop.
NotifyRecovered(w) ==
    /\ \E j \in recovered[w] :
          /\ notices' = [notices EXCEPT ![j] = @ + 1]
          /\ recovered' = [recovered EXCEPT ![w] = @ \ {j}]
    /\ UNCHANGED <<rows, maxAttempts, issued, workers>>

\* Queue.PurgeOldJobs on one old enough closed row.
PurgeOldJobs(j) ==
    /\ rows[j].status \in {"completed", "dead_lettered"}
    /\ rows' = [rows EXCEPT ![j].status = "purged"]
    /\ UNCHANGED <<maxAttempts, issued, workers, recovered, notices>>

\* The hub process stops: every goroutine disappears, the table stays.
Crash ==
    /\ workers' = [w \in Workers |-> IdleWorker]
    /\ recovered' = [w \in Workers |-> {}]
    /\ UNCHANGED <<rows, maxAttempts, issued, notices>>

-----------------------------------------------------------------------------

WorkerStep(w) ==
    \/ Claim(w)
    \/ ClaimReplyLost(w)
    \/ RenewClaim(w)
    \/ HandlerCloses(w)
    \/ \E err \in BOOLEAN : HandlerReturns(w, err)
    \/ Fail(w)
    \/ FailReplyLost(w)
    \/ Complete(w)
    \/ CloseFails(w)
    \/ Notify(w)
    \/ \E S \in SUBSET ExpiredRows : Recover(w, S)
    \/ NotifyRecovered(w)

JobStep(j) ==
    \/ Enqueue(j)
    \/ BackoffElapses(j)
    \/ ClaimExpires(j)
    \/ PurgeOldJobs(j)

Next ==
    \/ \E w \in Workers : WorkerStep(w)
    \/ \E j \in Jobs : JobStep(j)
    \/ \E limit \in AttemptLimits : SetMaxAttempts(limit)
    \/ Crash

Spec == Init /\ [][Next]_queueVars

(***************************************************************************)
(* Fairness.  Clocks advance; worker loops poll forever (restarted after a *)
(* crash); handlers return because every executor runs under a timeout;    *)
(* each recovery loop ticks every 30 s.  Nothing is assumed of heartbeats, *)
(* lost replies, crashes or purges.                                        *)
(***************************************************************************)
Fairness ==
    /\ \A j \in Jobs : WF_queueVars(BackoffElapses(j)) /\ WF_queueVars(ClaimExpires(j))
    /\ \A w \in Workers :
          /\ WF_queueVars(Claim(w) \/ ClaimReplyLost(w))
          /\ WF_queueVars(\E err \in BOOLEAN : HandlerReturns(w, err))
          /\ WF_queueVars(Fail(w) \/ FailReplyLost(w) \/ Complete(w) \/ CloseFails(w))
          /\ WF_queueVars(Notify(w))
          /\ WF_queueVars(NotifyRecovered(w))
          /\ WF_queueVars(\E S \in SUBSET ExpiredRows : Recover(w, S))

LiveSpec == Spec /\ Fairness

-----------------------------------------------------------------------------
(* Properties.                                                             *)

\* Every variable has its type.
TypeOK ==
    /\ rows \in [Jobs -> Row]
    /\ maxAttempts \in AttemptLimits
    /\ issued \in Nat
    /\ workers \in [Workers -> Worker]
    /\ recovered \in [Workers -> SUBSET Jobs]
    /\ notices \in [Jobs -> Nat]

\* The delivery budget: a row that can still be claimed has an attempt left, no
\* row is claimed more often than its max_attempts (Claim, Fail and
\* RecoverStaleClaims together), and a dead letter has used all of them.
BudgetRespected ==
    \A j \in Jobs :
        /\ rows[j].status = "queued" => rows[j].attempts < rows[j].max
        /\ rows[j].attempts <= rows[j].max
        /\ rows[j].status = "dead_lettered" => rows[j].attempts = rows[j].max

\* Fencing: of the workers that hold a snapshot of the same job, at most one
\* holds the row's current lock token, whatever expired, was recovered and was
\* claimed again in the meantime.
UniqueOwner ==
    \A v, w \in Workers :
        OwnsClaim(v) /\ OwnsClaim(w) /\ workers[v].job = workers[w].job => v = w

\* The dead-letter callback, invoked by worker loops and by recovery loops,
\* reports a job at most once, and only a job whose row was dead-lettered.
DeadLetterReportedOnce ==
    \A j \in Jobs :
        /\ notices[j] <= 1
        /\ notices[j] = 1 => rows[j].status \in {"dead_lettered", "purged"}

\* processOneWithQueue gives a job up, with neither Fail nor Complete, only when
\* there is nothing left to close: job.Status = completed is what the table says,
\* also when a renewal that raced the commit reported the claim lost, and a lost
\* claim is never, until the worker is done, a live claim under its own token.
DropsOnlyEndedClaims ==
    \A w \in Workers :
        /\ workers[w].completed => rows[workers[w].job].status \in {"completed", "purged"}
        /\ workers[w].lost => ~OwnsClaim(w)

\* A closed row is never reopened, claimed or given another verdict.
ClosedIsFinal ==
    [][\A j \in Jobs :
          rows[j].status \in Closed => rows'[j].status \in {rows[j].status, "purged"}]_queueVars

\* Every enqueued job is eventually completed or dead-lettered, although
\* replies are lost, leases expire and the process crashes: each claim uses up
\* an attempt, and a job out of attempts is set aside.
EveryJobCloses ==
    \A j \in Jobs : rows[j].status = "queued" ~> rows[j].status \in Closed
=============================================================================
