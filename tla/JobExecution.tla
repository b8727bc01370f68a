---------------------------- MODULE JobExecution ----------------------------
(***************************************************************************)
(* Claim-fenced execution of terminal commands, action runs and update     *)
(* runs: the API request that creates a business record and enqueues its   *)
(* job, the job handlers of internal/hubapi/worker, and the transactions   *)
(* of internal/persistence that move the queue row and the business record *)
(* together (BeginJobExecution, FinishJobExecution and the dead-letter     *)
(* finalizer FinalizeDeadJobInTransaction).                                *)
(*                                                                         *)
(* The state of JobQueue is part of this state and every step here is a    *)
(* JobQueue step or leaves the queue alone: the handler that is opaque     *)
(* there is spelled out here.  Job j has one business record, records[j].  *)
(* The three kinds differ in the table they use, not in their control.     *)
(***************************************************************************)
EXTENDS JobQueue

VARIABLES
    records,  \* status of the business record, with the reason it was given
    effects,  \* external effects started for a job (ghost)
    stages,   \* where each handler is, and the result it is about to write
    requests  \* the API request that submits each job

execVars == <<records, effects, stages, requests>>
vars == <<queueVars, execVars>>

-----------------------------------------------------------------------------

\* Results a handler hands to FinishJobExecution: what the executor reported,
\* or a failure that was decided before anything was executed (an active
\* maintenance window, a guardrail error, failed preparation).
Results == {"succeeded", "failed", "blocked"}

\* A final status together with the error text that explains it:
\*   interrupted     "previous execution attempt was interrupted; outcome unknown"
\*   not_executed    "queue retries exhausted before dispatch; work was not executed"
\*   enqueue_failed  "failed to enqueue"
Verdicts == Results \cup {"interrupted", "not_executed", "enqueue_failed"}

RecordStatus == {"absent", "queued", "running", "deleted"} \cup Verdicts

Stages == [at : {"none", "begin", "dispatch", "finish", "done", "error"},
           result : Results]

NoStage == [at |-> "none", result |-> "failed"]

EnterStage(w, at) == stages' = [stages EXCEPT ![w].at = at]

ExecInit ==
    /\ Init
    /\ records = [j \in Jobs |-> "absent"]
    /\ effects = [j \in Jobs |-> 0]
    /\ stages = [w \in Workers |-> NoStage]
    /\ requests = [j \in Jobs |-> "none"]

-----------------------------------------------------------------------------
(* The API request: create the record, enqueue the job, and on an error    *)
(* from Enqueue mark the record failed.                                    *)

\* CreateActionRun, AddCommand, CreateUpdateRun.
Submit(j) ==
    /\ requests[j] = "none"
    /\ records' = [records EXCEPT ![j] = "queued"]
    /\ requests' = [requests EXCEPT ![j] = "enqueueing"]
    /\ UNCHANGED <<queueVars, effects, stages>>

\* Enqueue under the request's context: the insert commits and is
\* acknowledged, or commits and is reported as an error.
SubmitEnqueue(j) ==
    /\ requests[j] = "enqueueing"
    /\ Enqueue(j)
    /\ \E acknowledged \in BOOLEAN :
          requests' = [requests EXCEPT ![j] = IF acknowledged THEN "answered" ELSE "rejecting"]
    /\ UNCHANGED <<records, effects, stages>>

\* Enqueue fails without inserting (so do a missing queue and a payload that
\* does not marshal).
SubmitEnqueueFails(j) ==
    /\ requests[j] = "enqueueing"
    /\ requests' = [requests EXCEPT ![j] = "rejecting"]
    /\ UNCHANGED <<queueVars, records, effects, stages>>

\* ApplyActionResult, UpdateCommandResult, ApplyUpdateResult with "failed":
\* the UPDATE names the record only, whatever its status; its own error is
\* ignored.
Reject(j) ==
    /\ requests[j] = "rejecting"
    /\ \/ records' = [records EXCEPT ![j] = IF @ = "deleted" THEN @ ELSE "enqueue_failed"]
       \/ UNCHANGED records
    /\ requests' = [requests EXCEPT ![j] = "answered"]
    /\ UNCHANGED <<queueVars, effects, stages>>

\* DeleteActionRun, DeleteUpdateRun, session deletion or retention removes the
\* record at any time.
DeleteRecord(j) ==
    /\ records[j] \notin {"absent", "deleted"}
    /\ records' = [records EXCEPT ![j] = "deleted"]
    /\ UNCHANGED <<queueVars, effects, stages, requests>>

-----------------------------------------------------------------------------
(* The handlers.                                                           *)

\* A claim starts the handler at beginExecution.
StartHandler(w) ==
    /\ Claim(w)
    /\ EnterStage(w, IF workers'[w].pc = "handling" THEN "begin" ELSE "none")
    /\ UNCHANGED <<records, effects, requests>>

InStage(w, at) == workers[w].pc = "handling" /\ stages[w].at = at

Job(w) == workers[w].job

\* Mutant of BeginDispatch: a redelivery of a running record is dispatched.
BeginDispatchAgain(w) ==
    /\ InStage(w, "begin")
    /\ OwnsClaim(w)
    /\ records[Job(w)] \in {"queued", "running"}
    /\ records' = [records EXCEPT ![Job(w)] = "running"]
    /\ \E acknowledged \in BOOLEAN : EnterStage(w, IF acknowledged THEN "dispatch" ELSE "error")
    /\ UNCHANGED <<queueVars, effects, requests>>

\* BeginJobExecution on a queued record: the dispatch marker is durable before
\* any external effect.  Without the acknowledgement the handler gives up.
BeginDispatch(w) ==
    /\ InStage(w, "begin")
    /\ OwnsClaim(w)
    /\ records[Job(w)] = "queued"
    /\ records' = [records EXCEPT ![Job(w)] = "running"]
    /\ \E acknowledged \in BOOLEAN : EnterStage(w, IF acknowledged THEN "dispatch" ELSE "error")
    /\ UNCHANGED <<queueVars, effects, requests>>

\* Mutant of BeginCloses: whatever is not queued counts as interrupted.
BeginClosesAll(w) ==
    /\ InStage(w, "begin")
    /\ records[Job(w)] \in {"running"} \cup Verdicts
    /\ HandlerCloses(w)
    /\ records' = [records EXCEPT ![Job(w)] = "interrupted"]
    /\ EnterStage(w, IF workers'[w].completed THEN "done" ELSE "error")
    /\ UNCHANGED <<effects, requests>>

\* BeginJobExecution on a record that is not queued: a running record belongs
\* to an interrupted attempt, a final one is left as it is; either way the
\* claim is completed in the same transaction and nothing is dispatched.
BeginCloses(w) ==
    /\ InStage(w, "begin")
    /\ records[Job(w)] \in {"running"} \cup Verdicts
    /\ HandlerCloses(w)
    /\ records' = [records EXCEPT ![Job(w)] = IF @ = "running" THEN "interrupted" ELSE @]
    /\ EnterStage(w, IF workers'[w].completed THEN "done" ELSE "error")
    /\ UNCHANGED <<effects, requests>>

\* BeginJobExecution fails: the claim is lost, the record is gone or does not
\* match the payload, or the transaction rolls back.  A payload that does not
\* decode fails in the same way.
BeginFails(w) ==
    /\ InStage(w, "begin")
    /\ EnterStage(w, "error")
    /\ UNCHANGED <<queueVars, records, effects, requests>>

\* The handler is about to act but decides on a failure first.
DispatchBlocked(w) ==
    /\ InStage(w, "dispatch")
    /\ stages' = [stages EXCEPT ![w] = [at |-> "finish", result |-> "blocked"]]
    /\ UNCHANGED <<queueVars, records, effects, requests>>

\* The external effect: the command, action or update is executed and reports
\* a status, or the executor panics after it started.
Dispatch(w) ==
    /\ InStage(w, "dispatch")
    /\ effects' = [effects EXCEPT ![Job(w)] = @ + 1]
    /\ \/ \E result \in Results \ {"blocked"} :
             stages' = [stages EXCEPT ![w] = [at |-> "finish", result |-> result]]
       \/ EnterStage(w, "error")
    /\ UNCHANGED <<queueVars, records, requests>>

\* Mutant of Finish: the result is written without locking the claim.
FinishUnfenced(w) ==
    /\ InStage(w, "finish")
    /\ records[Job(w)] = "running"
    /\ UpdateOwnRow(w, CompleteRow)
    /\ workers' = [workers EXCEPT ![w].completed = TRUE]
    /\ records' = [records EXCEPT ![Job(w)] = stages[w].result]
    /\ EnterStage(w, "done")
    /\ UNCHANGED <<maxAttempts, issued, recovered, notices, effects, requests>>

\* FinishJobExecution writes the result and completes the claim together.
Finish(w) ==
    /\ InStage(w, "finish")
    /\ records[Job(w)] = "running"
    /\ HandlerCloses(w)
    /\ records' = [records EXCEPT ![Job(w)] = stages[w].result]
    /\ EnterStage(w, IF workers'[w].completed THEN "done" ELSE "error")
    /\ UNCHANGED <<effects, requests>>

\* FinishJobExecution fails: claim lost, record gone or not running, rollback.
FinishFails(w) ==
    /\ InStage(w, "finish")
    /\ EnterStage(w, "error")
    /\ UNCHANGED <<queueVars, records, effects, requests>>

\* The handler returns: nil after an acknowledged completion, else an error.
\* Audit events, logs and broadcasts before the return change none of this state.
Return(w) ==
    /\ stages[w].at \in {"done", "error"}
    /\ HandlerReturns(w, stages[w].at = "error")
    /\ stages' = [stages EXCEPT ![w] = NoStage]
    /\ UNCHANGED <<records, effects, requests>>

-----------------------------------------------------------------------------
(* Dead letters.                                                           *)

\* Mutant of Finalize: a dead letter is taken for work that was never started.
FinalizeNotExecuted(status) ==
    IF status \in {"running", "queued"} THEN "not_executed" ELSE status

\* FinalizeDeadJobInTransaction on one record.
Finalize(status) ==
    CASE status = "running" -> "interrupted"
      [] status = "queued"  -> "not_executed"
      [] OTHER              -> status

\* Mutant of FinalizeDead: no finalizer is registered.
FinalizeNothing == UNCHANGED records

\* The finalizer runs in the transaction that dead-letters the row.
FinalizeDead ==
    records' = [j \in Jobs |->
        IF rows[j].status # "dead_lettered" /\ rows'[j].status = "dead_lettered"
        THEN Finalize(records[j]) ELSE records[j]]

FailAndFinalize(w) ==
    /\ Fail(w) \/ FailReplyLost(w)
    /\ FinalizeDead
    /\ UNCHANGED <<effects, stages, requests>>

RecoverAndFinalize(w) ==
    /\ \E S \in SUBSET ExpiredRows : Recover(w, S)
    /\ FinalizeDead
    /\ UNCHANGED <<effects, stages, requests>>

-----------------------------------------------------------------------------

\* Steps of the queue that touch no business record and no handler.  Complete is
\* not among them: these handlers return nil only in stage "done", after a
\* completion of their own was acknowledged, and the worker then skips it.
QueueOnly ==
    /\ \/ \E w \in Workers :
             \/ ClaimReplyLost(w)
             \/ RenewClaim(w)
             \/ CloseFails(w)
             \/ Notify(w)
             \/ NotifyRecovered(w)
       \/ \E j \in Jobs : BackoffElapses(j) \/ ClaimExpires(j) \/ PurgeOldJobs(j)
       \/ \E limit \in AttemptLimits : SetMaxAttempts(limit)
    /\ UNCHANGED execVars

\* The hub stops: handlers and the API requests in flight disappear.
HubCrash ==
    /\ Crash
    /\ stages' = [w \in Workers |-> NoStage]
    /\ requests' = [j \in Jobs |-> IF requests[j] = "none" THEN "none" ELSE "answered"]
    /\ UNCHANGED <<records, effects>>

HandlerStep(w) ==
    \/ StartHandler(w)
    \/ BeginDispatch(w)
    \/ BeginCloses(w)
    \/ BeginFails(w)
    \/ DispatchBlocked(w)
    \/ Dispatch(w)
    \/ Finish(w)
    \/ FinishFails(w)
    \/ Return(w)
    \/ FailAndFinalize(w)
    \/ RecoverAndFinalize(w)

RequestStep(j) ==
    \/ Submit(j)
    \/ SubmitEnqueue(j)
    \/ SubmitEnqueueFails(j)
    \/ Reject(j)
    \/ DeleteRecord(j)

ExecNext ==
    \/ \E w \in Workers : HandlerStep(w)
    \/ \E j \in Jobs : RequestStep(j)
    \/ QueueOnly
    \/ HubCrash

ExecSpec == ExecInit /\ [][ExecNext]_vars

\* The fairness of the queue, handler by handler: an executor runs under a
\* timeout, and so does every transaction.
ExecFairness ==
    /\ \A j \in Jobs : /\ WF_vars(BackoffElapses(j) /\ UNCHANGED execVars)
                       /\ WF_vars(ClaimExpires(j) /\ UNCHANGED execVars)
    /\ \A w \in Workers :
          /\ WF_vars(StartHandler(w))
          /\ WF_vars(BeginDispatch(w) \/ BeginCloses(w) \/ BeginFails(w))
          /\ WF_vars(Dispatch(w) \/ DispatchBlocked(w))
          /\ WF_vars(Finish(w) \/ FinishFails(w))
          /\ WF_vars(Return(w))
          /\ WF_vars(FailAndFinalize(w) \/ (CloseFails(w) /\ UNCHANGED execVars))
          /\ WF_vars(Notify(w) /\ UNCHANGED execVars)
          /\ WF_vars(NotifyRecovered(w) /\ UNCHANGED execVars)
          /\ WF_vars(RecoverAndFinalize(w))

ExecLiveSpec == ExecSpec /\ ExecFairness

-----------------------------------------------------------------------------
(* Properties.                                                             *)

\* Every variable of this module has its type.
ExecTypeOK ==
    /\ records \in [Jobs -> RecordStatus]
    /\ effects \in [Jobs -> Nat]
    /\ stages \in [Workers -> Stages]
    /\ requests \in [Jobs -> {"none", "enqueueing", "rejecting", "answered"}]

\* No command, action or update is executed twice, although its job may be
\* claimed several times, by several workers at once, and across crashes: the
\* dispatch marker of BeginJobExecution is never passed twice.
AtMostOneEffect == \A j \in Jobs : effects[j] <= 1

\* What a record says about the execution is true: nothing is executed while it
\* is queued, "work was not executed" and a maintenance block mean that it was
\* not and never will be, and a success was really executed.
VerdictTruthful ==
    \A j \in Jobs :
        /\ records[j] \in {"absent", "queued", "not_executed", "blocked"} =>
              effects[j] = 0 /\ \A w \in Workers : Job(w) = j => ~InStage(w, "dispatch")
        /\ records[j] = "succeeded" => effects[j] = 1

\* A queue row never closes (handler, Queue.Fail or stale recovery) while its
\* business record still says queued or running: no run hangs forever because
\* its job is gone.
ClosedJobHasVerdict ==
    \A j \in Jobs : rows[j].status \in Closed => records[j] \notin {"queued", "running"}

\* Once a record has a verdict neither a redelivery, a late worker, the
\* dead-letter finalizer nor stale recovery changes it.  (Reject, the API's own
\* report of an Enqueue error, is the one writer that may: see
\* EnqueueFailureMeansNotExecuted.)
VerdictIsFinal ==
    [][\A j \in Jobs :
          records[j] \in Verdicts =>
              \/ records'[j] \in {records[j], "deleted"}
              \/ requests[j] = "rejecting" /\ records'[j] = "enqueue_failed"]_vars

\* The handlers and their transactions only ever do to the queue what JobQueue
\* allows: the row is closed under the claim's token and nowhere else.
QueueRefinement == Spec

\* Every job that reaches the queue gives its record a verdict (or the record is
\* deleted), through lost replies, expired claims and crashes.
EveryRunSettles ==
    \A j \in Jobs : rows[j].status = "queued" ~> records[j] \in Verdicts \cup {"deleted"}

\* The record's message "failed to enqueue" says that the run was not started:
\* the handler that answers an Enqueue error assumes that no job exists.
EnqueueFailureMeansNotExecuted ==
    \A j \in Jobs : records[j] = "enqueue_failed" => effects[j] = 0
=============================================================================
