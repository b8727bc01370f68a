----------------------------- MODULE ScheduleRun -----------------------------
(***************************************************************************)
(* One scheduled task: the scheduler pass that claims its due occurrences  *)
(* (internal/hubapi/schedulespkg/runtime.go), the API requests that pause, *)
(* resume, edit and delete it while that goes on, and the job handler that *)
(* runs a claimed occurrence on its targets (hubapi/worker/                *)
(* schedule_job_handler.go) under the claim-fenced transactions of         *)
(* internal/persistence.                                                   *)
(*                                                                         *)
(* An occurrence is identified by its due time: ExecutionJobID derives the *)
(* queue job's id from the schedule and that time, so a job of the queue   *)
(* is a time here.  The schedule is due at every tick of the clock.        *)
(*                                                                         *)
(* The queue is used through what it promises, JobLease, which JobQueue    *)
(* implements: a claim may be taken away at any time, and a job may be     *)
(* delivered any number of times.                                          *)
(***************************************************************************)
EXTENDS JobLease

CONSTANTS
    Horizon,     \* last value of the clock (a bound of the model)
    Targets,     \* assets the schedule resolves to
    Schedulers,  \* scheduler loops: one per running hub
    Editors,     \* API requests that may be in flight together
    Changes      \* what a PATCH may ask for: enabled = false, enabled = true
                 \* or a new cron expression (other fields change no state here)

ASSUME ScheduleAssumption ==
    /\ Horizon \in Nat \ {0}
    /\ Jobs = 1..Horizon
    /\ Changes \subseteq {"pause", "resume", "cron"}

VARIABLES
    clock,
    schedule,   \* the row of scheduled_tasks
    scans,      \* what each scheduler pass read and has not acted on yet
    edits,      \* PATCH requests between their read and their write
    children,   \* action_runs of each occurrence and target
    commands,   \* commands sent for each occurrence and target (ghost)
    stages,     \* where each schedule job handler is
    threads     \* its goroutines, one per target

scheduleVars == <<clock, schedule, scans, edits, children, commands, stages, threads>>
vars == <<leaseVars, scheduleVars>>

-----------------------------------------------------------------------------

Never == 0   \* next_run_at IS NULL

ChildResults == {"succeeded", "failed"}
RunResults == {"succeeded", "partial", "blocked", "failed"}

\* last_run_status; interrupted and not_executed are its value 'failed' with
\* the error texts "outcome unknown" and "work was not executed".
RunStatus == {"", "queued", "running", "cancelled", "invalid", "skipped",
              "interrupted", "not_executed"} \cup RunResults

Unfinished == {"queued", "running"}

Schedule == [exists : BOOLEAN, enabled : BOOLEAN, cronValid : BOOLEAN,
             next : Nat, status : RunStatus, job : Jobs \cup {NoJob}]

\* cron.NextRun: the first occurrence strictly after t.
NextRun(t) == t + 1

NoScan == [at |-> Never, due |-> Never, cronValid |-> TRUE, active |-> FALSE]

NoEdit == [change |-> "none", set |-> FALSE, next |-> Never]

NoStage == [at |-> "none", result |-> "failed"]

IdleThreads == [t \in Targets |-> "idle"]

\* Rows written before automatic execution existed have no next_run_at and may
\* hold a cron expression that does not parse; new rows have both.
ScheduleInit ==
    /\ LeaseInit
    /\ clock = 0
    /\ schedule \in [exists : {TRUE}, enabled : BOOLEAN, cronValid : BOOLEAN,
                     next : {Never}, status : {""}, job : {NoJob}]
                    \cup
                    [exists : {TRUE}, enabled : {TRUE}, cronValid : {TRUE},
                     next : {NextRun(0)}, status : {""}, job : {NoJob}]
    /\ scans = [s \in Schedulers |-> NoScan]
    /\ edits = [e \in Editors |-> NoEdit]
    /\ children = [o \in Jobs \X Targets |-> "absent"]
    /\ commands = [o \in Jobs \X Targets |-> 0]
    /\ stages = [w \in Workers |-> NoStage]
    /\ threads = [w \in Workers |-> IdleThreads]

Tick ==
    /\ clock < Horizon
    /\ clock' = clock + 1
    /\ UNCHANGED <<leaseVars, schedule, scans, edits, children, commands, stages, threads>>

-----------------------------------------------------------------------------
(* The scheduler.                                                          *)

\* ListScheduledTasksForEvaluation: an enabled row that is due or has no
\* next_run_at yet.
Scan(s) ==
    /\ ~scans[s].active
    /\ schedule.exists /\ schedule.enabled
    /\ schedule.next <= clock
    /\ scans' = [scans EXCEPT ![s] = [at |-> clock, due |-> schedule.next,
                                      cronValid |-> schedule.cronValid, active |-> TRUE]]
    /\ UNCHANGED <<leaseVars, clock, schedule, edits, children, commands, stages, threads>>

EndScan(s) ==
    /\ scans' = [scans EXCEPT ![s] = NoScan]
    /\ UNCHANGED <<clock, edits, children, commands, stages, threads>>

\* MarkScheduledTaskInvalid, for a snapshot whose cron expression did not parse.
MarkInvalid(s) ==
    /\ scans[s].active /\ ~scans[s].cronValid
    /\ schedule' = IF schedule.exists
                   THEN [schedule EXCEPT !.enabled = FALSE, !.next = Never, !.status = "invalid"]
                   ELSE schedule
    /\ EndScan(s)
    /\ UNCHANGED leaseVars

\* InitializeScheduledTaskNextRun, for a snapshot without next_run_at.
InitializeNextRun(s) ==
    /\ scans[s].active /\ scans[s].cronValid /\ scans[s].due = Never
    /\ schedule' = IF schedule.exists /\ schedule.enabled /\ schedule.next = Never
                   THEN [schedule EXCEPT !.next = NextRun(scans[s].at)]
                   ELSE schedule
    /\ EndScan(s)
    /\ UNCHANGED leaseVars

DueScan(s) == scans[s].active /\ scans[s].cronValid /\ scans[s].due # Never

\* The WHERE clause of ClaimScheduledTaskExecution.
Claimable(due) ==
    /\ schedule.exists /\ schedule.enabled
    /\ schedule.next = due
    /\ schedule.status \notin Unfinished

\* ClaimScheduledTaskExecution advances the schedule and inserts the job of the
\* occurrence in one transaction.
ClaimOccurrence(s) ==
    /\ DueScan(s)
    /\ Claimable(scans[s].due)
    /\ Submit(scans[s].due)
    /\ schedule' = [schedule EXCEPT !.next = NextRun(scans[s].at),
                                    !.status = "queued", !.job = scans[s].due]
    /\ EndScan(s)

\* The claim changes nothing: the compare-and-swap misses, or the insert meets
\* the primary key of a job that exists and the transaction rolls back.
ClaimMisses(s) ==
    /\ DueScan(s)
    /\ ~Claimable(scans[s].due) \/ jobs[scans[s].due] # "absent"
    /\ EndScan(s)
    /\ UNCHANGED <<leaseVars, schedule>>

-----------------------------------------------------------------------------
(* The API.                                                                *)

\* V2UpdateSchedule reads the row, decides whether next_run_at is written and
\* computes its value.
EditRead(e, change) ==
    /\ edits[e].change = "none"
    /\ schedule.exists
    /\ LET enabled == CASE change = "pause" -> FALSE
                        [] change = "resume" -> TRUE
                        [] OTHER -> schedule.enabled
           set == change = "cron" \/ enabled # schedule.enabled
       IN  /\ set /\ enabled => change = "cron" \/ schedule.cronValid
           /\ edits' = [edits EXCEPT ![e] =
                  [change |-> change, set |-> set,
                   next |-> IF set /\ enabled THEN NextRun(clock) ELSE Never]]
    /\ UNCHANGED <<leaseVars, clock, schedule, scans, children, commands, stages, threads>>

\* Mutant of UpdatedSchedule: pausing lets a running occurrence go on.
UpdatedScheduleRunning(edit) ==
    LET cancelled == edit.change = "pause" /\ schedule.status = "queued"
    IN  [schedule EXCEPT
            !.enabled = CASE edit.change = "pause" -> FALSE
                          [] edit.change = "resume" -> TRUE
                          [] OTHER -> @,
            !.cronValid = @ \/ edit.change = "cron",
            !.next = IF edit.set THEN edit.next ELSE @,
            !.status = IF cancelled THEN "cancelled" ELSE @,
            !.job = IF cancelled THEN NoJob ELSE @]

\* UpdateScheduledTask: one UPDATE by id.  Pausing cancels an occurrence that
\* has not finished.
UpdatedSchedule(edit) ==
    LET cancelled == edit.change = "pause" /\ schedule.status \in Unfinished
    IN  [schedule EXCEPT
            !.enabled = CASE edit.change = "pause" -> FALSE
                          [] edit.change = "resume" -> TRUE
                          [] OTHER -> @,
            !.cronValid = @ \/ edit.change = "cron",
            !.next = IF edit.set THEN edit.next ELSE @,
            !.status = IF cancelled THEN "cancelled" ELSE @,
            !.job = IF cancelled THEN NoJob ELSE @]

EditWrite(e) ==
    /\ edits[e].change # "none"
    /\ schedule' = IF schedule.exists THEN UpdatedSchedule(edits[e]) ELSE schedule
    /\ edits' = [edits EXCEPT ![e] = NoEdit]
    /\ UNCHANGED <<leaseVars, clock, scans, children, commands, stages, threads>>

\* V2DeleteSchedule.
DeleteSchedule ==
    /\ schedule.exists
    /\ schedule' = [exists |-> FALSE, enabled |-> FALSE, cronValid |-> FALSE,
                    next |-> Never, status |-> "", job |-> NoJob]
    /\ UNCHANGED <<leaseVars, clock, scans, edits, children, commands, stages, threads>>

-----------------------------------------------------------------------------
(* The business record of an occurrence, as lockJobBusiness sees it.       *)

\* Mutant of Superseded: only a deleted schedule supersedes its occurrence.
SupersededDeleted(j) == ~schedule.exists

Superseded(j) == ~schedule.exists \/ schedule.job # j

OwnerStatus(j) ==
    CASE Superseded(j) -> "superseded"
      [] ~Superseded(j) /\ ~schedule.enabled /\ schedule.status = "queued" -> "disabled"
      [] OTHER -> schedule.status

\* Mutant of ClosedChildren: the status of a child is not looked at.
ClosedChildrenAll(S) ==
    [o \in DOMAIN children |->
        IF o[1] \in S /\ children[o] # "absent" THEN "interrupted" ELSE children[o]]

\* closeInterruptedScheduleChildren for the occurrences in S.
ClosedChildren(S) ==
    [o \in DOMAIN children |->
        IF o[1] \in S /\ children[o] = "running" THEN "interrupted" ELSE children[o]]

\* writeResult: the surviving children are closed with the occurrence.
WriteResult(j, result) ==
    /\ schedule' = [schedule EXCEPT !.status = result]
    /\ children' = ClosedChildren({j})

\* Mutant of CloseSuperseded: nothing is left to write for it.
CloseSupersededOnly(j) == UNCHANGED <<children, schedule>>

\* A superseded occurrence closes its children and leaves the schedule to its
\* successor.
CloseSuperseded(j) ==
    /\ children' = ClosedChildren({j})
    /\ UNCHANGED schedule

LeaveRecords == UNCHANGED <<schedule, children>>

-----------------------------------------------------------------------------
(* The handler.                                                            *)

Job(w) == busy[w]

InStage(w, at) == stages[w].at = at

EnterStage(w, at, result) == stages' = [stages EXCEPT ![w] = [at |-> at, result |-> result]]

\* The handler returns an error.
EnterError(w) == EnterStage(w, "error", "failed")

\* The claim is completed in the transaction of this step: the handler returns
\* nil, or takes it for an error because the reply of the commit is lost.
CloseClaim(w) ==
    /\ Close(w)
    /\ IF busy'[w] = NoJob THEN stages' = [stages EXCEPT ![w] = NoStage] ELSE EnterError(w)

\* A job is claimed and resolveScheduleExecutionTargets, which reads nothing that
\* is modelled here, finds targets, a definition error that becomes the result of
\* the occurrence, or a lookup error that is retried.
StartHandler(w) ==
    /\ \E j \in Jobs : Grant(w, j)
    /\ \/ \E result \in ChildResults : EnterStage(w, "begin", result)
       \/ EnterError(w)
    /\ UNCHANGED <<clock, schedule, scans, edits, children, commands, threads>>

\* BeginJobExecution on a queued occurrence.
BeginDispatch(w) ==
    /\ InStage(w, "begin")
    /\ Holds(w)
    /\ OwnerStatus(Job(w)) = "queued"
    /\ schedule' = [schedule EXCEPT !.status = "running"]
    /\ \E acknowledged \in BOOLEAN :
          IF acknowledged /\ stages[w].result = "succeeded"
          THEN /\ EnterStage(w, "run", "failed")
               /\ threads' = [threads EXCEPT ![w] = [t \in Targets |-> "start"]]
          ELSE /\ EnterStage(w, IF acknowledged THEN "finish" ELSE "error", "failed")
               /\ UNCHANGED threads
    /\ UNCHANGED <<leaseVars, clock, scans, edits, children, commands>>

\* BeginJobExecution on any other occurrence: its record is closed as its
\* status demands and the claim is completed in the same transaction.
BeginCloses(w) ==
    /\ InStage(w, "begin")
    /\ CloseClaim(w)
    /\ LET status == OwnerStatus(Job(w)) IN
          \/ status = "superseded" /\ CloseSuperseded(Job(w))
          \/ status = "running" /\ WriteResult(Job(w), "interrupted")
          \/ status = "disabled" /\ WriteResult(Job(w), "skipped")
          \/ status \notin {"superseded", "running", "disabled", "queued"} /\ LeaveRecords
    /\ UNCHANGED <<clock, scans, edits, commands, threads>>

ThreadAt(w, t, at) == InStage(w, "run") /\ threads[w][t] = at

ThreadTo(w, t, at) == threads' = [threads EXCEPT ![w][t] = at]

\* A target that is not started: authorization, policy or guardrails say no,
\* the run's context is cancelled, or StartScheduledAction fails.
SkipTarget(w, t) ==
    /\ ThreadAt(w, t, "start")
    /\ \E result \in {"failed", "blocked"} : ThreadTo(w, t, result)
    /\ UNCHANGED <<leaseVars, clock, schedule, scans, edits, children, commands, stages>>

\* StartScheduledAction: the durable child record, under the claim's row lock.
StartScheduledAction(w, t) ==
    /\ ThreadAt(w, t, "start")
    /\ Holds(w)
    /\ OwnerStatus(Job(w)) = "running"
    /\ children[<<Job(w), t>>] = "absent"
    /\ children' = [children EXCEPT ![<<Job(w), t>>] = "running"]
    /\ \E acknowledged \in BOOLEAN : ThreadTo(w, t, IF acknowledged THEN "send" ELSE "failed")
    /\ UNCHANGED <<leaseVars, clock, schedule, scans, edits, commands, stages>>

\* Mutant of SendCommand: a failed command is sent again.
SendCommandAgain(w, t) ==
    /\ ThreadAt(w, t, "send")
    /\ commands' = [commands EXCEPT ![<<Job(w), t>>] = @ + 1]
    /\ \E at \in {"report_succeeded", "send"} : ThreadTo(w, t, at)
    /\ UNCHANGED <<leaseVars, clock, schedule, scans, edits, children, stages>>

\* The command goes to the agent and reports a status, or the agent is not
\* connected and the command fails unsent.
SendCommand(w, t) ==
    /\ ThreadAt(w, t, "send")
    /\ \/ /\ commands' = [commands EXCEPT ![<<Job(w), t>>] = @ + 1]
          /\ \E at \in {"report_succeeded", "report_failed"} : ThreadTo(w, t, at)
       \/ ThreadTo(w, t, "report_failed") /\ UNCHANGED commands
    /\ UNCHANGED <<leaseVars, clock, schedule, scans, edits, children, stages>>

\* FinishScheduledAction: a superseded occurrence may still record what its
\* children did.
FinishScheduledAction(w, t) ==
    /\ \E result \in ChildResults :
          /\ ThreadAt(w, t, IF result = "succeeded" THEN "report_succeeded" ELSE "report_failed")
          /\ Holds(w)
          /\ OwnerStatus(Job(w)) \in {"running", "superseded"}
          /\ children[<<Job(w), t>>] = "running"
          /\ children' = [children EXCEPT ![<<Job(w), t>>] = result]
          /\ \E acknowledged \in BOOLEAN : ThreadTo(w, t, IF acknowledged THEN result ELSE "failed")
    /\ UNCHANGED <<leaseVars, clock, schedule, scans, edits, commands, stages>>

\* FinishScheduledAction fails: the outcome is not persisted.
ReportFails(w, t) ==
    /\ ThreadAt(w, t, "report_succeeded") \/ ThreadAt(w, t, "report_failed")
    /\ ThreadTo(w, t, "failed")
    /\ UNCHANGED <<leaseVars, clock, schedule, scans, edits, children, commands, stages>>

\* Mutant of Aggregate: a run without a success counts as blocked.
AggregateBlocked(results) ==
    CASE results = {"succeeded"} -> "succeeded"
      [] "succeeded" \in results /\ results # {"succeeded"} -> "partial"
      [] OTHER -> "blocked"

\* The occurrence's status from the results of its targets.
Aggregate(results) ==
    CASE results = {"succeeded"} -> "succeeded"
      [] results = {"blocked"} -> "blocked"
      [] "succeeded" \in results /\ results # {"succeeded"} -> "partial"
      [] OTHER -> "failed"

\* wg.Wait returns.
Ended(w) ==
    /\ InStage(w, "run")
    /\ \A t \in Targets : threads[w][t] \in ChildResults \cup {"blocked"}

\* The result of the run: failed for a definition error, or for a context that
\* was cancelled or timed out.
Outcomes(w) ==
    IF InStage(w, "finish") THEN {"failed"}
    ELSE {Aggregate({threads[w][t] : t \in Targets}), "failed"}

\* FinishJobExecution.
Finish(w) ==
    /\ InStage(w, "finish") \/ Ended(w)
    /\ CloseClaim(w)
    /\ \/ Superseded(Job(w)) /\ CloseSuperseded(Job(w))
       \/ /\ OwnerStatus(Job(w)) = "running"
          /\ \E result \in Outcomes(w) : WriteResult(Job(w), result)
    /\ threads' = [threads EXCEPT ![w] = IdleThreads]
    /\ UNCHANGED <<clock, scans, edits, commands>>

\* BeginJobExecution or FinishJobExecution fails: claim lost, rollback, or a
\* finished occurrence that is no longer running.
StoreFails(w) ==
    /\ InStage(w, "begin") \/ InStage(w, "finish") \/ Ended(w)
    /\ EnterError(w)
    /\ threads' = [threads EXCEPT ![w] = IdleThreads]
    /\ UNCHANGED <<leaseVars, clock, schedule, scans, edits, children, commands>>

\* The claim is lost, or Queue.Fail reports an error without effect: the worker
\* turns to the next job.
Return(w) ==
    /\ stages[w].at = "error"
    /\ Leave(w)
    /\ stages' = [stages EXCEPT ![w] = NoStage]
    /\ UNCHANGED <<clock, schedule, scans, edits, children, commands, threads>>

-----------------------------------------------------------------------------
(* Dead letters.                                                           *)

\* Mutant of FinalizeDead: the children are closed, the schedule is not.
FinalizeDeadChildren(dead) ==
    /\ children' = ClosedChildren(dead)
    /\ UNCHANGED schedule

\* FinalizeDeadJobInTransaction for the jobs in dead, in the transaction that
\* dead-letters their rows.
FinalizeDead(dead) ==
    LET open == {j \in dead : OwnerStatus(j) \in {"superseded", "disabled", "running", "queued"}}
        verdict == [disabled |-> "skipped", running |-> "interrupted", queued |-> "not_executed"]
        current == schedule.job
    IN  /\ children' = ClosedChildren(open)
        /\ schedule' = IF current \in open /\ OwnerStatus(current) # "superseded"
                       THEN [schedule EXCEPT !.status = verdict[OwnerStatus(current)]]
                       ELSE schedule

\* The handler returned an error and Queue.Fail commits.
FailAndFinalize(w) ==
    /\ stages[w].at = "error"
    /\ \E dead \in SUBSET {Job(w)} :
          /\ GiveBack(w, IF dead = {} THEN "waiting" ELSE "closed")
          /\ FinalizeDead(dead)
    /\ stages' = [stages EXCEPT ![w] = NoStage]
    /\ UNCHANGED <<clock, scans, edits, commands, threads>>

\* A pass of RecoverStaleClaims.
RecoverAndFinalize ==
    /\ \E S \in SUBSET Jobs : \E dead \in SUBSET S :
          TakeAway(S, dead) /\ FinalizeDead(dead)
    /\ UNCHANGED <<clock, scans, edits, commands, stages, threads>>

-----------------------------------------------------------------------------

\* A claim that nobody learns of touches nothing else.
ClaimLost == (\E j \in Jobs : GrantLost(j)) /\ UNCHANGED scheduleVars

\* The hub stops: its loops, handlers and requests disappear.
HubCrash ==
    /\ StopAll
    /\ scans' = [s \in Schedulers |-> NoScan]
    /\ edits' = [e \in Editors |-> NoEdit]
    /\ stages' = [w \in Workers |-> NoStage]
    /\ threads' = [w \in Workers |-> IdleThreads]
    /\ UNCHANGED <<clock, schedule, children, commands>>

SchedulerStep(s) ==
    Scan(s) \/ MarkInvalid(s) \/ InitializeNextRun(s) \/ ClaimOccurrence(s) \/ ClaimMisses(s)

EditorStep(e) ==
    \/ \E change \in Changes : EditRead(e, change)
    \/ EditWrite(e)

ThreadStep(w, t) ==
    \/ SkipTarget(w, t)
    \/ StartScheduledAction(w, t)
    \/ SendCommand(w, t)
    \/ FinishScheduledAction(w, t)
    \/ ReportFails(w, t)

HandlerStep(w) ==
    \/ StartHandler(w)
    \/ BeginDispatch(w)
    \/ BeginCloses(w)
    \/ StoreFails(w)
    \/ \E t \in Targets : ThreadStep(w, t)
    \/ Finish(w)
    \/ Return(w)
    \/ FailAndFinalize(w)

ScheduleNext ==
    \/ Tick
    \/ \E s \in Schedulers : SchedulerStep(s)
    \/ \E e \in Editors : EditorStep(e)
    \/ DeleteSchedule
    \/ \E w \in Workers : HandlerStep(w)
    \/ RecoverAndFinalize
    \/ ClaimLost
    \/ HubCrash

ScheduleSpec == ScheduleInit /\ [][ScheduleNext]_vars

-----------------------------------------------------------------------------
(* Properties.                                                             *)

\* Every variable of this module has its type.
ScheduleTypeOK ==
    /\ clock \in 0..Horizon
    /\ schedule \in Schedule
    /\ children \in [Jobs \X Targets -> {"absent", "running", "interrupted"} \cup ChildResults]
    /\ commands \in [Jobs \X Targets -> Nat]
    /\ threads \in [Workers -> [Targets -> {"idle", "start", "send", "report_succeeded",
                                           "report_failed", "succeeded", "failed", "blocked"}]]

\* A command is sent to a target at most once per occurrence, however often the
\* occurrence's job is redelivered and whatever happens to the schedule.
CommandSentOnce == \A o \in DOMAIN commands : commands[o] <= 1

\* A schedule is never blocked forever by an occurrence nobody will finish: while
\* last_run_status says queued or running, which keeps the next occurrence from
\* being claimed, the job of that occurrence is still in the queue.
UnfinishedHasJob ==
    schedule.status \in Unfinished =>
        schedule.job # NoJob /\ jobs[schedule.job] \in {"waiting", "held"}

\* No child action run is left running once its occurrence's job is closed, by
\* whichever of the handler, a redelivery, a pause, a deletion or the dead-letter
\* finalizer that happens.
NoOrphanChild ==
    \A o \in DOMAIN children : jobs[o[1]] = "closed" => children[o] # "running"

\* What last_run_status says about its occurrence is true: a success means that
\* every target's action run succeeded, a partial success that some did, and
\* "work was not executed", blocked or skipped that no command was sent.
RunStatusTruthful ==
    LET j == schedule.job IN
    j # NoJob =>
        /\ schedule.status = "succeeded" => \A t \in Targets : children[<<j, t>>] = "succeeded"
        /\ schedule.status = "partial" => \E t \in Targets : children[<<j, t>>] = "succeeded"
        /\ schedule.status \in {"not_executed", "blocked", "skipped"} =>
              \A t \in Targets : commands[<<j, t>>] = 0

\* Pausing or deleting a schedule takes effect before its next target: no child
\* action run is started while the schedule is disabled or gone, although
\* StartScheduledAction itself never looks at the enabled column.
NoStartWhilePaused ==
    [][\A o \in DOMAIN children :
          children[o] = "absent" /\ children'[o] = "running" =>
              schedule.exists /\ schedule.enabled]_vars

\* The recorded outcome of a child action run is never rewritten: an interrupted
\* one is not revived by the late worker that ran it.
ChildOutcomeFinal ==
    [][\A o \in DOMAIN children :
          children[o] \notin {"absent", "running"} => children'[o] = children[o]]_vars

\* Only the transaction that closes an occurrence's job ends the occurrence: a
\* late handler of an earlier one, paused and replaced in the meantime, never
\* writes its result over its successor.
OccurrenceEndsWithItsJob ==
    [][/\ schedule.status \in Unfinished
       /\ schedule'.status \notin Unfinished
       /\ schedule'.job = schedule.job
       => jobs[schedule.job] = "held" /\ jobs'[schedule.job] = "closed"]_vars

\* An edit cannot roll back a concurrent occurrence claim: next_run_at is never
\* set to an occurrence that already has its job, which no later pass could
\* claim again.
EditKeepsClaim ==
    schedule.exists /\ schedule.enabled /\ schedule.next \in Jobs =>
        jobs[schedule.next] = "absent"
=============================================================================
