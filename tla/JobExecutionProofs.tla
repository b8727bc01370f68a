------------------------- MODULE JobExecutionProofs -------------------------
(***************************************************************************)
(* Proofs, for every set of jobs, workers and attempt limits, of the       *)
(* safety properties of JobExecution.                                      *)
(***************************************************************************)
EXTENDS JobExecution, JobQueueRefinementProofs

-----------------------------------------------------------------------------
(* JobExecution implements JobQueue.                                       *)

LEMMA QueueSteps == [ExecNext]_vars => [Next]_queueVars
<1> SUFFICES ASSUME [ExecNext]_vars PROVE [Next]_queueVars
  OBVIOUS
<1>1. ASSUME NEW w \in Workers, HandlerStep(w) PROVE [Next]_queueVars
  <2>1. CASE StartHandler(w)
    BY <2>1 DEF StartHandler, Next, WorkerStep
  <2>2. CASE BeginCloses(w) \/ Finish(w)
    BY <2>2 DEF BeginCloses, Finish, Next, WorkerStep
  <2>3. CASE BeginDispatch(w) \/ BeginFails(w) \/ DispatchBlocked(w) \/ Dispatch(w) \/ FinishFails(w)
    BY <2>3 DEF BeginDispatch, BeginFails, DispatchBlocked, Dispatch, FinishFails
  <2>4. CASE Return(w)
    <3>1. (stages[w].at = "error") \in BOOLEAN
      OBVIOUS
    <3>2. \E err \in BOOLEAN : HandlerReturns(w, err)
      BY <2>4, <3>1 DEF Return
    <3> QED
      BY <3>2 DEF Next, WorkerStep
  <2>5. CASE FailAndFinalize(w)
    BY <2>5 DEF FailAndFinalize, Next, WorkerStep
  <2>6. CASE RecoverAndFinalize(w)
    BY <2>6 DEF RecoverAndFinalize, Next, WorkerStep
  <2> QED
    BY <1>1, <2>1, <2>2, <2>3, <2>4, <2>5, <2>6 DEF HandlerStep
<1>2. ASSUME NEW j \in Jobs, RequestStep(j) PROVE [Next]_queueVars
  BY <1>2 DEF RequestStep, Submit, SubmitEnqueue, SubmitEnqueueFails, Reject, DeleteRecord,
              Next, JobStep
<1>3. CASE QueueOnly
  <2>1. ASSUME NEW w \in Workers,
               ClaimReplyLost(w) \/ RenewClaim(w) \/ CloseFails(w) \/ Notify(w) \/ NotifyRecovered(w)
        PROVE  Next
    BY <2>1 DEF Next, WorkerStep
  <2>2. ASSUME NEW j \in Jobs, BackoffElapses(j) \/ ClaimExpires(j) \/ PurgeOldJobs(j)
        PROVE  Next
    BY <2>2 DEF Next, JobStep
  <2>3. ASSUME NEW limit \in AttemptLimits, SetMaxAttempts(limit) PROVE Next
    BY <2>3 DEF Next
  <2> QED
    BY <1>3, <2>1, <2>2, <2>3 DEF QueueOnly
<1>4. CASE HubCrash
  BY <1>4 DEF HubCrash, Next
<1>5. CASE UNCHANGED vars
  BY <1>5 DEF vars
<1> QED
  BY <1>1, <1>2, <1>3, <1>4, <1>5 DEF ExecNext

\* The handlers and their transactions do to the queue only what JobQueue allows,
\* so every theorem about JobQueue holds of the whole hub.
THEOREM ImplementsQueue == ExecSpec => QueueRefinement
<1>1. ExecInit => Init
  BY DEF ExecInit
<1> QED
  BY <1>1, QueueSteps, PTL DEF ExecSpec, QueueRefinement, Spec

\* So do the promises of JobLease: whatever the handlers of commands, actions and
\* updates do, a job has at most one holder, only the holder closes it or hands
\* it back, and what is closed stays closed.
THEOREM ExecutionImplementsLease == ExecSpec => LeaseRefinement
<1> QED
  BY ImplementsQueue, LeaseImplemented, PTL DEF QueueRefinement

\* The fences of the queue hold under the real handlers: one owner per claim, no
\* delivery beyond max_attempts, no job is given up whose claim is alive, and
\* a dead letter is reported once.
THEOREM ExecutionKeepsFences ==
    ExecSpec => [](UniqueOwner /\ BudgetRespected /\ DropsOnlyEndedClaims
                               /\ DeadLetterReportedOnce)
<1> QED
  BY ImplementsQueue, UniqueOwnerCorrect, BudgetCorrect, DropsCorrect, DeadLetterCorrect, PTL
     DEF QueueRefinement

-----------------------------------------------------------------------------
(* How one step changes one business record.                               *)

RecordStep(j) ==
    \/ records'[j] = records[j]
    \/ requests[j] = "none" /\ requests'[j] # "none" /\ records'[j] = "queued"
    \/ requests[j] = "rejecting" /\ requests'[j] # "none" /\ records'[j] = "enqueue_failed"
    \/ records[j] # "absent" /\ records'[j] = "deleted"
    \/ records[j] = "queued" /\ records'[j] \in {"running", "not_executed"}
    \/ records[j] = "running" /\ records'[j] \in {"interrupted"} \cup Results

\* The finalizer of a dead letter settles the records it touches.
LEMMA FinalizeSteps ==
    ASSUME FinalizeDead, NEW j \in Jobs
    PROVE  RecordStep(j)
<1>1. records'[j] \in {records[j], Finalize(records[j])}
  BY DEF FinalizeDead
<1> QED
  BY <1>1 DEF Finalize, RecordStep

\* Every writer of a business record is one of the cases of RecordStep, and no
\* request is forgotten.
LEMMA RecordSteps ==
    ASSUME ExecTypeOK, [ExecNext]_vars, NEW j \in Jobs
    PROVE  RecordStep(j) /\ (requests'[j] = "none" => requests[j] = "none")
<1> USE DEF ExecTypeOK
<1>1. ASSUME NEW w \in Workers, HandlerStep(w)
      PROVE  RecordStep(j) /\ requests' = requests
  <2>1. CASE StartHandler(w) \/ BeginFails(w) \/ DispatchBlocked(w) \/ Dispatch(w) \/ FinishFails(w)
             \/ Return(w)
    BY <2>1 DEF StartHandler, BeginFails, DispatchBlocked, Dispatch, FinishFails, Return, RecordStep
  <2>2. CASE BeginDispatch(w)
    BY <2>2 DEF BeginDispatch, RecordStep
  <2>3. CASE BeginCloses(w)
    BY <2>3 DEF BeginCloses, RecordStep
  <2>4. CASE Finish(w)
    <3>1. stages[w].result \in Results
      BY DEF Stages
    <3> QED
      BY <2>4, <3>1 DEF Finish, RecordStep
  <2>5. CASE FailAndFinalize(w) \/ RecoverAndFinalize(w)
    BY <2>5, FinalizeSteps DEF FailAndFinalize, RecoverAndFinalize
  <2> QED
    BY <1>1, <2>1, <2>2, <2>3, <2>4, <2>5 DEF HandlerStep
<1>2. ASSUME NEW i \in Jobs, RequestStep(i)
      PROVE  RecordStep(j) /\ (requests'[j] = "none" => requests[j] = "none")
  <2>1. CASE Submit(i)
    BY <1>2, <2>1 DEF Submit, RecordStep
  <2>2. CASE SubmitEnqueue(i) \/ SubmitEnqueueFails(i)
    BY <2>2 DEF SubmitEnqueue, SubmitEnqueueFails, RecordStep
  <2>3. CASE Reject(i)
    BY <2>3 DEF Reject, RecordStep
  <2>4. CASE DeleteRecord(i)
    BY <2>4 DEF DeleteRecord, RecordStep
  <2> QED
    BY <1>2, <2>1, <2>2, <2>3, <2>4 DEF RequestStep
<1>3. CASE QueueOnly \/ UNCHANGED vars
  BY <1>3 DEF QueueOnly, vars, execVars, RecordStep
<1>4. CASE HubCrash
  BY <1>4 DEF HubCrash, RecordStep
<1> QED
  BY <1>1, <1>2, <1>3, <1>4 DEF ExecNext

-----------------------------------------------------------------------------
(* Type correctness.                                                       *)

\* A handler's stage is only ever moved on, given a result, or cleared.
LEMMA StageUpdates ==
    ASSUME NEW stage \in Stages
    PROVE  /\ NoStage \in Stages
           /\ \A at \in {"none", "begin", "dispatch", "finish", "done", "error"} :
                 [stage EXCEPT !.at = at] \in Stages
           /\ \A result \in Results : [at |-> "finish", result |-> result] \in Stages
BY DEF Stages, NoStage, Results

LEMMA ExecTypeInductive == ExecTypeOK /\ [ExecNext]_vars => ExecTypeOK'
<1> SUFFICES ASSUME ExecTypeOK, [ExecNext]_vars PROVE ExecTypeOK'
  OBVIOUS
<1>1. \A j \in Jobs : RecordStep(j)
  BY RecordSteps
<1> USE DEF ExecTypeOK
<1>2. ASSUME records' = [j \in Jobs |-> records'[j]] PROVE records' \in [Jobs -> RecordStatus]
  <2>1. ASSUME NEW j \in Jobs PROVE records'[j] \in RecordStatus
    BY <1>1 DEF RecordStep, RecordStatus, Verdicts, Results
  <2> QED
    BY <1>2, <2>1
<1>3. ASSUME NEW w \in Workers,
             NEW at \in {"none", "begin", "dispatch", "finish", "done", "error"}, EnterStage(w, at)
      PROVE  stages' \in [Workers -> Stages]
  BY <1>3, StageUpdates DEF EnterStage
<1>4. ASSUME NEW w \in Workers, HandlerStep(w) PROVE ExecTypeOK'
  <2>1. CASE StartHandler(w)
    BY <1>3, <2>1 DEF StartHandler
  <2>2. CASE BeginDispatch(w)
    <3>1. stages' \in [Workers -> Stages]
      BY <1>3, <2>2 DEF BeginDispatch
    <3> QED
      BY <1>2, <2>2, <3>1 DEF BeginDispatch
  <2>3. CASE BeginCloses(w) \/ Finish(w)
    <3>1. stages' \in [Workers -> Stages]
      BY <1>3, <2>3 DEF BeginCloses, Finish
    <3> QED
      BY <1>2, <2>3, <3>1 DEF BeginCloses, Finish
  <2>4. CASE BeginFails(w) \/ FinishFails(w)
    BY <1>3, <2>4 DEF BeginFails, FinishFails
  <2>5. CASE DispatchBlocked(w)
    BY <2>5, StageUpdates DEF DispatchBlocked, Results
  <2>6. CASE Dispatch(w)
    <3>1. effects' \in [Jobs -> Nat]
      <4>1. \A j \in Jobs : effects[j] + 1 \in Nat
        OBVIOUS
      <4> QED
        BY <2>6, <4>1 DEF Dispatch
    <3>2. stages' \in [Workers -> Stages]
      BY <1>3, <2>6, StageUpdates DEF Dispatch
    <3> QED
      BY <2>6, <3>1, <3>2 DEF Dispatch
  <2>7. CASE Return(w)
    BY <2>7, StageUpdates DEF Return
  <2>8. CASE FailAndFinalize(w) \/ RecoverAndFinalize(w)
    BY <1>2, <2>8 DEF FailAndFinalize, RecoverAndFinalize, FinalizeDead
  <2> QED
    BY <1>4, <2>1, <2>2, <2>3, <2>4, <2>5, <2>6, <2>7, <2>8 DEF HandlerStep
<1>5. ASSUME NEW j \in Jobs, RequestStep(j) PROVE ExecTypeOK'
  <2>1. CASE Submit(j) \/ SubmitEnqueue(j) \/ SubmitEnqueueFails(j)
    BY <1>2, <2>1 DEF Submit, SubmitEnqueue, SubmitEnqueueFails
  <2>2. CASE Reject(j) \/ DeleteRecord(j)
    BY <1>2, <2>2 DEF Reject, DeleteRecord
  <2> QED
    BY <1>5, <2>1, <2>2 DEF RequestStep
<1>6. CASE QueueOnly \/ UNCHANGED vars
  BY <1>6 DEF QueueOnly, vars, execVars
<1>7. CASE HubCrash
  BY <1>7 DEF HubCrash, NoStage, Stages, Results
<1> QED
  BY <1>4, <1>5, <1>6, <1>7 DEF ExecNext

\* Types: every variable of the execution layer keeps its type.
THEOREM ExecTypeCorrect == ExecSpec => []ExecTypeOK
<1>1. ExecInit => ExecTypeOK
  BY DEF ExecInit, ExecTypeOK, RecordStatus, Stages, NoStage, Results
<1> QED
  BY <1>1, ExecTypeInductive, PTL DEF ExecSpec

-----------------------------------------------------------------------------
(* The dispatch marker.  A handler is active on a job from the durable     *)
(* marker (queued -> running) to its result.  At most one handler is ever  *)
(* active on a job, and while it is the record is never queued again: that *)
(* is what a stale worker, a redelivery and a crash have in common.        *)

Active(w, j) == stages[w].at \in {"dispatch", "finish"} /\ workers[w].job = j

\* Effects that a handler at this stage has caused.
Spent(stage) == IF stage.at = "finish" /\ stage.result # "blocked" THEN 1 ELSE 0

NotStarted == {"absent", "queued", "not_executed", "blocked"}

Marker(j) ==
    /\ requests[j] = "none" => records[j] = "absent"
    /\ effects[j] \in {0, 1}
    /\ records[j] \in NotStarted => effects[j] = 0
    /\ records[j] = "succeeded" => effects[j] = 1
    /\ \A w \in Workers : Active(w, j) =>
          /\ records[j] \in {"running", "interrupted", "enqueue_failed", "deleted"}
          /\ effects[j] = Spent(stages[w])
    /\ \A v, w \in Workers : Active(v, j) /\ Active(w, j) => v = w

MarkerInv == ExecTypeOK /\ \A j \in Jobs : Marker(j)

\* A step that makes no handler active, causes no effect and writes no result of
\* a handler keeps the marker's meaning.
LEMMA MarkerKept ==
    ASSUME NEW j \in Jobs, Marker(j), RecordStep(j),
           requests'[j] = "none" => requests[j] = "none",
           effects'[j] = effects[j],
           records'[j] \notin Results \/ records'[j] = records[j],
           \A w \in Workers : Active(w, j)' => Active(w, j) /\ stages'[w] = stages[w]
    PROVE  Marker(j)'
<1>1. requests'[j] = "none" => records'[j] = "absent"
  BY DEF Marker, RecordStep
<1>2. effects'[j] \in {0, 1}
  BY DEF Marker
<1>3. records'[j] \in NotStarted => effects'[j] = 0
  BY DEF Marker, RecordStep, NotStarted, Results
<1>4. records'[j] = "succeeded" => effects'[j] = 1
  BY DEF Marker, RecordStep, Results
<1>5. ASSUME NEW w \in Workers, Active(w, j)'
      PROVE  /\ records'[j] \in {"running", "interrupted", "enqueue_failed", "deleted"}
             /\ effects'[j] = Spent(stages'[w])
  BY <1>5 DEF Marker, RecordStep, Results
<1>6. ASSUME NEW v \in Workers, NEW w \in Workers, Active(v, j)', Active(w, j)' PROVE v = w
  BY <1>6 DEF Marker
<1> QED
  BY <1>1, <1>2, <1>3, <1>4, <1>5, <1>6 DEF Marker

\* Queue steps never make a handler active: they leave a worker's job alone, or
\* take it away, or give one to a worker that was idle.
LEMMA QueueKeepsActive ==
    ASSUME TypeOK, NEW j \in Jobs, NEW w \in Workers, stages' = stages, Active(w, j)',
           workers'[w].job \in {workers[w].job, NoJob}
    PROVE  Active(w, j) /\ stages'[w] = stages[w]
BY JobsAssumption DEF Active

LEMMA MarkerInductive == TypeOK /\ MarkerInv /\ [ExecNext]_vars => MarkerInv'
<1> SUFFICES ASSUME TypeOK, MarkerInv, [ExecNext]_vars, NEW j \in Jobs PROVE Marker(j)'
  BY ExecTypeInductive DEF MarkerInv
<1>1. ExecTypeOK /\ Marker(j)
  BY DEF MarkerInv
<1>2. RecordStep(j) /\ (requests'[j] = "none" => requests[j] = "none")
  BY <1>1, RecordSteps
<1>3. ASSUME NEW v \in Workers, Release(v), stages' = stages, NEW w \in Workers, Active(w, j)'
      PROVE  Active(w, j) /\ stages'[w] = stages[w]
  <2>1. workers'[w].job \in {workers[w].job, NoJob}
    BY <1>3 DEF Release, IdleWorker, TypeOK
  <2> QED
    BY <1>3, <2>1, QueueKeepsActive
<1>4. ASSUME NEW v \in Workers, NEW pc, GoTo(v, pc), stages' = stages, NEW w \in Workers, Active(w, j)'
      PROVE  Active(w, j) /\ stages'[w] = stages[w]
  <2>1. workers'[w].job = workers[w].job
    BY <1>4 DEF GoTo, TypeOK, Worker
  <2> QED
    BY <1>4, <2>1, QueueKeepsActive
<1>5. ASSUME NEW v \in Workers, NEW at \in {"none", "begin", "done", "error"}, EnterStage(v, at),
             \A w \in Workers : w # v => workers'[w] = workers[w],
             NEW w \in Workers, Active(w, j)'
      PROVE  Active(w, j) /\ stages'[w] = stages[w]
  <2>1. w # v
    <3>1. stages'[v].at = at
      BY <1>1, <1>5 DEF EnterStage, ExecTypeOK, Stages
    <3> QED
      BY <1>5, <3>1 DEF Active
  <2>2. stages'[w] = stages[w]
    BY <1>1, <1>5, <2>1 DEF EnterStage, ExecTypeOK
  <2> QED
    BY <1>5, <2>1, <2>2 DEF Active
<1>6. ASSUME NEW v \in Workers, HandlerStep(v) PROVE Marker(j)'
  <2>1. CASE StartHandler(v)
    <3>1. PICK i \in Jobs : workers' = [workers EXCEPT ![v] = ClaimingWorker(i, rows'[i])]
      BY <2>1 DEF StartHandler, Claim
    <3>2. \A w \in Workers : w # v => workers'[w] = workers[w]
      BY <3>1 DEF TypeOK
    <3>3. EnterStage(v, "begin") \/ EnterStage(v, "none")
      BY <2>1 DEF StartHandler
    <3>4. \A w \in Workers : Active(w, j)' => Active(w, j) /\ stages'[w] = stages[w]
      BY <1>5, <3>2, <3>3
    <3> QED
      BY <1>1, <1>2, <2>1, <3>4, MarkerKept DEF StartHandler
  <2>2. CASE BeginDispatch(v)
    <3>1. UNCHANGED <<workers, effects>> /\ records[workers[v].job] = "queued"
          /\ (EnterStage(v, "dispatch") \/ EnterStage(v, "error"))
      BY <2>2 DEF BeginDispatch, queueVars, Job
    <3>2. CASE EnterStage(v, "error") \/ workers[v].job # j
      <4>1. \A w \in Workers : Active(w, j)' => Active(w, j) /\ stages'[w] = stages[w]
        BY <1>1, <1>5, <3>1, <3>2 DEF EnterStage, Active, ExecTypeOK
      <4>2. records'[j] \notin Results \/ records'[j] = records[j]
        BY <1>1, <2>2 DEF BeginDispatch, Results, ExecTypeOK
      <4> QED
        BY <1>1, <1>2, <3>1, <4>1, <4>2, MarkerKept
    <3>3. CASE EnterStage(v, "dispatch") /\ workers[v].job = j
      <4>1. records[j] = "queued" /\ records'[j] = "running" /\ requests'[j] = requests[j]
        BY <1>1, <2>2, <3>3 DEF BeginDispatch, Job, ExecTypeOK
      <4>2. effects[j] = 0 /\ effects'[j] = 0 /\ \A w \in Workers : ~Active(w, j)
        BY <1>1, <3>1, <4>1 DEF Marker, NotStarted
      <4>3. \A w \in Workers : w # v => stages'[w] = stages[w]
        BY <1>1, <3>3 DEF EnterStage, ExecTypeOK
      <4>4. \A w \in Workers : Active(w, j)' => w = v
        BY <3>1, <4>2, <4>3 DEF Active
      <4>5. stages'[v].at = "dispatch"
        BY <1>1, <3>3 DEF EnterStage, ExecTypeOK, Stages
      <4>6. Spent(stages'[v]) = 0
        BY <4>5 DEF Spent
      <4> QED
        BY <1>1, <4>1, <4>2, <4>4, <4>6 DEF Marker, NotStarted
    <3> QED
      BY <3>1, <3>2, <3>3
  <2>3. CASE BeginCloses(v)
    <3>1. \A w \in Workers : w # v => workers'[w] = workers[w]
      BY <2>3 DEF BeginCloses, HandlerCloses, TypeOK
    <3>2. EnterStage(v, "done") \/ EnterStage(v, "error")
      BY <2>3 DEF BeginCloses
    <3>3. \A w \in Workers : Active(w, j)' => Active(w, j) /\ stages'[w] = stages[w]
      BY <1>5, <3>1, <3>2
    <3>4. records'[j] \notin Results \/ records'[j] = records[j]
      BY <1>1, <2>3 DEF BeginCloses, Results, ExecTypeOK
    <3> QED
      BY <1>1, <1>2, <2>3, <3>3, <3>4, MarkerKept DEF BeginCloses
  <2>4. CASE BeginFails(v) \/ FinishFails(v)
    <3>1. \A w \in Workers : Active(w, j)' => Active(w, j) /\ stages'[w] = stages[w]
      BY <1>5, <2>4 DEF BeginFails, FinishFails, queueVars
    <3> QED
      BY <1>1, <1>2, <2>4, <3>1, MarkerKept DEF BeginFails, FinishFails
  <2>5. CASE DispatchBlocked(v)
    <3>1. /\ UNCHANGED <<workers, records, effects, requests>>
          /\ stages[v].at = "dispatch"
          /\ stages' = [stages EXCEPT ![v] = [at |-> "finish", result |-> "blocked"]]
      BY <2>5 DEF DispatchBlocked, InStage, queueVars
    <3>2. \A w \in Workers : w # v => stages'[w] = stages[w]
      BY <1>1, <3>1 DEF ExecTypeOK
    <3>3. stages'[v] = [at |-> "finish", result |-> "blocked"]
      BY <1>1, <3>1 DEF ExecTypeOK
    <3>4. Spent(stages'[v]) = 0 /\ Spent(stages[v]) = 0
      BY <3>1, <3>3 DEF Spent
    <3>5. \A w \in Workers : Active(w, j)' => Active(w, j) /\ Spent(stages'[w]) = Spent(stages[w])
      BY <3>1, <3>2, <3>4 DEF Active
    <3> QED
      BY <1>1, <3>1, <3>5 DEF Marker
  <2>6. CASE Dispatch(v)
    <3>1. /\ UNCHANGED <<workers, records, requests>>
          /\ stages[v].at = "dispatch"
          /\ effects' = [effects EXCEPT ![workers[v].job] = @ + 1]
      BY <2>6 DEF Dispatch, InStage, Job, queueVars
    <3>2. \A w \in Workers : w # v => stages'[w] = stages[w]
      BY <1>1, <2>6 DEF Dispatch, EnterStage, ExecTypeOK
    <3>3. CASE workers[v].job # j
      <4>1. effects'[j] = effects[j]
        BY <1>1, <3>1, <3>3 DEF ExecTypeOK
      <4>2. \A w \in Workers : Active(w, j)' => Active(w, j) /\ stages'[w] = stages[w]
        BY <3>1, <3>2, <3>3 DEF Active
      <4> QED
        BY <1>1, <1>2, <3>1, <4>1, <4>2, MarkerKept
    <3>4. CASE workers[v].job = j
      <4>1. Active(v, j) /\ Spent(stages[v]) = 0
        BY <3>1, <3>4 DEF Active, Spent
      <4>2. /\ effects[j] = 0
            /\ records'[j] \in {"running", "interrupted", "enqueue_failed", "deleted"}
            /\ \A w \in Workers : Active(w, j) => w = v
        BY <1>1, <3>1, <4>1 DEF Marker
      <4>3. effects'[j] = effects[j] + 1
        BY <1>1, <3>1, <3>4 DEF ExecTypeOK
      <4>4. effects'[j] = 1
        BY <4>2, <4>3
      <4>5. \A w \in Workers : Active(w, j)' => w = v
        BY <3>1, <3>2, <4>2 DEF Active
      <4>6. Active(v, j)' => Spent(stages'[v]) = 1
        <5>1. CASE EnterStage(v, "error")
          <6>1. stages'[v].at = "error"
            BY <1>1, <5>1 DEF EnterStage, ExecTypeOK, Stages
          <6> QED
            BY <6>1 DEF Active
        <5>2. ASSUME NEW result \in Results \ {"blocked"},
                     stages' = [stages EXCEPT ![v] = [at |-> "finish", result |-> result]]
              PROVE  Spent(stages'[v]) = 1
          <6>1. stages'[v] = [at |-> "finish", result |-> result]
            BY <1>1, <5>2 DEF ExecTypeOK
          <6> QED
            BY <6>1 DEF Spent
        <5> QED
          BY <2>6, <5>1, <5>2 DEF Dispatch
      <4>7. requests'[j] = "none" => records'[j] = "absent"
        BY <1>1, <3>1 DEF Marker
      <4> QED
        BY <4>2, <4>4, <4>5, <4>6, <4>7 DEF Marker, NotStarted
    <3> QED
      BY <3>3, <3>4
  <2>7. CASE Finish(v)
    <3>1. \A w \in Workers : workers'[w].job = workers[w].job /\ (w # v => workers'[w] = workers[w])
      BY <2>7 DEF Finish, HandlerCloses, TypeOK, Worker
    <3>2. EnterStage(v, "done") \/ EnterStage(v, "error")
      BY <2>7 DEF Finish
    <3>3. \A w \in Workers : Active(w, j)' => Active(w, j) /\ stages'[w] = stages[w] /\ w # v
      <4>1. stages'[v].at \in {"done", "error"}
        BY <1>1, <3>2 DEF EnterStage, ExecTypeOK, Stages
      <4>2. ~Active(v, j)'
        BY <4>1 DEF Active
      <4> QED
        BY <1>5, <3>1, <3>2, <4>2
    <3>4. effects' = effects /\ requests' = requests
      BY <2>7 DEF Finish
    <3>5. CASE workers[v].job # j
      <4>1. records'[j] = records[j]
        BY <1>1, <2>7, <3>5 DEF Finish, Job, ExecTypeOK
      <4> QED
        BY <1>1, <1>2, <3>3, <3>4, <4>1, MarkerKept
    <3>6. CASE workers[v].job = j
      <4>1. Active(v, j) /\ records'[j] = stages[v].result /\ records[j] = "running"
        BY <1>1, <2>7, <3>6 DEF Finish, InStage, Job, Active, ExecTypeOK
      <4>2. effects[j] = Spent(stages[v]) /\ \A w \in Workers : Active(w, j) => w = v
        BY <1>1, <4>1 DEF Marker
      <4>3. \A w \in Workers : ~Active(w, j)'
        BY <3>3, <4>2
      <4>4. stages[v].at = "finish" /\ stages[v].result \in Results
        BY <1>1, <2>7 DEF Finish, InStage, ExecTypeOK, Stages
      <4>5. records'[j] \in NotStarted => effects'[j] = 0
        BY <3>4, <4>1, <4>2, <4>4 DEF Spent, NotStarted, Results
      <4>6. records'[j] = "succeeded" => effects'[j] = 1
        BY <3>4, <4>1, <4>2, <4>4 DEF Spent
      <4>7. effects'[j] \in {0, 1} /\ (requests'[j] = "none" => records'[j] = "absent")
        BY <1>1, <3>4, <4>1 DEF Marker
      <4> QED
        BY <4>3, <4>5, <4>6, <4>7 DEF Marker
    <3> QED
      BY <3>5, <3>6
  <2>8. CASE Return(v)
    <3>1. \A w \in Workers : w # v => workers'[w] = workers[w] /\ stages'[w] = stages[w]
      BY <1>1, <2>8 DEF Return, HandlerReturns, Release, GoTo, TypeOK, ExecTypeOK
    <3>2. ~Active(v, j)'
      BY <1>1, <2>8 DEF Return, Active, NoStage, ExecTypeOK
    <3>3. \A w \in Workers : Active(w, j)' => Active(w, j) /\ stages'[w] = stages[w]
      BY <3>1, <3>2 DEF Active
    <3> QED
      BY <1>1, <1>2, <2>8, <3>3, MarkerKept DEF Return
  <2>9. CASE FailAndFinalize(v) \/ RecoverAndFinalize(v)
    <3>1. stages' = stages /\ effects' = effects
      BY <2>9 DEF FailAndFinalize, RecoverAndFinalize
    <3>2. (\E pc \in WorkerPC : GoTo(v, pc)) \/ Release(v) \/ workers' = workers
      BY <2>9 DEF FailAndFinalize, RecoverAndFinalize, Fail, FailReplyLost, Recover, WorkerPC
    <3>3. \A w \in Workers : Active(w, j)' => Active(w, j) /\ stages'[w] = stages[w]
      BY <1>3, <1>4, <3>1, <3>2 DEF Active
    <3>4. records'[j] \notin Results \/ records'[j] = records[j]
      <4>1. records'[j] \in {records[j], Finalize(records[j])}
        BY <2>9 DEF FailAndFinalize, RecoverAndFinalize, FinalizeDead
      <4> QED
        BY <4>1 DEF Finalize, Results
    <3> QED
      BY <1>1, <1>2, <3>1, <3>3, <3>4, MarkerKept
  <2> QED
    BY <1>6, <2>1, <2>2, <2>3, <2>4, <2>5, <2>6, <2>7, <2>8, <2>9 DEF HandlerStep
<1>7. ASSUME NEW i \in Jobs, RequestStep(i) PROVE Marker(j)'
  <2>1. UNCHANGED <<workers, effects, stages>>
    BY <1>7 DEF RequestStep, Submit, SubmitEnqueue, SubmitEnqueueFails, Reject, DeleteRecord,
                Enqueue, queueVars
  <2>2. \A w \in Workers : Active(w, j)' => Active(w, j) /\ stages'[w] = stages[w]
    BY <2>1 DEF Active
  <2>3. records'[j] \notin Results \/ records'[j] = records[j]
    BY <1>1, <1>7 DEF RequestStep, Submit, SubmitEnqueue, SubmitEnqueueFails, Reject, DeleteRecord,
                      Results, ExecTypeOK
  <2> QED
    BY <1>1, <1>2, <2>1, <2>2, <2>3, MarkerKept
<1>8. CASE QueueOnly
  <2>1. UNCHANGED <<records, effects, stages, requests>>
    BY <1>8 DEF QueueOnly, execVars
  <2>2. \A w \in Workers : workers'[w].job \in {workers[w].job, NoJob}
    <3>1. ASSUME NEW v \in Workers,
                 ClaimReplyLost(v) \/ RenewClaim(v) \/ CloseFails(v) \/ Notify(v) \/ NotifyRecovered(v)
          PROVE  \A w \in Workers : workers'[w].job \in {workers[w].job, NoJob}
      BY <3>1 DEF ClaimReplyLost, RenewClaim, CloseFails, Notify, NotifyRecovered, Release,
                  IdleWorker, TypeOK, Worker
    <3>2. ASSUME NEW i \in Jobs, BackoffElapses(i) \/ ClaimExpires(i) \/ PurgeOldJobs(i)
          PROVE  workers' = workers
      BY <3>2 DEF BackoffElapses, ClaimExpires, PurgeOldJobs
    <3>3. ASSUME NEW limit \in AttemptLimits, SetMaxAttempts(limit) PROVE workers' = workers
      BY <3>3 DEF SetMaxAttempts
    <3> QED
      BY <1>8, <3>1, <3>2, <3>3 DEF QueueOnly
  <2>3. \A w \in Workers : Active(w, j)' => Active(w, j) /\ stages'[w] = stages[w]
    BY <2>1, <2>2, QueueKeepsActive
  <2> QED
    BY <1>1, <1>2, <2>1, <2>3, MarkerKept
<1>9. CASE HubCrash
  <2>1. \A w \in Workers : ~Active(w, j)'
    BY <1>9, JobsAssumption DEF HubCrash, Active, NoStage
  <2> QED
    BY <1>1, <1>2, <1>9, <2>1, MarkerKept DEF HubCrash
<1>10. CASE UNCHANGED vars
  BY <1>1, <1>2, <1>10, MarkerKept DEF vars, execVars, queueVars, Active
<1> QED
  BY <1>6, <1>7, <1>8, <1>9, <1>10 DEF ExecNext

\* The execution layer starts with nothing submitted and runs on a well-typed
\* queue.
LEMMA MarkerAlways == ExecSpec => [](TypeOK /\ MarkerInv)
<1>1. ExecInit => MarkerInv
  <2> SUFFICES ASSUME ExecInit PROVE MarkerInv
    OBVIOUS
  <2>1. ExecTypeOK
    BY DEF ExecInit, ExecTypeOK, RecordStatus, Stages, NoStage, Results
  <2>2. ASSUME NEW j \in Jobs PROVE Marker(j)
    <3>1. \A w \in Workers : ~Active(w, j)
      BY DEF ExecInit, NoStage, Active
    <3>2. records[j] = "absent" /\ effects[j] = 0
      BY DEF ExecInit
    <3> QED
      BY <3>1, <3>2 DEF Marker, NotStarted
  <2> QED
    BY <2>1, <2>2 DEF MarkerInv
<1>2. ExecSpec => []TypeOK
  BY ImplementsQueue, TypeCorrect, PTL DEF QueueRefinement
<1> QED
  BY <1>1, <1>2, MarkerInductive, PTL DEF ExecSpec

\* No terminal command, action or update is executed twice, however often its
\* job is claimed, by however many workers, across lost replies and crashes.
THEOREM AtMostOnce == ExecSpec => []AtMostOneEffect
<1>1. MarkerInv => AtMostOneEffect
  <2> SUFFICES ASSUME MarkerInv, NEW j \in Jobs PROVE effects[j] <= 1
    BY DEF AtMostOneEffect
  <2>1. effects[j] \in {0, 1}
    BY DEF MarkerInv, Marker
  <2> QED
    BY <2>1
<1> QED
  BY <1>1, MarkerAlways, PTL

\* What a business record says about the execution is true.
THEOREM VerdictsTruthful == ExecSpec => []VerdictTruthful
<1>1. MarkerInv => VerdictTruthful
  BY DEF MarkerInv, Marker, NotStarted, VerdictTruthful, Active, InStage, Job
<1> QED
  BY <1>1, MarkerAlways, PTL

\* A verdict is not revised by a redelivery, a late worker or a dead letter.
THEOREM VerdictsFinal == ExecSpec => VerdictIsFinal
<1>1. ASSUME MarkerInv, [ExecNext]_vars
      PROVE  \A j \in Jobs :
                 records[j] \in Verdicts =>
                     \/ records'[j] \in {records[j], "deleted"}
                     \/ requests[j] = "rejecting" /\ records'[j] = "enqueue_failed"
  <2> SUFFICES ASSUME NEW j \in Jobs, records[j] \in Verdicts
               PROVE  \/ records'[j] \in {records[j], "deleted"}
                      \/ requests[j] = "rejecting" /\ records'[j] = "enqueue_failed"
    OBVIOUS
  <2>1. Marker(j) /\ RecordStep(j)
    BY <1>1, RecordSteps DEF MarkerInv
  <2>2. records[j] \notin {"absent", "queued", "running"}
    BY DEF Verdicts, Results
  <2> QED
    BY <2>1, <2>2 DEF Marker, RecordStep
<1> QED
  BY <1>1, MarkerAlways, PTL DEF ExecSpec, VerdictIsFinal

-----------------------------------------------------------------------------
(* Closing.  The transaction that closes a queue row also gives its record *)
(* a verdict, and a record is reopened by nobody.                          *)

Closure(j) ==
    /\ requests[j] \in {"none", "enqueueing"} => rows[j].status = "absent"
    /\ rows[j].status \in Closed => records[j] \notin {"queued", "running"}

ClosureInv == \A j \in Jobs : Closure(j)

\* A step that neither closes the row nor reopens the record.
LEMMA ClosureKept ==
    ASSUME NEW j \in Jobs, Closure(j), RecordStep(j),
           requests'[j] \in {"none", "enqueueing"} => requests[j] \in {"none", "enqueueing"},
           \/ rows'[j].status = rows[j].status
           \/ rows[j].status # "absent" /\ rows'[j].status \notin Closed
           \/ rows[j].status \in Closed /\ rows'[j].status \in Closed,
           records'[j] = "running" => records[j] = "running" \/ rows'[j].status \notin Closed
    PROVE  Closure(j)'
BY DEF Closure, RecordStep, Results, Closed

\* The statement of Claim on one row.
LEMMA ClaimedRow ==
    ASSUME TypeOK, NEW i \in Jobs, ClaimStatement(i), NEW j \in Jobs
    PROVE  rows'[j] = rows[j] \/ (rows[j].status = "queued" /\ rows'[j].status = "processing")
<1>1. CASE i = j
  <2>1. rows[j] \in Row /\ rows'[j] = ClaimRow(rows[j], issued + 1) /\ rows[j].status = "queued"
    BY <1>1 DEF ClaimStatement, TypeOK
  <2> QED
    BY <2>1 DEF ClaimRow, Row
<1>2. CASE i # j
  BY <1>2 DEF ClaimStatement, TypeOK
<1> QED
  BY <1>1, <1>2

LEMMA ClosureInductive == TypeOK /\ MarkerInv /\ ClosureInv /\ [ExecNext]_vars => ClosureInv'
<1> SUFFICES ASSUME TypeOK, MarkerInv, ClosureInv, [ExecNext]_vars, NEW j \in Jobs PROVE Closure(j)'
  BY DEF ClosureInv
<1>1. ExecTypeOK /\ Closure(j) /\ RecordStep(j) /\ rows[j] \in Row
  BY RecordSteps DEF MarkerInv, ClosureInv, TypeOK
<1>2. ASSUME NEW w \in Workers, HandlerCloses(w), requests' = requests,
             records'[workers[w].job] \notin {"queued", "running"},
             \A i \in Jobs : i # workers[w].job => records'[i] = records[i]
      PROVE  Closure(j)'
  <2>1. OwnsClaim(w) /\ rows' = [rows EXCEPT ![workers[w].job] = CompleteRow(@)]
    BY <1>2 DEF HandlerCloses, UpdateOwnRow
  <2>2. CASE workers[w].job = j
    BY <1>1, <1>2, <2>1, <2>2 DEF Closure, OwnsClaim
  <2>3. CASE workers[w].job # j
    <3>1. rows'[j] = rows[j] /\ records'[j] = records[j]
      BY <1>2, <2>1, <2>3 DEF TypeOK
    <3> QED
      BY <1>1, <1>2, <3>1 DEF Closure
  <2> QED
    BY <2>2, <2>3
<1>3. ASSUME NEW w \in Workers, HandlerStep(w) PROVE Closure(j)'
  <2>1. CASE StartHandler(w)
    <3>1. PICK i \in Jobs : ClaimStatement(i)
      BY <2>1 DEF StartHandler, Claim
    <3>2. rows'[j] = rows[j] \/ (rows[j].status = "queued" /\ rows'[j].status = "processing")
      BY <3>1, ClaimedRow
    <3> QED
      BY <1>1, <2>1, <3>2, ClosureKept DEF StartHandler, Closed
  <2>2. CASE BeginDispatch(w)
    <3>1. rows' = rows /\ requests' = requests /\ OwnsClaim(w)
      BY <2>2 DEF BeginDispatch, queueVars
    <3>2. records'[j] = records[j] \/ rows[j].status = "processing"
      BY <1>1, <2>2, <3>1 DEF BeginDispatch, OwnsClaim, Job, ExecTypeOK
    <3> QED
      BY <1>1, <3>1, <3>2, ClosureKept DEF Closed
  <2>3. CASE BeginCloses(w)
    <3>1. workers[w].job \in Jobs /\ HandlerCloses(w) /\ requests' = requests
      BY <2>3 DEF BeginCloses, HandlerCloses, OwnsClaim
    <3>2. records'[workers[w].job] \notin {"queued", "running"}
      BY <1>1, <2>3, <3>1 DEF BeginCloses, Job, Verdicts, Results, ExecTypeOK
    <3>3. \A i \in Jobs : i # workers[w].job => records'[i] = records[i]
      BY <1>1, <2>3 DEF BeginCloses, Job, ExecTypeOK
    <3> QED
      BY <1>2, <3>1, <3>2, <3>3
  <2>4. CASE Finish(w)
    <3>1. workers[w].job \in Jobs /\ HandlerCloses(w) /\ requests' = requests
      BY <2>4 DEF Finish, HandlerCloses, OwnsClaim
    <3>2. records'[workers[w].job] \notin {"queued", "running"}
      BY <1>1, <2>4, <3>1 DEF Finish, Job, Stages, Results, ExecTypeOK
    <3>3. \A i \in Jobs : i # workers[w].job => records'[i] = records[i]
      BY <1>1, <2>4 DEF Finish, Job, ExecTypeOK
    <3> QED
      BY <1>2, <3>1, <3>2, <3>3
  <2>5. CASE BeginFails(w) \/ FinishFails(w) \/ DispatchBlocked(w) \/ Dispatch(w) \/ Return(w)
    BY <1>1, <2>5 DEF BeginFails, FinishFails, DispatchBlocked, Dispatch, Return, HandlerReturns,
                      queueVars, Closure
  <2>6. CASE FailAndFinalize(w) \/ RecoverAndFinalize(w)
    <3>1. FinalizeDead /\ requests' = requests
      BY <2>6 DEF FailAndFinalize, RecoverAndFinalize
    <3>2. rows'[j] = rows[j] \/ (rows[j].status = "processing" /\ rows'[j] = RetryRow(rows[j]))
      <4>1. CASE FailAndFinalize(w)
        <5>1. rows' = [rows EXCEPT ![workers[w].job] = RetryRow(@)]
          BY <4>1 DEF FailAndFinalize, Fail, FailReplyLost, UpdateOwnRow
        <5>2. rows[workers[w].job].status = "processing"
          BY <4>1 DEF FailAndFinalize, Fail, FailReplyLost, OwnsClaim
        <5> QED
          BY <5>1, <5>2 DEF TypeOK
      <4>2. CASE RecoverAndFinalize(w)
        <5>1. PICK S \in SUBSET ExpiredRows : Recover(w, S)
          BY <4>2 DEF RecoverAndFinalize
        <5>2. rows' = [i \in Jobs |-> IF i \in S THEN RetryRow(rows[i]) ELSE rows[i]]
          BY <5>1 DEF Recover
        <5> QED
          BY <5>2 DEF ExpiredRows
      <4> QED
        BY <2>6, <4>1, <4>2
    <3>3. CASE rows'[j] = rows[j]
      <4>1. records'[j] = records[j]
        BY <3>1, <3>3 DEF FinalizeDead
      <4> QED
        BY <1>1, <3>1, <3>3, <4>1 DEF Closure
    <3>4. CASE rows[j].status = "processing" /\ rows'[j] = RetryRow(rows[j])
      <4>1. rows'[j].status \in {"dead_lettered", "queued"}
        BY <1>1, <3>4 DEF RetryRow, Row
      <4>2. CASE rows'[j].status = "queued"
        <5>1. records'[j] = records[j]
          BY <3>1, <4>2 DEF FinalizeDead
        <5> QED
          BY <1>1, <3>1, <3>4, <4>2, <5>1 DEF Closure, Closed
      <4>3. CASE rows'[j].status = "dead_lettered"
        <5>1. records'[j] = Finalize(records[j])
          BY <3>1, <3>4, <4>3 DEF FinalizeDead
        <5>2. records'[j] \notin {"queued", "running"}
          BY <5>1 DEF Finalize
        <5> QED
          BY <1>1, <3>1, <3>4, <5>2 DEF Closure
      <4> QED
        BY <4>1, <4>2, <4>3
    <3> QED
      BY <3>2, <3>3, <3>4
  <2> QED
    BY <1>3, <2>1, <2>2, <2>3, <2>4, <2>5, <2>6 DEF HandlerStep
<1>4. ASSUME NEW i \in Jobs, RequestStep(i) PROVE Closure(j)'
  <2>1. CASE Submit(i)
    <3>1. rows' = rows
      BY <2>1 DEF Submit, queueVars
    <3>2. CASE i = j
      BY <1>1, <2>1, <3>1, <3>2 DEF Submit, Closure, Closed
    <3>3. CASE i # j
      BY <1>1, <2>1, <3>1, <3>3 DEF Submit, Closure, ExecTypeOK
    <3> QED
      BY <3>2, <3>3
  <2>2. CASE SubmitEnqueue(i)
    <3>1. CASE i = j
      <4>1. requests'[j] \in {"answered", "rejecting"} /\ rows'[j] = NewRow(maxAttempts)
        BY <1>1, <2>2, <3>1 DEF SubmitEnqueue, Enqueue, ExecTypeOK, TypeOK
      <4> QED
        BY <4>1 DEF Closure, Closed, NewRow
    <3>2. CASE i # j
      BY <1>1, <2>2, <3>2 DEF SubmitEnqueue, Enqueue, Closure, ExecTypeOK, TypeOK
    <3> QED
      BY <3>1, <3>2
  <2>3. CASE SubmitEnqueueFails(i) \/ Reject(i) \/ DeleteRecord(i)
    <3>1. rows' = rows /\ (requests'[j] \in {"none", "enqueueing"} => requests'[j] = requests[j])
          /\ records'[j] \in {records[j], "enqueue_failed", "deleted"}
      BY <1>1, <2>3 DEF SubmitEnqueueFails, Reject, DeleteRecord, queueVars, ExecTypeOK
    <3> QED
      BY <1>1, <3>1 DEF Closure
  <2> QED
    BY <1>4, <2>1, <2>2, <2>3 DEF RequestStep
<1>5. CASE QueueOnly
  <2>1. records' = records /\ requests' = requests
    BY <1>5 DEF QueueOnly, execVars
  <2>2. ASSUME NEW w \in Workers,
               ClaimReplyLost(w) \/ RenewClaim(w) \/ CloseFails(w) \/ Notify(w) \/ NotifyRecovered(w)
        PROVE  \/ rows'[j].status = rows[j].status
               \/ rows[j].status = "queued" /\ rows'[j].status = "processing"
    <3>1. CASE ClaimReplyLost(w)
      BY <3>1, ClaimedRow DEF ClaimReplyLost
    <3>2. CASE RenewClaim(w)
      <4>1. CASE OwnsClaim(w)
        <5>1. rows' = [rows EXCEPT ![workers[w].job].expired = FALSE]
          BY <3>2, <4>1 DEF RenewClaim
        <5>2. rows'[j] \in {rows[j], [rows[j] EXCEPT !.expired = FALSE]}
          BY <5>1 DEF TypeOK
        <5> QED
          BY <1>1, <5>2 DEF Row
      <4>2. CASE ~OwnsClaim(w)
        BY <3>2, <4>2 DEF RenewClaim
      <4> QED
        BY <4>1, <4>2
    <3>3. CASE CloseFails(w) \/ Notify(w) \/ NotifyRecovered(w)
      <4>1. rows' = rows
        BY <3>3 DEF CloseFails, Notify, NotifyRecovered
      <4> QED
        BY <4>1
    <3> QED
      BY <2>2, <3>1, <3>2, <3>3
  <2>3. ASSUME NEW i \in Jobs, BackoffElapses(i) \/ ClaimExpires(i) \/ PurgeOldJobs(i)
        PROVE  \/ rows'[j].status = rows[j].status
               \/ rows[j].status \in Closed /\ rows'[j].status \in Closed
    BY <2>3 DEF BackoffElapses, ClaimExpires, PurgeOldJobs, TypeOK, Row, Closed
  <2>4. ASSUME NEW limit \in AttemptLimits, SetMaxAttempts(limit) PROVE rows' = rows
    BY <2>4 DEF SetMaxAttempts
  <2>5. \/ rows'[j].status = rows[j].status
        \/ rows[j].status # "absent" /\ rows'[j].status \notin Closed
        \/ rows[j].status \in Closed /\ rows'[j].status \in Closed
    BY <1>5, <2>2, <2>3, <2>4 DEF QueueOnly, Closed
  <2> QED
    BY <1>1, <2>1, <2>5, ClosureKept
<1>6. CASE HubCrash
  BY <1>1, <1>6 DEF HubCrash, Crash, Closure, ExecTypeOK
<1>7. CASE UNCHANGED vars
  BY <1>1, <1>7 DEF vars, execVars, queueVars, Closure
<1> QED
  BY <1>3, <1>4, <1>5, <1>6, <1>7 DEF ExecNext

\* No run is left queued or running by a job that is gone, whoever closed it: the
\* handler, Queue.Fail or stale recovery.
THEOREM ClosedJobsSettled == ExecSpec => []ClosedJobHasVerdict
<1>1. ASSUME ExecInit PROVE ClosureInv
  <2> SUFFICES ASSUME NEW j \in Jobs PROVE Closure(j)
    BY DEF ClosureInv
  <2>1. rows[j].status = "absent"
    BY <1>1 DEF ExecInit, Init, AbsentRow
  <2> QED
    BY <2>1 DEF Closure, Closed
<1>2. ClosureInv => ClosedJobHasVerdict
  BY DEF ClosureInv, Closure, ClosedJobHasVerdict
<1> QED
  BY <1>1, <1>2, MarkerAlways, ClosureInductive, PTL DEF ExecSpec
-----------------------------------------------------------------------------
(* The API's report of an Enqueue error.  It is true of every run if the   *)
(* error means that nothing was inserted: a lost reply is the only cause   *)
(* of the run that is executed although its record says it never reached   *)
(* the queue.                                                              *)

\* An Enqueue that reports an error has not committed its INSERT.
ErrorMeansNotInserted ==
    [][\A j \in Jobs : requests[j] = "enqueueing" /\ requests'[j] = "rejecting"
                          => rows'[j] = rows[j]]_vars

\* How one step changes the request of one job.
Requested(j) ==
    \/ requests'[j] = requests[j]
    \/ requests[j] = "none" /\ requests'[j] = "enqueueing"
    \/ requests[j] = "enqueueing" /\ requests'[j] = "rejecting"
    \/ requests'[j] = "answered"

\* What no row of a job in the table means for its run.
Unqueued(j) ==
    /\ requests[j] \in {"none", "enqueueing", "rejecting"} => rows[j].status = "absent"
    /\ records[j] = "enqueue_failed" => requests[j] = "answered" /\ rows[j].status = "absent"
    /\ rows[j].status = "absent" => effects[j] = 0 /\ \A w \in Workers : workers[w].job # j

UnqueuedInv == \A j \in Jobs : Unqueued(j)

\* Only Enqueue inserts a row.
LEMMA AbsentStays ==
    ASSUME TypeOK, NEW j \in Jobs, rows[j].status = "absent",
           \/ \E w \in Workers : WorkerStep(w)
           \/ \E i \in Jobs : BackoffElapses(i) \/ ClaimExpires(i) \/ PurgeOldJobs(i)
           \/ \E limit \in AttemptLimits : SetMaxAttempts(limit)
           \/ Crash
    PROVE  rows'[j] = rows[j]
<1>1. ASSUME NEW w \in Workers, WorkerStep(w) PROVE rows'[j] = rows[j]
  <2>1. CASE Claim(w) \/ ClaimReplyLost(w)
    BY <2>1, ClaimedRow DEF Claim, ClaimReplyLost
  <2>2. CASE RenewClaim(w)
    BY <2>2 DEF RenewClaim, OwnsClaim, TypeOK
  <2>3. CASE HandlerCloses(w) \/ Fail(w) \/ FailReplyLost(w) \/ Complete(w)
    <3>1. OwnsClaim(w) /\ (UpdateOwnRow(w, CompleteRow) \/ UpdateOwnRow(w, RetryRow))
      BY <2>3 DEF HandlerCloses, Fail, FailReplyLost, Complete
    <3> QED
      BY <3>1 DEF OwnsClaim, UpdateOwnRow, TypeOK
  <2>4. CASE CloseFails(w) \/ Notify(w) \/ NotifyRecovered(w) \/ \E err \in BOOLEAN : HandlerReturns(w, err)
    BY <2>4 DEF CloseFails, Notify, NotifyRecovered, HandlerReturns
  <2>5. ASSUME NEW S \in SUBSET ExpiredRows, Recover(w, S) PROVE rows'[j] = rows[j]
    BY <2>5 DEF Recover, ExpiredRows
  <2> QED
    BY <1>1, <2>1, <2>2, <2>3, <2>4, <2>5 DEF WorkerStep
<1>2. ASSUME NEW i \in Jobs, BackoffElapses(i) \/ ClaimExpires(i) \/ PurgeOldJobs(i)
      PROVE  rows'[j] = rows[j]
  BY <1>2 DEF BackoffElapses, ClaimExpires, PurgeOldJobs, TypeOK
<1>3. ASSUME NEW limit \in AttemptLimits, SetMaxAttempts(limit) PROVE rows'[j] = rows[j]
  BY <1>3 DEF SetMaxAttempts
<1>4. CASE Crash
  BY <1>4 DEF Crash
<1> QED
  BY <1>1, <1>2, <1>3, <1>4

\* A row appears only when its request is told so or told of an error.
LEMMA Arrivals ==
    ASSUME TypeOK, ExecTypeOK, [ExecNext]_vars, NEW j \in Jobs
    PROVE  /\ Requested(j)
           /\ rows[j].status = "absent" =>
                 \/ rows'[j] = rows[j]
                 \/ requests[j] = "enqueueing" /\ requests'[j] \in {"answered", "rejecting"}
<1> USE DEF ExecTypeOK
<1>1. ASSUME NEW w \in Workers, HandlerStep(w) PROVE requests' = requests
  BY <1>1 DEF HandlerStep, StartHandler, BeginDispatch, BeginCloses, BeginFails, DispatchBlocked,
              Dispatch, Finish, FinishFails, Return, FailAndFinalize, RecoverAndFinalize
<1>2. ASSUME NEW w \in Workers, HandlerStep(w) PROVE WorkerStep(w) \/ rows' = rows
  <2>1. CASE StartHandler(w) \/ BeginCloses(w) \/ Finish(w)
    BY <2>1 DEF StartHandler, BeginCloses, Finish, WorkerStep
  <2>2. CASE BeginDispatch(w) \/ BeginFails(w) \/ DispatchBlocked(w) \/ Dispatch(w) \/ FinishFails(w)
    BY <2>2 DEF BeginDispatch, BeginFails, DispatchBlocked, Dispatch, FinishFails, queueVars
  <2>3. CASE Return(w)
    BY <2>3 DEF Return, HandlerReturns
  <2>4. CASE FailAndFinalize(w) \/ RecoverAndFinalize(w)
    BY <2>4 DEF FailAndFinalize, RecoverAndFinalize, WorkerStep
  <2> QED
    BY <1>2, <2>1, <2>2, <2>3, <2>4 DEF HandlerStep
<1>3. ASSUME NEW i \in Jobs, RequestStep(i)
      PROVE  /\ Requested(j)
             /\ \/ rows'[j] = rows[j]
                \/ requests[j] = "enqueueing" /\ requests'[j] \in {"answered", "rejecting"}
  <2>1. CASE Submit(i) \/ SubmitEnqueueFails(i) \/ Reject(i) \/ DeleteRecord(i)
    BY <2>1 DEF Submit, SubmitEnqueueFails, Reject, DeleteRecord, Requested, queueVars
  <2>2. CASE SubmitEnqueue(i)
    BY <2>2 DEF SubmitEnqueue, Enqueue, Requested, TypeOK
  <2> QED
    BY <1>3, <2>1, <2>2 DEF RequestStep
<1>4. CASE QueueOnly
  <2>1. \/ \E w \in Workers : WorkerStep(w)
        \/ \E i \in Jobs : BackoffElapses(i) \/ ClaimExpires(i) \/ PurgeOldJobs(i)
        \/ \E limit \in AttemptLimits : SetMaxAttempts(limit)
    BY <1>4 DEF QueueOnly, WorkerStep
  <2>2. rows[j].status = "absent" => rows'[j] = rows[j]
    BY <2>1, AbsentStays
  <2> QED
    BY <1>4, <2>2 DEF QueueOnly, execVars, Requested
<1>5. CASE HubCrash
  BY <1>5 DEF HubCrash, Crash, Requested
<1>6. CASE UNCHANGED vars
  BY <1>6 DEF vars, queueVars, execVars, Requested
<1>7. ASSUME NEW w \in Workers, HandlerStep(w)
      PROVE  Requested(j) /\ (rows[j].status = "absent" => rows'[j] = rows[j])
  <2>1. rows[j].status = "absent" => rows'[j] = rows[j]
    BY <1>2, <1>7, AbsentStays
  <2> QED
    BY <1>1, <1>7, <2>1 DEF Requested
<1> QED
  BY <1>3, <1>4, <1>5, <1>6, <1>7 DEF ExecNext

\* An effect is caused by a worker that has the job.
LEMMA EffectsNeedWorker ==
    ASSUME ExecTypeOK, [ExecNext]_vars, NEW j \in Jobs
    PROVE  effects'[j] = effects[j] \/ \E w \in Workers : workers[w].job = j
<1> USE DEF ExecTypeOK
<1>1. ASSUME NEW w \in Workers, HandlerStep(w)
      PROVE  effects'[j] = effects[j] \/ workers[w].job = j
  <2>1. CASE Dispatch(w)
    BY <2>1 DEF Dispatch, Job
  <2>2. CASE ~Dispatch(w)
    BY <1>1, <2>2 DEF HandlerStep, StartHandler, BeginDispatch, BeginCloses, BeginFails,
       DispatchBlocked, Finish, FinishFails, Return, FailAndFinalize, RecoverAndFinalize
  <2> QED
    BY <2>1, <2>2
<1>2. CASE (\E i \in Jobs : RequestStep(i)) \/ QueueOnly \/ HubCrash \/ UNCHANGED vars
  BY <1>2 DEF RequestStep, Submit, SubmitEnqueue, SubmitEnqueueFails, Reject, DeleteRecord, QueueOnly,
              HubCrash, vars, execVars
<1> QED
  BY <1>1, <1>2 DEF ExecNext

\* Reject is the only writer of "failed to enqueue", and answers.
LEMMA RejectAnswers ==
    ASSUME ExecTypeOK, [ExecNext]_vars, NEW j \in Jobs,
           records[j] # "enqueue_failed", records'[j] = "enqueue_failed"
    PROVE  requests'[j] = "answered"
<1> USE DEF ExecTypeOK
<1>1. ASSUME NEW w \in Workers, HandlerStep(w) PROVE FALSE
  <2>1. CASE StartHandler(w) \/ BeginFails(w) \/ DispatchBlocked(w) \/ Dispatch(w) \/ FinishFails(w)
             \/ Return(w)
    BY <2>1 DEF StartHandler, BeginFails, DispatchBlocked, Dispatch, FinishFails, Return
  <2>2. CASE BeginDispatch(w) \/ BeginCloses(w)
    BY <2>2 DEF BeginDispatch, BeginCloses
  <2>3. CASE Finish(w)
    <3>1. stages[w].result \in Results
      BY DEF Stages
    <3> QED
      BY <2>3, <3>1 DEF Finish, Results
  <2>4. CASE FailAndFinalize(w) \/ RecoverAndFinalize(w)
    <3>1. records'[j] \in {records[j], Finalize(records[j])}
      BY <2>4 DEF FailAndFinalize, RecoverAndFinalize, FinalizeDead
    <3> QED
      BY <3>1 DEF Finalize
  <2> QED
    BY <1>1, <2>1, <2>2, <2>3, <2>4 DEF HandlerStep
<1>2. ASSUME NEW i \in Jobs, RequestStep(i) PROVE requests'[j] = "answered"
  BY <1>2 DEF RequestStep, Submit, SubmitEnqueue, SubmitEnqueueFails, Reject, DeleteRecord
<1>3. CASE QueueOnly \/ HubCrash \/ UNCHANGED vars
  BY <1>3 DEF QueueOnly, HubCrash, vars, execVars
<1> QED
  BY <1>1, <1>2, <1>3 DEF ExecNext

LEMMA UnqueuedInductive ==
    /\ TypeOK /\ MarkerInv /\ UnqueuedInv /\ [ExecNext]_vars
    /\ \A j \in Jobs : requests[j] = "enqueueing" /\ requests'[j] = "rejecting" => rows'[j] = rows[j]
    => UnqueuedInv'
<1> SUFFICES ASSUME TypeOK, MarkerInv, UnqueuedInv, [ExecNext]_vars, NEW j \in Jobs,
                    requests[j] = "enqueueing" /\ requests'[j] = "rejecting" => rows'[j] = rows[j]
             PROVE  Unqueued(j)'
  BY DEF UnqueuedInv
<1>1. ExecTypeOK /\ Unqueued(j) /\ RecordStep(j)
  BY RecordSteps DEF MarkerInv, UnqueuedInv
<1>2. /\ Requested(j)
      /\ rows[j].status = "absent" =>
            \/ rows'[j] = rows[j]
            \/ requests[j] = "enqueueing" /\ requests'[j] \in {"answered", "rejecting"}
  BY <1>1, Arrivals
<1>3. requests'[j] \in {"none", "enqueueing", "rejecting"} => rows'[j].status = "absent"
  BY <1>1, <1>2 DEF Unqueued, Requested
<1>4. records'[j] = "enqueue_failed" => requests'[j] = "answered" /\ rows'[j].status = "absent"
  <2>1. CASE records[j] = "enqueue_failed"
    BY <1>1, <1>2, <2>1 DEF Unqueued, Requested
  <2>2. CASE records[j] # "enqueue_failed" /\ records'[j] = "enqueue_failed"
    <3>1. requests[j] = "rejecting"
      BY <1>1, <2>2 DEF RecordStep, Results
    <3>2. requests'[j] = "answered"
      BY <1>1, <2>2, RejectAnswers
    <3> QED
      BY <1>1, <1>2, <3>1, <3>2 DEF Unqueued
  <2> QED
    BY <2>1, <2>2
<1>5. ASSUME rows'[j].status = "absent"
      PROVE  effects'[j] = 0 /\ \A w \in Workers : workers'[w].job # j
  <2>1. rows[j].status = "absent"
    <3>1. RowStep(j)
      BY QueueSteps, RowSteps
    <3>2. rows[j] \in Row
      BY DEF TypeOK
    <3> QED
      BY <1>5, <3>1, <3>2 DEF RowStep, Row, NewRow, ClaimRow, RetryRow, CompleteRow
  <2>2. effects[j] = 0 /\ \A w \in Workers : workers[w].job # j
    BY <1>1, <2>1 DEF Unqueued
  <2>3. effects'[j] = 0
    BY <1>1, <2>2, EffectsNeedWorker
  <2>4. ASSUME NEW w \in Workers PROVE workers'[w].job # j
    <3>1. WorkerChange(w)
      BY QueueSteps, WorkerChanges
    <3>2. CASE Receives(w)
      BY <1>5, <3>2 DEF Receives, ClaimRow, ClaimingWorker, TypeOK, Row
    <3>3. CASE ~Receives(w)
      BY <2>2, <3>1, <3>3, JobsAssumption DEF WorkerChange, Keeps, IdleWorker
    <3> QED
      BY <3>2, <3>3
  <2> QED
    BY <2>3, <2>4
<1> QED
  BY <1>3, <1>4, <1>5 DEF Unqueued

\* If an Enqueue error always meant that nothing was inserted, "failed to
\* enqueue" would be true of every run: redeliveries, crashes, deletions and the
\* unconditional UPDATE of the request do not make it false by themselves.
THEOREM EnqueueErrorsTruthful ==
    ExecSpec /\ ErrorMeansNotInserted => []EnqueueFailureMeansNotExecuted
<1>1. ExecInit => UnqueuedInv
  <2> SUFFICES ASSUME ExecInit, NEW j \in Jobs PROVE Unqueued(j)
    BY DEF UnqueuedInv
  <2>1. rows[j].status = "absent" /\ records[j] = "absent" /\ effects[j] = 0
    BY DEF ExecInit, Init, AbsentRow
  <2>2. \A w \in Workers : workers[w].job # j
    BY JobsAssumption DEF ExecInit, Init, IdleWorker
  <2> QED
    BY <2>1, <2>2 DEF Unqueued
<1>2. UnqueuedInv => EnqueueFailureMeansNotExecuted
  BY DEF UnqueuedInv, Unqueued, EnqueueFailureMeansNotExecuted
<1> DEFINE Honest == \A j \in Jobs : requests[j] = "enqueueing" /\ requests'[j] = "rejecting"
                                         => rows'[j] = rows[j]
<1>3. TypeOK /\ MarkerInv /\ UnqueuedInv /\ [ExecNext]_vars /\ [Honest]_vars => UnqueuedInv'
  <2> SUFFICES ASSUME TypeOK, MarkerInv, UnqueuedInv, [ExecNext]_vars, [Honest]_vars
               PROVE  UnqueuedInv'
    OBVIOUS
  <2>1. UNCHANGED vars => Honest
    BY DEF vars, queueVars, execVars
  <2>2. Honest
    BY <2>1
  <2> QED
    BY <2>2, UnqueuedInductive
<1>4. ErrorMeansNotInserted <=> [][Honest]_vars
  BY DEF ErrorMeansNotInserted
<1> HIDE DEF Honest
<1> QED
  BY <1>1, <1>2, <1>3, <1>4, MarkerAlways, PTL DEF ExecSpec
=============================================================================
