--------------------------- MODULE JobQueueProofs ---------------------------
(***************************************************************************)
(* Proofs, for every set of jobs, workers and attempt limits, of the       *)
(* safety properties of JobQueue.                                          *)
(***************************************************************************)
EXTENDS JobQueue, TLAPS

-----------------------------------------------------------------------------
(* Facts about the statements and about worker records.                    *)

\* Every UPDATE statement turns a row into a row.
LEMMA RowUpdates ==
    ASSUME NEW r \in Row, NEW token \in Nat, NEW limit \in Nat
    PROVE  /\ NewRow(limit) \in Row
           /\ ClaimRow(r, token) \in Row
           /\ RetryRow(r) \in Row
           /\ CompleteRow(r) \in Row
<1>1. NewRow(limit) \in Row
  BY DEF Row, RowStatus, NewRow, NoToken
<1>2. ClaimRow(r, token) \in Row
  <2>1. r.attempts + 1 \in Nat
    BY DEF Row
  <2> QED
    BY <2>1 DEF Row, RowStatus, ClaimRow
<1>3. RetryRow(r) \in Row
  BY DEF Row, RowStatus, RetryRow, NoToken
<1>4. CompleteRow(r) \in Row
  BY DEF Row, RowStatus, CompleteRow, NoToken
<1> QED
  BY <1>1, <1>2, <1>3, <1>4

\* The worker records that the actions build are worker records.
LEMMA WorkerUpdates ==
    ASSUME NEW worker \in Worker
    PROVE  /\ IdleWorker \in Worker
           /\ \A j \in Jobs, r \in Row : ClaimingWorker(j, r) \in Worker
           /\ \A pc \in WorkerPC : [worker EXCEPT !.pc = pc] \in Worker
           /\ \A flag \in BOOLEAN : [worker EXCEPT !.lost = flag] \in Worker
           /\ \A flag \in BOOLEAN : [worker EXCEPT !.completed = flag] \in Worker
<1>1. IdleWorker \in Worker
  BY DEF IdleWorker, Worker, WorkerPC, NoToken
<1>2. ASSUME NEW j \in Jobs, NEW r \in Row PROVE ClaimingWorker(j, r) \in Worker
  BY DEF ClaimingWorker, Worker, WorkerPC, Row
<1> QED
  BY <1>1, <1>2 DEF Worker

-----------------------------------------------------------------------------
(* Type correctness.                                                       *)

LEMMA TypeInductive == TypeOK /\ [Next]_queueVars => TypeOK'
<1> SUFFICES ASSUME TypeOK, [Next]_queueVars PROVE TypeOK'
  OBVIOUS
<1> USE DEF TypeOK
<1>1. ASSUME NEW j \in Jobs, ClaimStatement(j)
      PROVE  /\ rows' \in [Jobs -> Row] /\ issued' \in Nat
             /\ UNCHANGED <<maxAttempts, recovered, notices>>
  <2>1. issued + 1 \in Nat
    OBVIOUS
  <2>2. ClaimRow(rows[j], issued + 1) \in Row
    BY <2>1, RowUpdates
  <2> QED
    BY <1>1, <2>1, <2>2 DEF ClaimStatement
<1>2. ASSUME NEW w \in Workers, Claim(w) PROVE TypeOK'
  <2>1. PICK j \in Jobs :
          /\ ClaimStatement(j)
          /\ workers' = [workers EXCEPT ![w] = ClaimingWorker(j, rows'[j])]
    BY <1>2 DEF Claim
  <2>2. ClaimingWorker(j, rows'[j]) \in Worker
    BY <1>1, <2>1, WorkerUpdates
  <2> QED
    BY <1>1, <2>1, <2>2
<1>3. ASSUME NEW w \in Workers, ClaimReplyLost(w) PROVE TypeOK'
  BY <1>1, <1>3 DEF ClaimReplyLost
<1>4. ASSUME NEW w \in Workers PROVE Release(w) => workers' \in [Workers -> Worker]
  BY WorkerUpdates DEF Release
<1>5. ASSUME NEW w \in Workers, NEW pc \in WorkerPC
      PROVE  GoTo(w, pc) => workers' \in [Workers -> Worker]
  BY WorkerUpdates DEF GoTo
<1>6. ASSUME NEW w \in Workers, RenewClaim(w) PROVE TypeOK'
  <2>1. CASE OwnsClaim(w)
    <3>1. [rows[workers[w].job] EXCEPT !.expired = FALSE] \in Row
      BY <2>1 DEF Row, OwnsClaim
    <3> QED
      BY <1>6, <2>1, <3>1 DEF RenewClaim, OwnsClaim
  <2>2. CASE ~OwnsClaim(w)
    <3>1. [workers[w] EXCEPT !.lost = TRUE] \in Worker
      BY WorkerUpdates
    <3> QED
      BY <1>6, <2>2, <3>1 DEF RenewClaim
  <2> QED
    BY <2>1, <2>2
<1>7. ASSUME NEW w \in Workers, OwnsClaim(w)
      PROVE  /\ UpdateOwnRow(w, RetryRow) => rows' \in [Jobs -> Row]
             /\ UpdateOwnRow(w, CompleteRow) => rows' \in [Jobs -> Row]
  BY <1>7, RowUpdates DEF UpdateOwnRow, OwnsClaim
<1>8. ASSUME NEW w \in Workers, HandlerCloses(w) PROVE TypeOK'
  <2>1. ASSUME NEW acknowledged \in BOOLEAN
        PROVE  [workers[w] EXCEPT !.completed = acknowledged] \in Worker
    BY WorkerUpdates
  <2> QED
    BY <1>7, <1>8, <2>1 DEF HandlerCloses
<1>9. ASSUME NEW w \in Workers, NEW err \in BOOLEAN, HandlerReturns(w, err) PROVE TypeOK'
  <2>1. (IF err THEN "failing" ELSE "completing") \in WorkerPC
    BY DEF WorkerPC
  <2> QED
    BY <1>4, <1>5, <1>9, <2>1 DEF HandlerReturns
<1>10. ASSUME NEW w \in Workers, Fail(w) \/ FailReplyLost(w) PROVE TypeOK'
  <2>1. rows' \in [Jobs -> Row]
    BY <1>7, <1>10 DEF Fail, FailReplyLost
  <2>2. "notifying" \in WorkerPC
    BY DEF WorkerPC
  <2>3. workers' \in [Workers -> Worker]
    BY <1>4, <1>5, <1>10, <2>2 DEF Fail, FailReplyLost
  <2> QED
    BY <1>10, <2>1, <2>3 DEF Fail, FailReplyLost
<1>11. ASSUME NEW w \in Workers, Complete(w) \/ CloseFails(w) PROVE TypeOK'
  BY <1>4, <1>7, <1>11 DEF Complete, CloseFails
<1>12. ASSUME NEW w \in Workers, Notify(w) PROVE TypeOK'
  <2> \A j \in Jobs : notices[j] + 1 \in Nat
    OBVIOUS
  <2>1. notices' \in [Jobs -> Nat]
    BY <1>12 DEF Notify
  <2>2. workers' \in [Workers -> Worker]
    BY <1>4, <1>12 DEF Notify
  <2> QED
    BY <1>12, <2>1, <2>2 DEF Notify
<1>13. ASSUME NEW w \in Workers, NEW S \in SUBSET ExpiredRows, Recover(w, S) PROVE TypeOK'
  <2>1. \A j \in Jobs : RetryRow(rows[j]) \in Row
    BY RowUpdates
  <2> QED
    BY <1>13, <2>1 DEF Recover, ExpiredRows
<1>14. ASSUME NEW w \in Workers, NotifyRecovered(w) PROVE TypeOK'
  <2> \A j \in Jobs : notices[j] + 1 \in Nat
    OBVIOUS
  <2>1. notices' \in [Jobs -> Nat]
    BY <1>14 DEF NotifyRecovered
  <2> QED
    BY <1>14, <2>1 DEF NotifyRecovered
<1>15. ASSUME NEW j \in Jobs, JobStep(j) PROVE TypeOK'
  <2>1. NewRow(maxAttempts) \in Row
    BY RowUpdates, JobsAssumption
  <2>2. /\ [rows[j] EXCEPT !.due = TRUE] \in Row
        /\ [rows[j] EXCEPT !.expired = TRUE] \in Row
        /\ [rows[j] EXCEPT !.status = "purged"] \in Row
    BY DEF Row, RowStatus
  <2> QED
    BY <1>15, <2>1, <2>2 DEF JobStep, Enqueue, BackoffElapses, ClaimExpires, PurgeOldJobs
<1>16. ASSUME NEW limit \in AttemptLimits, SetMaxAttempts(limit) PROVE TypeOK'
  BY <1>16 DEF SetMaxAttempts
<1>17. CASE Crash
  BY <1>17, WorkerUpdates DEF Crash, IdleWorker, Worker, WorkerPC, NoToken
<1>18. CASE UNCHANGED queueVars
  BY <1>18 DEF queueVars
<1> QED
  BY <1>2, <1>3, <1>6, <1>8, <1>9, <1>10, <1>11, <1>12, <1>13, <1>14, <1>15, <1>16,
     <1>17, <1>18 DEF Next, WorkerStep

\* Type correctness: no statement, lost reply, crash or recovery pass takes the
\* queue out of its types.
THEOREM TypeCorrect == Spec => []TypeOK
<1>1. Init => TypeOK
  BY JobsAssumption DEF Init, TypeOK, AbsentRow, Row, RowStatus, IdleWorker, Worker, WorkerPC, NoToken
<1> QED
  BY <1>1, TypeInductive, PTL DEF Spec

-----------------------------------------------------------------------------
(* How one step changes one row.  Every statement is fenced by the status  *)
(* it expects, so these seven cases are all there are.                     *)

RowStep(j) ==
    \/ rows'[j] = rows[j]
    \/ rows[j].status = "absent" /\ rows'[j] = NewRow(maxAttempts)
    \/ rows[j].status = "queued" /\ rows'[j] = [rows[j] EXCEPT !.due = TRUE]
    \/ rows[j].status = "queued" /\ rows'[j] = ClaimRow(rows[j], issued + 1)
    \/ rows[j].status = "processing" /\ \E b \in BOOLEAN : rows'[j] = [rows[j] EXCEPT !.expired = b]
    \/ rows[j].status = "processing" /\ rows'[j] \in {RetryRow(rows[j]), CompleteRow(rows[j])}
    \/ /\ rows[j].status \in {"completed", "dead_lettered"}
       /\ rows'[j] = [rows[j] EXCEPT !.status = "purged"]

LEMMA RowSteps ==
    ASSUME TypeOK, [Next]_queueVars, NEW j \in Jobs
    PROVE  RowStep(j)
<1> USE DEF TypeOK
<1>1. ASSUME NEW i \in Jobs, ClaimStatement(i) PROVE RowStep(j)
  BY <1>1 DEF ClaimStatement, RowStep
<1>2. ASSUME NEW w \in Workers, Claim(w) \/ ClaimReplyLost(w) PROVE RowStep(j)
  BY <1>1, <1>2 DEF Claim, ClaimReplyLost
<1>3. ASSUME NEW w \in Workers, RenewClaim(w) PROVE RowStep(j)
  <2>1. CASE OwnsClaim(w)
    <3>1. rows' = [rows EXCEPT ![workers[w].job].expired = FALSE]
      BY <1>3, <2>1 DEF RenewClaim
    <3>2. CASE j = workers[w].job
      <4>1. rows'[j] = [rows[j] EXCEPT !.expired = FALSE]
        BY <3>1, <3>2
      <4> QED
        BY <2>1, <3>2, <4>1 DEF RowStep, OwnsClaim
    <3>3. CASE j # workers[w].job
      BY <3>1, <3>3 DEF RowStep
    <3> QED
      BY <3>2, <3>3
  <2>2. CASE ~OwnsClaim(w)
    BY <1>3, <2>2 DEF RenewClaim, RowStep
  <2> QED
    BY <2>1, <2>2
<1>4. ASSUME NEW w \in Workers, OwnsClaim(w),
             UpdateOwnRow(w, RetryRow) \/ UpdateOwnRow(w, CompleteRow)
      PROVE  RowStep(j)
  BY <1>4 DEF OwnsClaim, UpdateOwnRow, RowStep
<1>5. ASSUME NEW w \in Workers, HandlerCloses(w) \/ Fail(w) \/ FailReplyLost(w) \/ Complete(w)
      PROVE  RowStep(j)
  BY <1>4, <1>5 DEF HandlerCloses, Fail, FailReplyLost, Complete
<1>6. ASSUME rows' = rows PROVE RowStep(j)
  BY <1>6 DEF RowStep
<1>7. ASSUME NEW w \in Workers, CloseFails(w) \/ Notify(w) \/ NotifyRecovered(w)
      PROVE  RowStep(j)
  BY <1>6, <1>7 DEF CloseFails, Notify, NotifyRecovered
<1>8. ASSUME NEW w \in Workers, NEW err \in BOOLEAN, HandlerReturns(w, err) PROVE RowStep(j)
  BY <1>6, <1>8 DEF HandlerReturns
<1>9. ASSUME NEW w \in Workers, NEW S \in SUBSET ExpiredRows, Recover(w, S) PROVE RowStep(j)
  <2>1. rows'[j] = IF j \in S THEN RetryRow(rows[j]) ELSE rows[j]
    BY <1>9 DEF Recover
  <2>2. j \in S => rows[j].status = "processing"
    BY DEF ExpiredRows
  <2> QED
    BY <2>1, <2>2 DEF RowStep
<1>10. ASSUME NEW i \in Jobs, JobStep(i) PROVE RowStep(j)
  <2>1. CASE Enqueue(i)
    BY <2>1 DEF Enqueue, RowStep
  <2>2. CASE BackoffElapses(i)
    BY <2>2 DEF BackoffElapses, RowStep
  <2>3. CASE ClaimExpires(i)
    <3>1. i = j => rows'[j] = [rows[j] EXCEPT !.expired = TRUE]
      BY <2>3 DEF ClaimExpires
    <3>2. i # j => rows'[j] = rows[j]
      BY <2>3 DEF ClaimExpires
    <3> QED
      BY <2>3, <3>1, <3>2 DEF ClaimExpires, RowStep
  <2>4. CASE PurgeOldJobs(i)
    BY <2>4 DEF PurgeOldJobs, RowStep
  <2> QED
    BY <1>10, <2>1, <2>2, <2>3, <2>4 DEF JobStep
<1>11. ASSUME NEW limit \in AttemptLimits, SetMaxAttempts(limit) PROVE RowStep(j)
  BY <1>6, <1>11 DEF SetMaxAttempts
<1>12. CASE Crash \/ UNCHANGED queueVars
  BY <1>6, <1>12 DEF Crash, queueVars
<1> QED
  BY <1>2, <1>3, <1>5, <1>7, <1>8, <1>9, <1>10, <1>11, <1>12 DEF Next, WorkerStep

-----------------------------------------------------------------------------
(* The delivery budget and the finality of closed rows need only RowStep.  *)

LEMMA BudgetInductive == TypeOK /\ BudgetRespected /\ [Next]_queueVars => BudgetRespected'
<1> SUFFICES ASSUME TypeOK, BudgetRespected, [Next]_queueVars, NEW j \in Jobs
             PROVE  /\ rows'[j].status = "queued" => rows'[j].attempts < rows'[j].max
                    /\ rows'[j].attempts <= rows'[j].max
                    /\ rows'[j].status = "dead_lettered" => rows'[j].attempts = rows'[j].max
  BY DEF BudgetRespected
<1>1. RowStep(j)
  BY RowSteps
<1>2. rows[j] \in Row /\ maxAttempts \in Nat \ {0}
  BY JobsAssumption DEF TypeOK
<1>3. /\ rows[j].status = "queued" => rows[j].attempts < rows[j].max
      /\ rows[j].attempts <= rows[j].max
      /\ rows[j].status = "dead_lettered" => rows[j].attempts = rows[j].max
  BY DEF BudgetRespected
<1>4. CASE rows'[j] = rows[j] \/ rows'[j] = NewRow(maxAttempts)
  BY <1>2, <1>3, <1>4 DEF NewRow
<1>5. CASE \/ rows[j].status = "queued" /\ rows'[j] = [rows[j] EXCEPT !.due = TRUE]
           \/ \E b \in BOOLEAN : rows'[j] = [rows[j] EXCEPT !.expired = b]
           \/ rows'[j] = [rows[j] EXCEPT !.status = "purged"]
  BY <1>2, <1>3, <1>5 DEF Row
<1>6. CASE rows[j].status = "queued" /\ rows'[j] = ClaimRow(rows[j], issued + 1)
  <2>1. /\ rows'[j].status = "processing"
        /\ rows'[j].attempts = rows[j].attempts + 1
        /\ rows'[j].max = rows[j].max
    BY <1>2, <1>6 DEF ClaimRow, Row
  <2> QED
    BY <1>2, <1>3, <1>6, <2>1 DEF Row
<1>7. CASE rows'[j] = RetryRow(rows[j])
  <2>1. /\ rows'[j].status = IF rows[j].attempts >= rows[j].max THEN "dead_lettered" ELSE "queued"
        /\ rows'[j].attempts = rows[j].attempts
        /\ rows'[j].max = rows[j].max
    BY <1>2, <1>7 DEF RetryRow, Row
  <2> QED
    BY <1>2, <1>3, <2>1 DEF Row
<1>8. CASE rows'[j] = CompleteRow(rows[j])
  BY <1>2, <1>3, <1>8 DEF CompleteRow, Row
<1> QED
  BY <1>1, <1>4, <1>5, <1>6, <1>7, <1>8 DEF RowStep

\* The delivery budget: for every set of jobs, workers and limits, no job is
\* claimed more often than its max_attempts, and it is dead-lettered exactly when
\* they are used up.
THEOREM BudgetCorrect == Spec => []BudgetRespected
<1>1. Init => TypeOK /\ BudgetRespected
  BY JobsAssumption DEF Init, TypeOK, BudgetRespected, AbsentRow, Row, RowStatus, IdleWorker,
                        Worker, WorkerPC, NoToken
<1> QED
  BY <1>1, TypeInductive, BudgetInductive, PTL DEF Spec

\* The limits the delay of the UPDATE is computed safely for.
SmallLimits == \A limit \in AttemptLimits : limit <= MaxBackoffExponent + 2

\* max_attempts of a row is a limit that was configured, or that of no row yet.
LimitsConfigured == \A j \in Jobs : rows[j].max \in AttemptLimits \cup {0}

\* The delay of a retry fits in int4, for every row.
DelaysFit == \A j \in Jobs : BackoffFits(rows[j])

LEMMA LimitsInductive == TypeOK /\ LimitsConfigured /\ [Next]_queueVars => LimitsConfigured'
<1> SUFFICES ASSUME TypeOK, LimitsConfigured, [Next]_queueVars, NEW j \in Jobs
             PROVE  rows'[j].max \in AttemptLimits \cup {0}
  BY DEF LimitsConfigured
<1>1. RowStep(j) /\ rows[j] \in Row /\ maxAttempts \in AttemptLimits
  BY RowSteps DEF TypeOK
<1>2. rows'[j].max = rows[j].max \/ rows'[j] = NewRow(maxAttempts)
  BY <1>1 DEF RowStep, Row, ClaimRow, RetryRow, CompleteRow
<1> QED
  BY <1>1, <1>2 DEF LimitsConfigured, NewRow

\* With every configurable limit at most 32, the backoff of Fail and
\* RecoverStaleClaims is computed without leaving int4 for every row and every
\* number of attempts it can reach: the statement that a larger limit makes fail
\* for ever never fails for that reason.
THEOREM BackoffAlwaysFits == SmallLimits /\ Spec => []DelaysFit
<1> SUFFICES ASSUME SmallLimits PROVE Spec => []DelaysFit
  OBVIOUS
<1>1. Init => LimitsConfigured
  <2>1. AbsentRow.max = 0
    BY DEF AbsentRow
  <2> QED
    BY <2>1 DEF Init, LimitsConfigured
<1>2. TypeOK /\ LimitsConfigured /\ BudgetRespected => DelaysFit
  <2> SUFFICES ASSUME TypeOK, LimitsConfigured, BudgetRespected, NEW j \in Jobs
               PROVE  BackoffFits(rows[j])
    BY DEF DelaysFit
  <2>1. rows[j].attempts \in Nat /\ rows[j].max \in Nat /\ rows[j].attempts <= rows[j].max
    BY DEF TypeOK, Row, BudgetRespected
  <2>2. rows[j].max <= MaxBackoffExponent + 2
    BY <2>1 DEF LimitsConfigured, SmallLimits, MaxBackoffExponent
  <2> QED
    BY <2>1, <2>2 DEF BackoffFits, MaxBackoffExponent
<1> QED
  BY <1>1, <1>2, TypeCorrect, BudgetCorrect, LimitsInductive, PTL DEF Spec

\* A closed row stays closed with the verdict it has, whichever worker, recovery
\* loop or retention pass comes later.
THEOREM ClosedRowsFinal == Spec => ClosedIsFinal
<1>1. ASSUME TypeOK, [Next]_queueVars
      PROVE  \A j \in Jobs : rows[j].status \in Closed =>
                 rows'[j].status \in {rows[j].status, "purged"}
  <2> SUFFICES ASSUME NEW j \in Jobs, rows[j].status \in Closed
               PROVE  rows'[j].status \in {rows[j].status, "purged"}
    OBVIOUS
  <2>1. RowStep(j) /\ rows[j] \in Row
    BY <1>1, RowSteps DEF TypeOK
  <2> QED
    BY <2>1 DEF RowStep, Closed, Row
<1> QED
  BY <1>1, TypeCorrect, PTL DEF Spec, ClosedIsFinal

-----------------------------------------------------------------------------
(* How one step changes what one worker believes.                          *)

\* The worker receives a new claim.
Receives(w) ==
    \E j \in Jobs :
        /\ issued' = issued + 1
        /\ rows' = [rows EXCEPT ![j] = ClaimRow(@, issued + 1)]
        /\ workers' = [workers EXCEPT ![w] = ClaimingWorker(j, rows'[j])]

\* The worker keeps its snapshot of the claim.
Keeps(w) ==
    /\ workers'[w].job = workers[w].job
    /\ workers'[w].token = workers[w].token
    /\ workers'[w].exhausted = workers[w].exhausted
    /\ workers'[w].completed =>
          \/ workers[w].completed
          \/ workers[w].job \in Jobs /\ rows'[workers[w].job].status = "completed"
    /\ workers'[w].lost => workers[w].lost \/ ~OwnsClaim(w)

WorkerChange(w) == workers'[w] = IdleWorker \/ Keeps(w) \/ Receives(w)

LEMMA WorkerChanges ==
    ASSUME TypeOK, [Next]_queueVars, NEW w \in Workers
    PROVE  WorkerChange(w) /\ issued' \in {issued, issued + 1}
<1> USE DEF TypeOK
<1>1. ASSUME workers' = workers PROVE WorkerChange(w)
  BY <1>1 DEF WorkerChange, Keeps
<1>2. ASSUME NEW v \in Workers, Claim(v) PROVE WorkerChange(w) /\ issued' = issued + 1
  <2>1. PICK j \in Jobs :
          /\ ClaimStatement(j)
          /\ workers' = [workers EXCEPT ![v] = ClaimingWorker(j, rows'[j])]
    BY <1>2 DEF Claim
  <2>2. v = w => Receives(w)
    BY <2>1 DEF Receives, ClaimStatement
  <2>3. v # w => Keeps(w)
    BY <2>1 DEF Keeps
  <2> QED
    BY <2>1, <2>2, <2>3 DEF WorkerChange, ClaimStatement
<1>3. ASSUME NEW v \in Workers, ClaimReplyLost(v) PROVE WorkerChange(w) /\ issued' = issued + 1
  BY <1>1, <1>3 DEF ClaimReplyLost, ClaimStatement
<1>4. ASSUME NEW v \in Workers, NEW pc \in WorkerPC, GoTo(v, pc) \/ Release(v)
      PROVE  WorkerChange(w)
  <2>1. CASE GoTo(v, pc)
    <3>1. workers'[w] = IF w = v THEN [workers[w] EXCEPT !.pc = pc] ELSE workers[w]
      BY <2>1 DEF GoTo
    <3> QED
      BY <3>1 DEF WorkerChange, Keeps, Worker
  <2>2. CASE Release(v)
    BY <2>2 DEF Release, WorkerChange, Keeps
  <2> QED
    BY <1>4, <2>1, <2>2
<1>5. ASSUME NEW v \in Workers, RenewClaim(v) PROVE WorkerChange(w) /\ issued' = issued
  <2>1. CASE workers' = workers
    BY <1>1, <1>5, <2>1 DEF RenewClaim
  <2>2. CASE workers' = [workers EXCEPT ![v].lost = TRUE]
    <3>1. workers'[w] = IF w = v THEN [workers[w] EXCEPT !.lost = TRUE] ELSE workers[w]
      BY <2>2
    <3> QED
      BY <1>5, <3>1 DEF RenewClaim, WorkerChange, Keeps, Worker
  <2> QED
    BY <1>5, <2>1, <2>2 DEF RenewClaim
<1>6. ASSUME NEW v \in Workers, HandlerCloses(v) PROVE WorkerChange(w) /\ issued' = issued
  <2>1. PICK a \in BOOLEAN : workers' = [workers EXCEPT ![v].completed = a]
    BY <1>6 DEF HandlerCloses
  <2>2. workers'[w] = IF w = v THEN [workers[w] EXCEPT !.completed = a] ELSE workers[w]
    BY <2>1
  <2>3. workers[v].job \in Jobs /\ rows'[workers[v].job] = CompleteRow(rows[workers[v].job])
    BY <1>6 DEF HandlerCloses, OwnsClaim, UpdateOwnRow
  <2>4. rows'[workers[v].job].status = "completed"
    BY <2>3 DEF CompleteRow, Row
  <2> QED
    BY <1>6, <2>2, <2>3, <2>4 DEF HandlerCloses, WorkerChange, Keeps, Worker
<1>7. {"failing", "completing", "notifying"} \subseteq WorkerPC
  BY DEF WorkerPC
<1>8. ASSUME NEW v \in Workers, NEW err \in BOOLEAN, HandlerReturns(v, err)
      PROVE  WorkerChange(w) /\ issued' = issued
  <2>1. (IF err THEN "failing" ELSE "completing") \in WorkerPC
    BY <1>7
  <2> QED
    BY <1>4, <1>8, <2>1 DEF HandlerReturns
<1>9. ASSUME NEW v \in Workers,
             Fail(v) \/ FailReplyLost(v) \/ Complete(v) \/ CloseFails(v) \/ Notify(v)
      PROVE  WorkerChange(w) /\ issued' = issued
  BY <1>4, <1>7, <1>9 DEF Fail, FailReplyLost, Complete, CloseFails, Notify
<1>10. ASSUME NEW v \in Workers, NotifyRecovered(v) PROVE WorkerChange(w) /\ issued' = issued
  BY <1>1, <1>10 DEF NotifyRecovered
<1>11. ASSUME NEW v \in Workers, NEW S \in SUBSET ExpiredRows, Recover(v, S)
       PROVE  WorkerChange(w) /\ issued' = issued
  BY <1>1, <1>11 DEF Recover
<1>12. ASSUME NEW j \in Jobs, JobStep(j) PROVE WorkerChange(w) /\ issued' = issued
  BY <1>1, <1>12 DEF JobStep, Enqueue, BackoffElapses, ClaimExpires, PurgeOldJobs
<1>13. ASSUME NEW limit \in AttemptLimits, SetMaxAttempts(limit)
       PROVE  WorkerChange(w) /\ issued' = issued
  BY <1>1, <1>13 DEF SetMaxAttempts
<1>14. CASE Crash
  BY <1>14 DEF Crash, WorkerChange
<1>15. CASE UNCHANGED queueVars
  BY <1>1, <1>15 DEF queueVars
<1> QED
  BY <1>2, <1>3, <1>5, <1>6, <1>8, <1>9, <1>10, <1>11, <1>12, <1>13, <1>14, <1>15
     DEF Next, WorkerStep

-----------------------------------------------------------------------------
(* Fencing.  Tokens are handed out once, so two workers never hold the     *)
(* same one, and a worker that owns its claim has an up-to-date snapshot.  *)

TokensFresh == \A w \in Workers : workers[w].token <= issued

TokensDistinct ==
    \A v, w \in Workers :
        v # w /\ workers[v].job \in Jobs /\ workers[w].job \in Jobs =>
            workers[v].token # workers[w].token

SnapshotCurrent ==
    \A w \in Workers :
        OwnsClaim(w) =>
            workers[w].exhausted =
                (rows[workers[w].job].attempts >= rows[workers[w].job].max)

CompletionDurable ==
    \A w \in Workers :
        workers[w].completed =>
            /\ workers[w].job \in Jobs
            /\ rows[workers[w].job].status \in {"completed", "purged"}

LostGone == \A w \in Workers : workers[w].lost => ~OwnsClaim(w)

FencingInv ==
    /\ TypeOK /\ TokensFresh /\ TokensDistinct /\ SnapshotCurrent
    /\ CompletionDurable /\ LostGone

LEMMA FencingInductive == FencingInv /\ [Next]_queueVars => FencingInv'
<1> SUFFICES ASSUME FencingInv, [Next]_queueVars PROVE FencingInv'
  OBVIOUS
<1>1. TypeOK /\ TypeOK'
  BY TypeInductive DEF FencingInv
<1>2. \A w \in Workers : WorkerChange(w) /\ issued' \in {issued, issued + 1}
  BY <1>1, WorkerChanges
<1>3. \A j \in Jobs : RowStep(j)
  BY <1>1, RowSteps
<1>4. ASSUME NEW w \in Workers, Receives(w)
      PROVE  /\ workers'[w].job \in Jobs
             /\ workers'[w].token = issued + 1
             /\ issued' = issued + 1
             /\ ~workers'[w].completed /\ ~workers'[w].lost
             /\ workers'[w].exhausted =
                   (rows'[workers'[w].job].attempts >= rows'[workers'[w].job].max)
             /\ \A v \in Workers : v # w => workers'[v] = workers[v]
  <2>1. PICK j \in Jobs :
          /\ issued' = issued + 1
          /\ rows' = [rows EXCEPT ![j] = ClaimRow(@, issued + 1)]
          /\ workers' = [workers EXCEPT ![w] = ClaimingWorker(j, rows'[j])]
    BY <1>4 DEF Receives
  <2>2. workers'[w] = ClaimingWorker(j, rows'[j])
    BY <1>1, <2>1 DEF TypeOK
  <2>3. rows'[j].token = issued + 1
    BY <1>1, <2>1 DEF TypeOK, ClaimRow, Row
  <2> QED
    BY <1>1, <2>1, <2>2, <2>3 DEF TypeOK, ClaimingWorker
<1>5. IdleWorker.job \notin Jobs /\ IdleWorker.token = 0 /\ ~IdleWorker.completed /\ ~IdleWorker.lost
  BY JobsAssumption DEF IdleWorker, NoToken
<1>6. issued \in Nat /\ \A w \in Workers : workers[w].token \in Nat
  BY <1>1 DEF TypeOK, Worker
<1>7. TokensFresh'
  <2> SUFFICES ASSUME NEW w \in Workers PROVE workers'[w].token <= issued'
    BY DEF TokensFresh
  <2>1. workers[w].token <= issued
    BY DEF FencingInv, TokensFresh
  <2> QED
    BY <1>2, <1>4, <1>5, <1>6, <2>1 DEF WorkerChange, Keeps
<1>8. TokensDistinct'
  <2> SUFFICES ASSUME NEW v \in Workers, NEW w \in Workers, v # w,
                      workers'[v].job \in Jobs, workers'[w].job \in Jobs
               PROVE  workers'[v].token # workers'[w].token
    BY DEF TokensDistinct
  <2>1. workers[v].token <= issued /\ workers[w].token <= issued
    BY DEF FencingInv, TokensFresh
  <2>2. CASE Receives(v)
    BY <1>4, <1>6, <2>1, <2>2
  <2>3. CASE Receives(w)
    BY <1>4, <1>6, <2>1, <2>3
  <2>4. CASE Keeps(v) /\ Keeps(w)
    BY <2>4 DEF Keeps, FencingInv, TokensDistinct
  <2> QED
    BY <1>2, <1>5, <2>2, <2>3, <2>4 DEF WorkerChange
<1>9. ASSUME NEW w \in Workers, OwnsClaim(w)', Keeps(w)
      PROVE  /\ OwnsClaim(w)
             /\ rows'[workers'[w].job].attempts = rows[workers[w].job].attempts
             /\ rows'[workers'[w].job].max = rows[workers[w].job].max
  <2> DEFINE j == workers[w].job
  <2>1. /\ j \in Jobs /\ rows'[j].status = "processing"
        /\ rows'[j].token = workers[w].token /\ workers'[w].job = j
    BY <1>9 DEF OwnsClaim, Keeps
  <2>2. rows[j] \in Row /\ RowStep(j) /\ maxAttempts \in Nat
    BY <1>1, <1>3, <2>1, JobsAssumption DEF TypeOK
  <2>3. workers[w].token <= issued
    BY DEF FencingInv, TokensFresh
  <2>4. rows'[j] # ClaimRow(rows[j], issued + 1)
    <3>1. ClaimRow(rows[j], issued + 1).token = issued + 1
      BY <2>2 DEF ClaimRow, Row
    <3>2. issued + 1 # workers[w].token
      BY <1>6, <2>3
    <3> QED
      BY <2>1, <3>1, <3>2
  <2>5. rows'[j].status # "processing" \/ rows[j].status = "processing"
    <3>1. rows'[j] = NewRow(maxAttempts) => rows'[j].status = "queued"
      BY DEF NewRow
    <3> QED
      BY <2>2, <2>4, <3>1 DEF RowStep, Row
  <2>6. rows'[j] # RetryRow(rows[j]) /\ rows'[j] # CompleteRow(rows[j])
    BY <2>1, <2>2 DEF RetryRow, CompleteRow, Row
  <2>7. \/ rows'[j] = rows[j]
        \/ \E b \in BOOLEAN : rows'[j] = [rows[j] EXCEPT !.expired = b]
    BY <2>1, <2>2, <2>4, <2>5, <2>6 DEF RowStep
  <2>8. /\ rows[j].attempts = rows'[j].attempts /\ rows[j].max = rows'[j].max
        /\ rows[j].status = "processing" /\ rows[j].token = workers[w].token
    BY <2>1, <2>2, <2>7 DEF Row
  <2> QED
    BY <2>1, <2>8 DEF OwnsClaim
<1>10. SnapshotCurrent'
  <2> SUFFICES ASSUME NEW w \in Workers, OwnsClaim(w)'
               PROVE  workers'[w].exhausted =
                        (rows'[workers'[w].job].attempts >= rows'[workers'[w].job].max)
    BY DEF SnapshotCurrent
  <2>1. CASE Receives(w)
    BY <1>4, <2>1
  <2>2. CASE Keeps(w)
    BY <1>9, <2>2 DEF FencingInv, SnapshotCurrent, Keeps
  <2> QED
    BY <1>2, <1>5, <2>1, <2>2 DEF WorkerChange, OwnsClaim
<1>11. CompletionDurable'
  <2> SUFFICES ASSUME NEW w \in Workers, workers'[w].completed
               PROVE  /\ workers'[w].job \in Jobs
                      /\ rows'[workers'[w].job].status \in {"completed", "purged"}
    BY DEF CompletionDurable
  <2>1. Keeps(w)
    BY <1>2, <1>4, <1>5 DEF WorkerChange
  <2>2. CASE workers[w].completed
    <3>1. workers[w].job \in Jobs /\ rows[workers[w].job].status \in {"completed", "purged"}
      BY <2>2 DEF FencingInv, CompletionDurable
    <3>2. RowStep(workers[w].job) /\ rows[workers[w].job] \in Row
      BY <1>1, <1>3, <3>1 DEF TypeOK
    <3>3. rows'[workers[w].job].status \in {"completed", "purged"}
      BY <3>1, <3>2 DEF RowStep, Row
    <3> QED
      BY <2>1, <3>1, <3>3 DEF Keeps
  <2> QED
    BY <2>1, <2>2 DEF Keeps
<1>12. LostGone'
  <2> SUFFICES ASSUME NEW w \in Workers, workers'[w].lost PROVE ~OwnsClaim(w)'
    BY DEF LostGone
  <2>1. Keeps(w)
    BY <1>2, <1>4, <1>5 DEF WorkerChange
  <2>2. ~OwnsClaim(w)
    BY <2>1 DEF Keeps, FencingInv, LostGone
  <2> QED
    BY <1>9, <2>1, <2>2
<1> QED
  BY <1>1, <1>7, <1>8, <1>10, <1>11, <1>12 DEF FencingInv

LEMMA FencingInitial == Init => FencingInv
BY JobsAssumption DEF Init, FencingInv, TypeOK, TokensFresh, TokensDistinct, SnapshotCurrent,
                      CompletionDurable, LostGone, OwnsClaim, AbsentRow, Row, RowStatus, IdleWorker,
                      Worker, WorkerPC, NoToken

\* Fencing: whatever expires, is recovered and claimed again, two workers never
\* own the same row.
THEOREM UniqueOwnerCorrect == Spec => []UniqueOwner
<1>1. FencingInv => UniqueOwner
  BY DEF FencingInv, TokensDistinct, UniqueOwner, OwnsClaim
<1> QED
  BY <1>1, FencingInitial, FencingInductive, PTL DEF Spec

\* A worker that gives its job up with neither Fail nor Complete is right: an
\* acknowledged completion is in the table, also when the renewal that raced the
\* commit told it that the claim was lost, and a claim it was told is lost never
\* comes back to life under its token.
THEOREM DropsCorrect == Spec => []DropsOnlyEndedClaims
<1>1. FencingInv => DropsOnlyEndedClaims
  BY DEF FencingInv, CompletionDurable, LostGone, DropsOnlyEndedClaims
<1> QED
  BY <1>1, FencingInitial, FencingInductive, PTL DEF Spec

-----------------------------------------------------------------------------
(* Dead letters.  A job is owed at most one notice, by one worker loop or  *)
(* by one recovery loop, and only while none was given.                    *)

Dead(j) == rows[j].status \in {"dead_lettered", "purged"}

Notifying(w, j) == workers[w].pc = "notifying" /\ workers[w].job = j

NoticeInv ==
    \A j \in Jobs :
        /\ notices[j] \in {0, 1}
        /\ notices[j] = 1 => Dead(j)
        /\ \A w \in Workers : Notifying(w, j) \/ j \in recovered[w] => Dead(j) /\ notices[j] = 0
        /\ \A v, w \in Workers :
              /\ Notifying(v, j) /\ Notifying(w, j) => v = w
              /\ j \in recovered[v] /\ j \in recovered[w] => v = w
              /\ ~(Notifying(v, j) /\ j \in recovered[w])

LEMMA DeadStays ==
    ASSUME TypeOK, [Next]_queueVars, NEW j \in Jobs, Dead(j) PROVE Dead(j)'
<1>1. RowStep(j) /\ rows[j] \in Row
  BY RowSteps DEF TypeOK
<1> QED
  BY <1>1 DEF RowStep, Dead, Row

\* A step that owes no new notice and gives none.
LEMMA NoticeQuiet ==
    ASSUME TypeOK, NoticeInv, [Next]_queueVars, notices' = notices,
           \A w \in Workers : recovered'[w] \subseteq recovered[w],
           \A w \in Workers, j \in Jobs : Notifying(w, j)' => Notifying(w, j)
    PROVE  NoticeInv'
<1> SUFFICES ASSUME NEW j \in Jobs
             PROVE  /\ notices'[j] \in {0, 1}
                    /\ notices'[j] = 1 => Dead(j)'
                    /\ \A w \in Workers :
                          Notifying(w, j)' \/ j \in recovered'[w] => Dead(j)' /\ notices'[j] = 0
                    /\ \A v, w \in Workers :
                          /\ Notifying(v, j)' /\ Notifying(w, j)' => v = w
                          /\ j \in recovered'[v] /\ j \in recovered'[w] => v = w
                          /\ ~(Notifying(v, j)' /\ j \in recovered'[w])
  BY DEF NoticeInv
<1>1. Dead(j) => Dead(j)'
  BY DeadStays
<1> QED
  BY <1>1 DEF NoticeInv

LEMMA NoticeInductive == FencingInv /\ NoticeInv /\ [Next]_queueVars => NoticeInv'
<1> SUFFICES ASSUME FencingInv, NoticeInv, [Next]_queueVars PROVE NoticeInv'
  OBVIOUS
<1>0. TypeOK
  BY DEF FencingInv
<1> DEFINE Calm == \A w \in Workers, j \in Jobs : Notifying(w, j)' => Notifying(w, j)
<1>1. ASSUME workers' = workers PROVE Calm
  BY <1>1 DEF Notifying
<1>2. ASSUME NEW v \in Workers, Release(v) PROVE Calm
  BY <1>0, <1>2, JobsAssumption DEF Release, Notifying, IdleWorker, TypeOK
<1>3. ASSUME NEW v \in Workers, NEW pc \in WorkerPC \ {"notifying"}, GoTo(v, pc) PROVE Calm
  <2>1. \A w \in Workers : workers'[w] = IF w = v THEN [workers[w] EXCEPT !.pc = pc] ELSE workers[w]
    BY <1>0, <1>3 DEF GoTo, TypeOK
  <2> QED
    BY <1>0, <2>1 DEF Notifying, TypeOK, Worker
<1>4. ASSUME NEW v \in Workers, Claim(v) PROVE NoticeInv'
  <2>1. PICK i \in Jobs :
          /\ ClaimStatement(i)
          /\ workers' = [workers EXCEPT ![v] = ClaimingWorker(i, rows'[i])]
    BY <1>4 DEF Claim
  <2>2. ClaimingWorker(i, rows'[i]).pc # "notifying"
    BY DEF ClaimingWorker
  <2>3. Calm
    BY <1>0, <2>1, <2>2 DEF Notifying, TypeOK
  <2> QED
    BY <1>0, <2>1, <2>3, NoticeQuiet DEF ClaimStatement
<1>5. ASSUME NEW v \in Workers, ClaimReplyLost(v) PROVE NoticeInv'
  BY <1>0, <1>1, <1>5, NoticeQuiet DEF ClaimReplyLost, ClaimStatement
<1>6. ASSUME NEW v \in Workers, RenewClaim(v) PROVE NoticeInv'
  <2>1. Calm
    <3>1. CASE workers' = [workers EXCEPT ![v].lost = TRUE]
      <4>1. \A w \in Workers :
              workers'[w] = IF w = v THEN [workers[w] EXCEPT !.lost = TRUE] ELSE workers[w]
        BY <1>0, <3>1 DEF TypeOK
      <4> QED
        BY <1>0, <4>1 DEF Notifying, TypeOK, Worker
    <3> QED
      BY <1>1, <1>6, <3>1 DEF RenewClaim
  <2> QED
    BY <1>0, <1>6, <2>1, NoticeQuiet DEF RenewClaim
<1>7. ASSUME NEW v \in Workers, HandlerCloses(v) PROVE NoticeInv'
  <2>1. PICK a \in BOOLEAN : workers' = [workers EXCEPT ![v].completed = a]
    BY <1>7 DEF HandlerCloses
  <2>2. \A w \in Workers :
          workers'[w] = IF w = v THEN [workers[w] EXCEPT !.completed = a] ELSE workers[w]
    BY <1>0, <2>1 DEF TypeOK
  <2>3. Calm
    BY <1>0, <2>2 DEF Notifying, TypeOK, Worker
  <2> QED
    BY <1>0, <1>7, <2>3, NoticeQuiet DEF HandlerCloses
<1>8. ASSUME NEW v \in Workers, NEW err \in BOOLEAN, HandlerReturns(v, err) PROVE NoticeInv'
  <2>1. (IF err THEN "failing" ELSE "completing") \in WorkerPC \ {"notifying"}
    BY DEF WorkerPC
  <2>2. Calm
    BY <1>2, <1>3, <1>8, <2>1 DEF HandlerReturns
  <2> QED
    BY <1>0, <1>8, <2>2, NoticeQuiet DEF HandlerReturns
<1>9. ASSUME NEW v \in Workers, FailReplyLost(v) \/ Complete(v) \/ CloseFails(v) PROVE NoticeInv'
  <2>1. Calm
    BY <1>2, <1>9 DEF FailReplyLost, Complete, CloseFails
  <2> QED
    BY <1>0, <1>9, <2>1, NoticeQuiet DEF FailReplyLost, Complete, CloseFails
<1>10. ASSUME NEW v \in Workers, Fail(v) PROVE NoticeInv'
  <2>1. CASE ~workers[v].exhausted
    BY <1>0, <1>2, <1>10, <2>1, NoticeQuiet DEF Fail
  <2>2. CASE workers[v].exhausted
    <3>0. PICK i \in Jobs : i = workers[v].job /\ rows[i].status = "processing"
      BY <1>10 DEF Fail, OwnsClaim
    <3>1. rows[i].status = "processing" /\ rows[i] \in Row
      BY <1>0, <3>0 DEF TypeOK
    <3>2. rows[i].attempts >= rows[i].max
      BY <1>10, <2>2, <3>0 DEF Fail, FencingInv, SnapshotCurrent
    <3>3. rows'[i] = RetryRow(rows[i])
      BY <1>0, <1>10, <3>0 DEF Fail, UpdateOwnRow, TypeOK
    <3>4. Dead(i)' /\ ~Dead(i)
      BY <3>1, <3>2, <3>3 DEF Dead, RetryRow, Row
    <3>5. \A w \in Workers : workers'[w] = IF w = v THEN [workers[w] EXCEPT !.pc = "notifying"]
                                                   ELSE workers[w]
      BY <1>0, <1>10, <2>2 DEF Fail, GoTo, TypeOK
    <3>6. \A w \in Workers, j \in Jobs : Notifying(w, j)' => Notifying(w, j) \/ (w = v /\ j = i)
      BY <1>0, <3>0, <3>5 DEF Notifying, TypeOK, Worker
    <3>7. UNCHANGED <<recovered, notices>>
      BY <1>10 DEF Fail
    <3> SUFFICES ASSUME NEW j \in Jobs
                 PROVE  /\ notices'[j] \in {0, 1}
                        /\ notices'[j] = 1 => Dead(j)'
                        /\ \A w \in Workers : Notifying(w, j)' \/ j \in recovered'[w] =>
                              Dead(j)' /\ notices'[j] = 0
                        /\ \A x, w \in Workers :
                              /\ Notifying(x, j)' /\ Notifying(w, j)' => x = w
                              /\ j \in recovered'[x] /\ j \in recovered'[w] => x = w
                              /\ ~(Notifying(x, j)' /\ j \in recovered'[w])
      BY DEF NoticeInv
    <3>8. Dead(j) => Dead(j)'
      BY <1>0, DeadStays
    <3>9. CASE j = i
      BY <3>1, <3>4, <3>6, <3>7, <3>9 DEF NoticeInv
    <3>10. CASE j # i
      BY <3>6, <3>7, <3>8, <3>10 DEF NoticeInv
    <3> QED
      BY <3>9, <3>10
  <2> QED
    BY <2>1, <2>2
<1>11. ASSUME NEW v \in Workers, Notify(v) PROVE NoticeInv'
  <2> DEFINE i == workers[v].job
  <2>1. \A j \in Jobs : notices'[j] = IF j = i THEN notices[j] + 1 ELSE notices[j]
    BY <1>0, <1>11 DEF Notify, TypeOK
  <2>2. UNCHANGED <<rows, recovered>> /\ Notifying(v, i)
    BY <1>11 DEF Notify, Notifying
  <2>3. ~\E j \in Jobs : Notifying(v, j)'
    BY <1>0, <1>11, JobsAssumption DEF Notify, Release, Notifying, IdleWorker, TypeOK
  <2>4. Calm
    BY <1>2, <1>11 DEF Notify
  <2> HIDE DEF i
  <2> SUFFICES ASSUME NEW j \in Jobs
               PROVE  /\ notices'[j] \in {0, 1}
                      /\ notices'[j] = 1 => Dead(j)'
                      /\ \A w \in Workers : Notifying(w, j)' \/ j \in recovered'[w] =>
                            Dead(j)' /\ notices'[j] = 0
                      /\ \A x, w \in Workers :
                            /\ Notifying(x, j)' /\ Notifying(w, j)' => x = w
                            /\ j \in recovered'[x] /\ j \in recovered'[w] => x = w
                            /\ ~(Notifying(x, j)' /\ j \in recovered'[w])
    BY DEF NoticeInv
  <2>5. Dead(j)' = Dead(j)
    BY <2>2 DEF Dead
  <2>6. CASE j = i
    <3>1. notices[j] = 0 /\ Dead(j)
      BY <2>2, <2>6 DEF NoticeInv
    <3>2. notices'[j] = 1
      BY <2>1, <2>6, <3>1
    <3>3. \A w \in Workers : ~Notifying(w, j)' /\ j \notin recovered'[w]
      BY <2>2, <2>3, <2>4, <2>6 DEF NoticeInv
    <3> QED
      BY <2>5, <3>1, <3>2, <3>3
  <2>7. CASE j # i
    BY <2>1, <2>2, <2>4, <2>5, <2>7 DEF NoticeInv
  <2> QED
    BY <2>6, <2>7
<1>12. ASSUME NEW v \in Workers, NotifyRecovered(v) PROVE NoticeInv'
  <2>1. PICK i \in recovered[v] :
          /\ notices' = [notices EXCEPT ![i] = @ + 1]
          /\ recovered' = [recovered EXCEPT ![v] = @ \ {i}]
    BY <1>12 DEF NotifyRecovered
  <2>2. i \in Jobs
    BY <1>0 DEF TypeOK
  <2>3. \A j \in Jobs : notices'[j] = IF j = i THEN notices[j] + 1 ELSE notices[j]
    BY <1>0, <2>1 DEF TypeOK
  <2>4. \A w \in Workers : recovered'[w] = IF w = v THEN recovered[w] \ {i} ELSE recovered[w]
    BY <1>0, <2>1 DEF TypeOK
  <2>5. UNCHANGED <<rows, workers>>
    BY <1>12 DEF NotifyRecovered
  <2> SUFFICES ASSUME NEW j \in Jobs
               PROVE  /\ notices'[j] \in {0, 1}
                      /\ notices'[j] = 1 => Dead(j)'
                      /\ \A w \in Workers : Notifying(w, j)' \/ j \in recovered'[w] =>
                            Dead(j)' /\ notices'[j] = 0
                      /\ \A x, w \in Workers :
                            /\ Notifying(x, j)' /\ Notifying(w, j)' => x = w
                            /\ j \in recovered'[x] /\ j \in recovered'[w] => x = w
                            /\ ~(Notifying(x, j)' /\ j \in recovered'[w])
    BY DEF NoticeInv
  <2>6. Dead(j)' = Dead(j) /\ \A w \in Workers : Notifying(w, j)' = Notifying(w, j)
    BY <2>5 DEF Dead, Notifying
  <2>7. CASE j = i
    <3>1. notices[j] = 0 /\ Dead(j)
      BY <2>1, <2>7 DEF NoticeInv
    <3>2. notices'[j] = 1
      BY <2>3, <2>7, <3>1
    <3>3. \A w \in Workers : ~Notifying(w, j)' /\ j \notin recovered'[w]
      BY <2>1, <2>4, <2>6, <2>7 DEF NoticeInv
    <3> QED
      BY <2>6, <3>1, <3>2, <3>3
  <2>8. CASE j # i
    BY <2>3, <2>4, <2>6, <2>8 DEF NoticeInv
  <2> QED
    BY <2>7, <2>8
<1>13. ASSUME NEW v \in Workers, NEW S \in SUBSET ExpiredRows, Recover(v, S) PROVE NoticeInv'
  <2>1. \A w \in Workers : w # v => recovered'[w] = recovered[w]
    BY <1>0, <1>13 DEF Recover, TypeOK
  <2>2. recovered[v] = {} /\ recovered'[v] \subseteq {j \in S : rows'[j].status = "dead_lettered"}
    BY <1>0, <1>13 DEF Recover, TypeOK
  <2>3. UNCHANGED <<workers, notices>>
    BY <1>13 DEF Recover
  <2>4. \A j \in S : j \in Jobs /\ ~Dead(j)
    BY DEF ExpiredRows, Dead
  <2> SUFFICES ASSUME NEW j \in Jobs
               PROVE  /\ notices'[j] \in {0, 1}
                      /\ notices'[j] = 1 => Dead(j)'
                      /\ \A w \in Workers : Notifying(w, j)' \/ j \in recovered'[w] =>
                            Dead(j)' /\ notices'[j] = 0
                      /\ \A x, w \in Workers :
                            /\ Notifying(x, j)' /\ Notifying(w, j)' => x = w
                            /\ j \in recovered'[x] /\ j \in recovered'[w] => x = w
                            /\ ~(Notifying(x, j)' /\ j \in recovered'[w])
    BY DEF NoticeInv
  <2>5. Dead(j) => Dead(j)'
    BY <1>0, DeadStays
  <2>6. \A w \in Workers : Notifying(w, j)' = Notifying(w, j)
    BY <2>3 DEF Notifying
  <2>7. CASE j \in recovered'[v]
    <3>1. ~Dead(j) /\ Dead(j)'
      BY <2>2, <2>4, <2>7 DEF Dead
    <3>2. notices[j] = 0 /\ \A w \in Workers : ~Notifying(w, j) /\ j \notin recovered[w]
      BY <3>1 DEF NoticeInv
    <3>3. \A w \in Workers : j \in recovered'[w] => w = v
      BY <2>1, <3>2
    <3> QED
      BY <2>3, <2>6, <3>1, <3>2, <3>3
  <2>8. CASE j \notin recovered'[v]
    <3>1. \A w \in Workers : j \in recovered'[w] => j \in recovered[w]
      BY <2>1, <2>8
    <3> QED
      BY <2>3, <2>5, <2>6, <3>1 DEF NoticeInv
  <2> QED
    BY <2>7, <2>8
<1>14. ASSUME NEW j \in Jobs, JobStep(j) PROVE NoticeInv'
  BY <1>0, <1>1, <1>14, NoticeQuiet
     DEF JobStep, Enqueue, BackoffElapses, ClaimExpires, PurgeOldJobs
<1>15. ASSUME NEW limit \in AttemptLimits, SetMaxAttempts(limit) PROVE NoticeInv'
  BY <1>0, <1>1, <1>15, NoticeQuiet DEF SetMaxAttempts
<1>16. CASE Crash
  <2>1. Calm
    BY <1>16 DEF Crash, Notifying, IdleWorker
  <2>2. \A w \in Workers : recovered'[w] \subseteq recovered[w]
    BY <1>16 DEF Crash
  <2>3. notices' = notices
    BY <1>16 DEF Crash
  <2> QED
    BY <1>0, <2>1, <2>2, <2>3, NoticeQuiet
<1>17. CASE UNCHANGED queueVars
  BY <1>0, <1>1, <1>17, NoticeQuiet DEF queueVars
<1> QED
  BY <1>4, <1>5, <1>6, <1>7, <1>8, <1>9, <1>10, <1>11, <1>12, <1>13, <1>14, <1>15, <1>16,
     <1>17 DEF Next, WorkerStep

LEMMA NoticeInitial == Init => NoticeInv
<1> SUFFICES ASSUME Init PROVE NoticeInv
  OBVIOUS
<1>1. \A j \in Jobs : notices[j] = 0
  BY DEF Init
<1>2. ASSUME NEW j \in Jobs PROVE notices[j] # 1
  <2>1. notices[j] = 0
    BY <1>1
  <2> QED
    BY <2>1
<1>3. \A w \in Workers, j \in Jobs : ~Notifying(w, j) /\ j \notin recovered[w]
  BY DEF Init, Notifying, IdleWorker
<1> QED
  BY <1>1, <1>2, <1>3 DEF NoticeInv

\* The invariant the theorems below and the refinement of JobLease rest on.
LEMMA QueueInvariant == Spec => [](FencingInv /\ NoticeInv)
<1> QED
  BY NoticeInitial, FencingInitial, FencingInductive, NoticeInductive, PTL DEF Spec

\* The dead-letter callback reports a job at most once and only after its row was
\* dead-lettered, although worker loops and recovery loops both call it.
THEOREM DeadLetterCorrect == Spec => []DeadLetterReportedOnce
<1>1. NoticeInv => DeadLetterReportedOnce
  <2> SUFFICES ASSUME NoticeInv, NEW j \in Jobs
               PROVE  notices[j] <= 1 /\ (notices[j] = 1 => Dead(j))
    BY DEF DeadLetterReportedOnce, Dead
  <2>1. notices[j] \in {0, 1} /\ (notices[j] = 1 => Dead(j))
    BY DEF NoticeInv
  <2> QED
    BY <2>1
<1> QED
  BY <1>1, QueueInvariant, PTL
=============================================================================
