--------------------------- MODULE ScheduleRunProofs ---------------------------
(***************************************************************************)
(* Proofs, for every number of occurrences, targets, workers and requests, *)
(* of the safety properties of ScheduleRun.  RunInv follows an occurrence  *)
(* through its records and needs no assumption on the scheduler loops;     *)
(* CloseInv adds what only one loop at a time guarantees, which is what    *)
(* the hub's runtime lease is for.  EditInv is about next_run_at when no   *)
(* claim overtakes a request that sets it.  ScheduleRun uses the queue     *)
(* only as JobLease allows.                                                *)
(***************************************************************************)
EXTENDS ScheduleRun, TLAPS

-----------------------------------------------------------------------------
(* The invariants.                                                         *)

ThreadPC == {"idle", "start", "send", "report_succeeded", "report_failed", "succeeded", "failed",
             "blocked"}

\* The variables ScheduleTypeOK leaves out.  A snapshot was due when it was made.
LocalTypes ==
    /\ scans \in [Schedulers -> [at : 0..Horizon, due : 0..Horizon, cronValid : BOOLEAN,
                                 active : BOOLEAN]]
    /\ edits \in [Editors -> [change : {"none"} \cup Changes, set : BOOLEAN, next : Nat]]
    /\ stages \in [Workers -> [at : {"none", "begin", "run", "finish", "error"},
                               result : ChildResults]]

\* A claim is of a held job, and a handler at work has a job that was submitted.
Leased ==
    /\ \A j \in Jobs : holders[j] # {} => jobs[j] = "held"
    /\ \A w \in Workers :
          /\ stages[w].at # "none" => busy[w] \in Jobs
          /\ busy[w] \in Jobs => jobs[busy[w]] # "absent"

\* The order of an occurrence's records: the job, its children, their commands.
Layered ==
    \A j \in Jobs, t \in Targets :
        /\ jobs[j] = "absent" => children[<<j, t>>] = "absent"
        /\ children[<<j, t>>] = "absent" => commands[<<j, t>>] = 0
        /\ commands[<<j, t>>] \in {0, 1}

Unstarted == {"queued", "not_executed", "blocked", "skipped"}

\* What last_run_status says about the current occurrence.
Current ==
    /\ ~schedule.exists => schedule.status = "" /\ schedule.job = NoJob
    /\ schedule.status \in Unfinished =>
          schedule.job \in Jobs /\ jobs[schedule.job] \in {"waiting", "held"}
    /\ schedule.status = "running" => schedule.enabled
    /\ schedule.job \in Jobs =>
          /\ schedule.status \in Unstarted => \A t \in Targets : children[<<schedule.job, t>>] = "absent"
          /\ schedule.status = "succeeded" =>
                \A t \in Targets : children[<<schedule.job, t>>] = "succeeded"
          /\ schedule.status = "partial" =>
                \E t \in Targets : children[<<schedule.job, t>>] = "succeeded"

\* An occurrence is dispatched to its targets once.
Dispatched ==
    \A w \in Workers : InStage(w, "run") =>
        /\ schedule.job = busy[w] => schedule.status # "queued"
        /\ \A v \in Workers : InStage(v, "run") /\ busy[v] = busy[w] => v = w

\* What a thread knows about its child action run.
Threaded ==
    \A w \in Workers, t \in Targets : InStage(w, "run") =>
        /\ threads[w][t] \in {"start", "blocked"} => children[<<busy[w], t>>] = "absent"
        /\ threads[w][t] = "send" =>
              children[<<busy[w], t>>] # "absent" /\ commands[<<busy[w], t>>] = 0
        /\ threads[w][t] = "succeeded" => children[<<busy[w], t>>] = "succeeded"

RunInv ==
    /\ LeaseTypeOK /\ ScheduleTypeOK /\ LocalTypes
    /\ Leased /\ Layered /\ Current /\ Dispatched /\ Threaded

\* With one scheduler loop: a snapshot whose cron expression did not parse is of
\* a schedule that has no occurrence under way.
Snapshots ==
    /\ ~schedule.cronValid => schedule.status \notin Unfinished
    /\ \A s \in Schedulers : scans[s].active =>
          /\ scans[s].cronValid /\ schedule.exists => schedule.cronValid
          /\ ~scans[s].cronValid => schedule.status \notin Unfinished

\* Then a running child belongs to an occurrence that runs or was superseded.
Accounted ==
    \A j \in Jobs, t \in Targets : children[<<j, t>>] = "running" =>
        /\ jobs[j] # "closed"
        /\ schedule.job = j => schedule.status = "running"

CloseInv == Snapshots /\ Accounted

OneScheduler == \A s, r \in Schedulers : s = r

LEMMA Constants == Horizon \in Nat /\ Jobs = 1..Horizon /\ NoJob \notin Jobs
BY ScheduleAssumption, NoJobAssumption

LEMMA RunInit == ScheduleInit => RunInv
<1> SUFFICES ASSUME ScheduleInit PROVE RunInv
  OBVIOUS
<1>1. LeaseTypeOK
  BY Constants DEF LeaseTypeOK, ScheduleInit, LeaseInit
<1>2. /\ schedule \in Schedule /\ schedule.exists /\ schedule.status = "" /\ schedule.job = NoJob
  <2>1. Never \in Nat /\ NextRun(0) \in Nat /\ "" \in RunStatus
    BY DEF Never, NextRun, RunStatus
  <2>2. CASE schedule \in [exists : {TRUE}, enabled : BOOLEAN, cronValid : BOOLEAN,
                           next : {Never}, status : {""}, job : {NoJob}]
    BY <2>1, <2>2 DEF Schedule
  <2>3. CASE schedule \in [exists : {TRUE}, enabled : {TRUE}, cronValid : {TRUE},
                           next : {NextRun(0)}, status : {""}, job : {NoJob}]
    BY <2>1, <2>3 DEF Schedule
  <2> QED
    BY <2>2, <2>3 DEF ScheduleInit
<1>3. ScheduleTypeOK
  <2>1. clock \in 0..Horizon
    <3>1. clock = 0
      BY Zenon DEF ScheduleInit
    <3> QED
      BY <3>1, Constants
  <2>2. children \in [Jobs \X Targets -> {"absent", "running", "interrupted"} \cup ChildResults]
    BY DEF ScheduleInit
  <2>3. commands \in [Jobs \X Targets -> Nat]
    BY DEF ScheduleInit
  <2>4. threads \in [Workers -> [Targets -> ThreadPC]]
    BY DEF ScheduleInit, IdleThreads, ThreadPC
  <2> QED
    BY <1>2, <2>1, <2>2, <2>3, <2>4 DEF ScheduleTypeOK, ThreadPC
<1>4. LocalTypes
  <2>1. NoScan \in [at : 0..Horizon, due : 0..Horizon, cronValid : BOOLEAN, active : BOOLEAN]
    BY Constants DEF NoScan, Never
  <2>2. NoEdit \in [change : {"none"} \cup Changes, set : BOOLEAN, next : Nat]
    BY DEF NoEdit, Never
  <2>3. NoStage \in [at : {"none", "begin", "run", "finish", "error"}, result : ChildResults]
    BY DEF NoStage, ChildResults
  <2> QED
    BY <2>1, <2>2, <2>3 DEF LocalTypes, ScheduleInit
<1>5. Leased /\ Layered
  BY Constants DEF Leased, Layered, NoStage, ScheduleInit, LeaseInit
<1>6. Current
  BY <1>2, Constants DEF Current, Unfinished
<1>7. Dispatched /\ Threaded
  BY DEF ScheduleInit, Dispatched, Threaded, InStage, NoStage
<1> QED
  BY <1>1, <1>3, <1>4, <1>5, <1>6, <1>7 DEF RunInv

-----------------------------------------------------------------------------
(* The scheduler and the API, which leave jobs and handlers alone.         *)

\* How they change the row: they keep the occurrence with its status, or let go
\* of it.
Kept ==
    /\ schedule'.exists = schedule.exists
    /\ schedule'.status = schedule.status /\ schedule'.job = schedule.job
    /\ schedule.status = "running" /\ schedule.enabled => schedule'.enabled

Dropped ==
    /\ schedule'.status \in {"invalid", "cancelled", ""}
    /\ ~schedule'.exists => schedule'.status = "" /\ schedule'.job = NoJob

handlerVars == <<leaseVars, children, commands, stages, threads>>

LEMMA RunCalm ==
    ASSUME RunInv, UNCHANGED handlerVars, clock' \in 0..Horizon, schedule' \in Schedule,
           Kept \/ Dropped, LocalTypes'
    PROVE  RunInv'
<1> USE DEF RunInv, handlerVars, leaseVars
<1>1. LeaseTypeOK' /\ ScheduleTypeOK'
  BY DEF LeaseTypeOK, ScheduleTypeOK
<1>2. Leased' /\ Layered' /\ Threaded'
  BY DEF Leased, Layered, Threaded, InStage
<1>3. Current'
  <2>1. CASE Kept
    BY <2>1 DEF Kept, Current
  <2>2. CASE Dropped
    BY <2>2 DEF Dropped, Current, Unfinished, Unstarted
  <2> QED
    BY <2>1, <2>2
<1>4. Dispatched'
  BY DEF Kept, Dropped, Dispatched, InStage
<1> QED
  BY <1>1, <1>2, <1>3, <1>4

LEMMA EndScanTypes ==
    ASSUME LocalTypes, NEW s \in Schedulers, EndScan(s)
    PROVE  LocalTypes'
BY Constants DEF LocalTypes, EndScan, NoScan, Never

\* The steps of a scheduler pass that claim nothing.
LEMMA CalmScheduler ==
    ASSUME RunInv, NEW s \in Schedulers,
           Scan(s) \/ MarkInvalid(s) \/ InitializeNextRun(s) \/ ClaimMisses(s)
    PROVE  /\ UNCHANGED handlerVars /\ clock' \in 0..Horizon /\ schedule' \in Schedule
           /\ Kept \/ Dropped
           /\ LocalTypes'
<1> USE Constants DEF RunInv, ScheduleTypeOK, handlerVars, leaseVars
<1>t. /\ schedule \in Schedule /\ schedule.next \in Nat /\ schedule.cronValid \in BOOLEAN
      /\ scans[s].at \in 0..Horizon
  BY DEF Schedule, LocalTypes
<1>k. schedule' = schedule => Kept
  BY DEF Kept
<1>1. CASE Scan(s)
  <2>1. schedule.next \in 0..Horizon
    BY <1>1, <1>t DEF Scan
  <2>2. LocalTypes'
    BY <1>1, <1>t, <2>1 DEF Scan, LocalTypes
  <2> QED
    BY <1>1, <1>k, <2>2 DEF Scan
<1>2. CASE MarkInvalid(s)
  <2>1. LocalTypes'
    BY <1>2, EndScanTypes DEF MarkInvalid
  <2>2. UNCHANGED handlerVars /\ clock' = clock
    BY <1>2 DEF MarkInvalid, EndScan
  <2>3. CASE schedule.exists
    <3>1. schedule' = [schedule EXCEPT !.enabled = FALSE, !.next = Never, !.status = "invalid"]
      BY <1>2, <2>3 DEF MarkInvalid
    <3>2. schedule' \in Schedule /\ schedule'.status = "invalid" /\ schedule'.exists
      BY <1>t, <2>3, <3>1 DEF Schedule, RunStatus, Never
    <3> QED
      BY <2>1, <2>2, <3>2 DEF Dropped
  <2>4. CASE ~schedule.exists
    BY <1>2, <1>k, <2>1, <2>2, <2>4 DEF MarkInvalid
  <2> QED
    BY <2>3, <2>4
<1>3. CASE InitializeNextRun(s)
  <2>1. LocalTypes'
    BY <1>3, EndScanTypes DEF InitializeNextRun
  <2>2. UNCHANGED handlerVars /\ clock' = clock
    BY <1>3 DEF InitializeNextRun, EndScan
  <2>3. CASE schedule' = [schedule EXCEPT !.next = NextRun(scans[s].at)]
    <3>1. NextRun(scans[s].at) \in Nat
      BY <1>t DEF NextRun
    <3>2. schedule' \in Schedule /\ Kept
      BY <1>t, <2>3, <3>1 DEF Schedule, Kept
    <3> QED
      BY <2>1, <2>2, <3>2
  <2>4. CASE schedule' = schedule
    BY <1>k, <2>1, <2>2, <2>4
  <2> QED
    BY <1>3, <2>3, <2>4 DEF InitializeNextRun
<1>4. CASE ClaimMisses(s)
  BY <1>4, <1>k, EndScanTypes DEF ClaimMisses, EndScan
<1> QED
  BY <1>1, <1>2, <1>3, <1>4

LEMMA CalmApi ==
    ASSUME RunInv,
           \/ \E e \in Editors : EditorStep(e)
           \/ DeleteSchedule \/ Tick
    PROVE  /\ UNCHANGED handlerVars /\ clock' \in 0..Horizon /\ schedule' \in Schedule
           /\ Kept \/ Dropped
           /\ LocalTypes'
<1> USE Constants DEF RunInv, ScheduleTypeOK, handlerVars, leaseVars
<1>t. /\ schedule \in Schedule /\ schedule.next \in Nat /\ schedule.cronValid \in BOOLEAN
      /\ schedule.enabled \in BOOLEAN /\ schedule.exists \in BOOLEAN
      /\ clock + 1 \in Nat
  BY DEF Schedule
<1>k. schedule' = schedule => Kept
  BY DEF Kept
<1>1. ASSUME NEW e \in Editors, NEW change \in Changes, EditRead(e, change) PROVE LocalTypes'
  <2>1. \E set \in BOOLEAN, next \in Nat :
           edits' = [edits EXCEPT ![e] = [change |-> change, set |-> set, next |-> next]]
    BY <1>1, <1>t DEF EditRead, NextRun, Never
  <2>2. scans' = scans /\ stages' = stages
    BY <1>1 DEF EditRead
  <2> QED
    BY <2>1, <2>2 DEF LocalTypes
<1>2. ASSUME NEW e \in Editors, EditWrite(e)
      PROVE  schedule' \in Schedule /\ (Kept \/ Dropped) /\ LocalTypes'
  <2>e. edits[e].change \in {"none"} \cup Changes /\ edits[e].set \in BOOLEAN /\ edits[e].next \in Nat
    BY DEF LocalTypes
  <2>1. LocalTypes'
    BY <1>2 DEF EditWrite, LocalTypes, NoEdit, Never
  <2>2. CASE ~schedule.exists
    BY <1>2, <1>k, <1>t, <2>1, <2>2 DEF EditWrite
  <2>3. CASE schedule.exists
    <3>0. schedule' = UpdatedSchedule(edits[e])
      BY <1>2, <2>3 DEF EditWrite
    <3>1. /\ schedule' \in Schedule /\ schedule'.exists = schedule.exists
      BY <1>t, <2>e, <3>0 DEF UpdatedSchedule, Schedule, RunStatus
    <3>2. CASE edits[e].change = "pause" /\ schedule.status \in Unfinished
      <4>1. schedule'.status = "cancelled"
        BY <1>t, <3>0, <3>2 DEF UpdatedSchedule, Schedule
      <4> QED
        BY <2>1, <2>3, <3>1, <4>1 DEF Dropped
    <3>3. CASE ~(edits[e].change = "pause" /\ schedule.status \in Unfinished)
      <4>1. schedule'.status = schedule.status /\ schedule'.job = schedule.job
        BY <1>t, <3>0, <3>3 DEF UpdatedSchedule, Schedule
      <4>2. edits[e].change # "pause" /\ schedule.enabled => schedule'.enabled
        BY <1>t, <3>0 DEF UpdatedSchedule, Schedule
      <4> QED
        BY <2>1, <3>1, <3>3, <4>1, <4>2 DEF Kept, Unfinished
    <3> QED
      BY <3>2, <3>3
  <2> QED
    BY <2>2, <2>3
<1>3. CASE DeleteSchedule
  <2>1. schedule' \in Schedule /\ Dropped
    BY <1>3 DEF DeleteSchedule, Schedule, RunStatus, Never, Dropped
  <2>2. LocalTypes'
    BY <1>3 DEF DeleteSchedule, LocalTypes
  <2> QED
    BY <1>3, <2>1, <2>2 DEF DeleteSchedule
<1>4. CASE Tick
  <2>1. clock' \in 0..Horizon /\ LocalTypes'
    BY <1>4 DEF Tick, LocalTypes
  <2> QED
    BY <1>4, <1>k, <2>1 DEF Tick
<1> QED
  BY <1>1, <1>2, <1>3, <1>4, <1>k DEF EditorStep, EditRead, EditWrite

\* ClaimScheduledTaskExecution: the new occurrence has no records yet.
LEMMA RunClaim ==
    ASSUME RunInv, NEW s \in Schedulers, ClaimOccurrence(s)
    PROVE  RunInv'
<1> USE Constants DEF RunInv, ScheduleTypeOK, leaseVars
<1> DEFINE j == scans[s].due
<1>t. /\ schedule \in Schedule /\ scans[s].at \in 0..Horizon /\ j \in Jobs
  BY DEF LocalTypes, ClaimOccurrence, DueScan, Never
<1>1. /\ jobs[j] = "absent" /\ jobs' = [jobs EXCEPT ![j] = "waiting"]
      /\ holders' = holders /\ busy' = busy
      /\ schedule.exists /\ schedule.enabled /\ schedule.status \notin Unfinished
      /\ schedule' = [schedule EXCEPT !.next = NextRun(scans[s].at), !.status = "queued", !.job = j]
      /\ UNCHANGED <<clock, edits, children, commands, stages, threads>>
  BY DEF ClaimOccurrence, Claimable, Submit, EndScan
<1>2. /\ schedule' \in Schedule /\ schedule'.exists /\ schedule'.status = "queued"
      /\ schedule'.job = j
  <2>1. NextRun(scans[s].at) \in Nat
    BY <1>t DEF NextRun
  <2> QED
    BY <1>1, <1>t, <2>1 DEF Schedule, RunStatus
<1>3. LocalTypes'
  BY EndScanTypes DEF ClaimOccurrence
<1>4. LeaseTypeOK'
  BY <1>1, <1>t DEF LeaseTypeOK
<1>5. ScheduleTypeOK'
  BY <1>1, <1>2 DEF ScheduleTypeOK
<1>6. Leased'
  BY <1>1, <1>t DEF Leased, LeaseTypeOK
<1>7. Layered'
  BY <1>1, <1>t DEF Layered, LeaseTypeOK
<1>8. Current'
  <2>1. jobs'[j] = "waiting" /\ \A t \in Targets : children'[<<j, t>>] = "absent"
    BY <1>1, <1>t DEF Layered, LeaseTypeOK
  <2> QED
    BY <1>2, <1>t, <2>1 DEF Current, Unfinished
<1>9. Dispatched'
  <2>1. \A w \in Workers : InStage(w, "run") => busy[w] # j
    BY <1>1, <1>t DEF Leased, InStage
  <2> QED
    BY <1>1, <1>2, <2>1 DEF Dispatched, InStage
<1>10. Threaded'
  BY <1>1 DEF Threaded, InStage
<1> QED
  BY <1>3, <1>4, <1>5, <1>6, <1>7, <1>8, <1>9, <1>10

-----------------------------------------------------------------------------
(* The handler.                                                            *)

LEMMA OwnerStatusAt ==
    ASSUME NEW j
    PROVE  OwnerStatus(j) = IF Superseded(j) THEN "superseded"
                            ELSE IF ~schedule.enabled /\ schedule.status = "queued" THEN "disabled"
                            ELSE schedule.status
BY DEF OwnerStatus

ChildStatus == {"absent", "running", "interrupted"} \cup ChildResults

\* closeInterruptedScheduleChildren interrupts children and changes no others.
LEMMA ClosedFacts ==
    ASSUME children \in [Jobs \X Targets -> ChildStatus], NEW S
    PROVE  /\ ClosedChildren(S) \in [Jobs \X Targets -> ChildStatus]
           /\ \A j \in Jobs, t \in Targets :
                 ClosedChildren(S)[<<j, t>>] =
                    IF j \in S /\ children[<<j, t>>] = "running" THEN "interrupted"
                    ELSE children[<<j, t>>]
BY DEF ClosedChildren, ChildStatus

\* Children are left alone or interrupted.
Surviving ==
    /\ children' \in [Jobs \X Targets -> ChildStatus]
    /\ \A j \in Jobs, t \in Targets :
          \/ children'[<<j, t>>] = children[<<j, t>>]
          \/ children[<<j, t>>] = "running" /\ children'[<<j, t>>] = "interrupted"

LEMMA ClosedSurvive ==
    ASSUME ScheduleTypeOK, NEW S, children' = ClosedChildren(S)
    PROVE  Surviving
<1>1. children \in [Jobs \X Targets -> ChildStatus]
  BY DEF ScheduleTypeOK, ChildStatus
<1> QED
  BY <1>1, ClosedFacts DEF Surviving

LEMMA SameSurvive ==
    ASSUME ScheduleTypeOK, children' = children
    PROVE  Surviving
BY DEF ScheduleTypeOK, ChildStatus, Surviving

\* A step that starts no run and sends nothing.
Restful ==
    /\ Surviving
    /\ commands' = commands
    /\ \A j \in Jobs : jobs'[j] = "absent" <=> jobs[j] = "absent"
    /\ \A w \in Workers : InStage(w, "run")' =>
          InStage(w, "run") /\ busy'[w] = busy[w] /\ threads'[w] = threads[w]
    /\ schedule'.job = schedule.job
    /\ schedule'.status = "queued" => schedule.status = "queued"

LEMMA RunRestful ==
    ASSUME RunInv, Restful
    PROVE  Layered' /\ Dispatched' /\ Threaded'
<1> USE DEF RunInv, Restful
<1>1. Layered'
  <2>1. ASSUME NEW j \in Jobs, NEW t \in Targets
        PROVE  /\ jobs'[j] = "absent" => children'[<<j, t>>] = "absent"
               /\ children'[<<j, t>>] = "absent" => commands'[<<j, t>>] = 0
               /\ commands'[<<j, t>>] \in {0, 1}
    <3>1. \/ children'[<<j, t>>] = children[<<j, t>>]
          \/ children[<<j, t>>] = "running" /\ children'[<<j, t>>] = "interrupted"
      BY DEF Surviving
    <3>2. commands'[<<j, t>>] = commands[<<j, t>>] /\ (jobs'[j] = "absent" <=> jobs[j] = "absent")
      OBVIOUS
    <3>3. /\ jobs[j] = "absent" => children[<<j, t>>] = "absent"
          /\ children[<<j, t>>] = "absent" => commands[<<j, t>>] = 0
          /\ commands[<<j, t>>] \in {0, 1}
      BY DEF Layered
    <3> HIDE DEF RunInv, Restful
    <3> QED
      BY <3>1, <3>2, <3>3
  <2> QED
    BY <2>1 DEF Layered
<1>2. Dispatched'
  <2>1. ASSUME NEW w \in Workers, InStage(w, "run")'
        PROVE  InStage(w, "run") /\ busy'[w] = busy[w]
    BY <2>1
  <2>2. schedule'.job = schedule.job /\ (schedule'.status = "queued" => schedule.status = "queued")
    OBVIOUS
  <2>3. ASSUME NEW w \in Workers, InStage(w, "run")', schedule'.job = busy'[w]
        PROVE  schedule'.status # "queued"
    BY <2>1, <2>2, <2>3 DEF Dispatched
  <2>4. ASSUME NEW w \in Workers, NEW v \in Workers, InStage(w, "run")', InStage(v, "run")',
               busy'[v] = busy'[w]
        PROVE  v = w
    BY <2>1, <2>4 DEF Dispatched
  <2> QED
    BY <2>3, <2>4 DEF Dispatched
<1>3. Threaded'
  <2> SUFFICES ASSUME NEW w \in Workers, NEW t \in Targets, InStage(w, "run")'
               PROVE  Threaded!(w, t)'
    BY DEF Threaded
  <2>1. InStage(w, "run") /\ busy'[w] = busy[w] /\ threads'[w] = threads[w] /\ busy[w] \in Jobs
    BY DEF InStage, Leased
  <2>2. \/ children'[<<busy[w], t>>] = children[<<busy[w], t>>]
        \/ /\ children[<<busy[w], t>>] = "running"
           /\ children'[<<busy[w], t>>] = "interrupted"
    BY <2>1 DEF Surviving
  <2> QED
    BY <2>1, <2>2 DEF Threaded
<1> QED
  BY <1>1, <1>2, <1>3

\* The current occurrence when the schedule row is left alone ...
LEMMA CurrentSame ==
    ASSUME RunInv, Surviving, schedule' = schedule,
           schedule.status \in Unfinished => jobs'[schedule.job] \in {"waiting", "held"}
    PROVE  Current'
<1> USE DEF RunInv
<1>1. schedule.job \in Jobs =>
         \A t \in Targets : /\ children[<<schedule.job, t>>] = "absent" =>
                                  children'[<<schedule.job, t>>] = "absent"
                            /\ children[<<schedule.job, t>>] = "succeeded" =>
                                  children'[<<schedule.job, t>>] = "succeeded"
  BY DEF Surviving
<1> QED
  BY <1>1 DEF Current

\* ... and when it gets its result.
LEMMA CurrentResult ==
    ASSUME RunInv, Surviving, NEW r \in RunStatus, schedule' = [schedule EXCEPT !.status = r],
           schedule.exists, r \notin Unfinished,
           schedule.job \in Jobs =>
              /\ r \in Unstarted => \A t \in Targets : children[<<schedule.job, t>>] = "absent"
              /\ r = "succeeded" => \A t \in Targets : children[<<schedule.job, t>>] = "succeeded"
              /\ r = "partial" => \E t \in Targets : children[<<schedule.job, t>>] = "succeeded"
    PROVE  Current' /\ schedule' \in Schedule /\ schedule'.job = schedule.job /\ schedule'.status = r
<1> USE DEF RunInv
<1>0. /\ schedule' \in Schedule /\ schedule'.job = schedule.job /\ schedule'.status = r
      /\ schedule'.exists = schedule.exists
  BY DEF ScheduleTypeOK, Schedule
<1>1. schedule.job \in Jobs =>
         \A t \in Targets : /\ children[<<schedule.job, t>>] = "absent" =>
                                  children'[<<schedule.job, t>>] = "absent"
                            /\ children[<<schedule.job, t>>] = "succeeded" =>
                                  children'[<<schedule.job, t>>] = "succeeded"
  BY DEF Surviving
<1> QED
  BY <1>0, <1>1 DEF Current, Unfinished

\* The claim is completed.
LEMMA CloseEffect ==
    ASSUME RunInv, NEW w \in Workers, CloseClaim(w), scans' = scans, edits' = edits
    PROVE  /\ LeaseTypeOK' /\ LocalTypes' /\ Leased'
           /\ busy[w] \in Jobs /\ jobs[busy[w]] = "held"
           /\ jobs' = [jobs EXCEPT ![busy[w]] = "closed"]
           /\ \A v \in Workers : stages'[v].at = "run" => v # w /\ stages[v].at = "run"
           /\ \A v \in Workers \ {w} : busy'[v] = busy[v]
<1> USE DEF RunInv
<1>1. /\ busy[w] \in Jobs /\ w \in holders[busy[w]]
      /\ jobs' = [jobs EXCEPT ![busy[w]] = "closed"]
      /\ holders' = [holders EXCEPT ![busy[w]] = {}]
      /\ busy' \in {busy, [busy EXCEPT ![w] = NoJob]}
  BY DEF CloseClaim, Close, Holds
<1>2. jobs[busy[w]] = "held"
  BY <1>1 DEF Leased
<1>3. LeaseTypeOK'
  BY <1>1 DEF LeaseTypeOK
<1>4. \/ busy'[w] = NoJob /\ stages' = [stages EXCEPT ![w] = NoStage]
      \/ busy' = busy /\ stages' = [stages EXCEPT ![w] = [at |-> "error", result |-> "failed"]]
  BY <1>1 DEF CloseClaim, EnterError, EnterStage, LeaseTypeOK
<1>5. LocalTypes'
  BY <1>4 DEF LocalTypes, NoStage, ChildResults
<1>6. \A v \in Workers \ {w} : busy'[v] = busy[v] /\ stages'[v] = stages[v]
  BY <1>1, <1>4 DEF LocalTypes, LeaseTypeOK
<1>7. /\ stages'[w].at # "none" => busy'[w] = busy[w]
      /\ stages'[w].at # "run"
      /\ busy'[w] \in {busy[w], NoJob}
  BY <1>1, <1>4 DEF NoStage, LocalTypes, LeaseTypeOK
<1>8. Leased'
  <2>1. \A j \in Jobs : holders'[j] # {} => jobs'[j] = "held"
    BY <1>1 DEF Leased, LeaseTypeOK
  <2>2. \A j \in Jobs : jobs[j] # "absent" => jobs'[j] # "absent"
    BY <1>1 DEF LeaseTypeOK
  <2>3. ASSUME NEW v \in Workers
        PROVE  /\ stages'[v].at # "none" => busy'[v] \in Jobs
               /\ busy'[v] \in Jobs => jobs'[busy'[v]] # "absent"
    BY <1>1, <1>6, <1>7, <2>2, Constants DEF Leased
  <2> QED
    BY <2>1, <2>3 DEF Leased
<1> QED
  BY <1>1, <1>2, <1>3, <1>5, <1>6, <1>7, <1>8

\* The rows that no handler step changes, and those it may.
LEMMA TypesAfter ==
    ASSUME ScheduleTypeOK, clock' = clock, schedule' \in Schedule, Surviving, commands' = commands,
           threads' \in [Workers -> [Targets -> ThreadPC]]
    PROVE  ScheduleTypeOK'
BY DEF ScheduleTypeOK, Surviving, ChildStatus, ThreadPC

\* A job is claimed.
LEMMA RunStartHandler ==
    ASSUME RunInv, NEW w \in Workers, StartHandler(w)
    PROVE  RunInv'
<1> USE DEF RunInv
<1>1. PICK j \in Jobs : Grant(w, j)
  BY DEF StartHandler
<1>2. /\ busy[w] = NoJob /\ jobs[j] = "waiting"
      /\ jobs' = [jobs EXCEPT ![j] = "held"]
      /\ holders' = [holders EXCEPT ![j] = {w}]
      /\ busy' = [busy EXCEPT ![w] = j]
  BY <1>1 DEF Grant
<1>3. PICK at \in {"begin", "error"}, result \in ChildResults :
         stages' = [stages EXCEPT ![w] = [at |-> at, result |-> result]]
  BY DEF StartHandler, EnterError, EnterStage, ChildResults
<1>4. UNCHANGED <<clock, schedule, scans, edits, children, commands, threads>>
  BY DEF StartHandler
<1>5. LeaseTypeOK'
  BY <1>2 DEF LeaseTypeOK
<1>6. LocalTypes'
  BY <1>3, <1>4 DEF LocalTypes
<1>7. ScheduleTypeOK'
  BY <1>4 DEF ScheduleTypeOK
<1>8. Leased'
  BY <1>2, <1>3 DEF Leased, LeaseTypeOK, LocalTypes
<1>9. Restful
  <2>1. \A k \in Jobs : jobs'[k] = "absent" <=> jobs[k] = "absent"
    BY <1>2 DEF LeaseTypeOK
  <2>2. ASSUME NEW v \in Workers, InStage(v, "run")'
        PROVE  InStage(v, "run") /\ busy'[v] = busy[v] /\ threads'[v] = threads[v]
    BY <1>2, <1>3, <1>4, <2>2 DEF InStage, LocalTypes, LeaseTypeOK
  <2> QED
    BY <1>4, <2>1, <2>2, SameSurvive DEF Restful
<1>10. Current'
  <2>1. schedule.status \in Unfinished => jobs'[schedule.job] \in {"waiting", "held"}
    BY <1>2 DEF Current, LeaseTypeOK
  <2> QED
    BY <1>4, <2>1, CurrentSame, SameSurvive
<1> QED
  BY <1>5, <1>6, <1>7, <1>8, <1>9, <1>10, RunRestful

\* BeginJobExecution on a queued occurrence.
LEMMA RunBeginDispatch ==
    ASSUME RunInv, NEW w \in Workers, BeginDispatch(w)
    PROVE  RunInv'
<1> USE DEF RunInv
<1>1. /\ busy[w] \in Jobs /\ schedule.exists /\ schedule.job = busy[w] /\ schedule.enabled
      /\ schedule.status = "queued"
  BY OwnerStatusAt DEF BeginDispatch, Holds, Job, Superseded
<1>2. /\ schedule' = [schedule EXCEPT !.status = "running"]
      /\ UNCHANGED <<leaseVars, clock, scans, edits, children, commands>>
  BY DEF BeginDispatch
<1>3. /\ schedule' \in Schedule /\ schedule'.job = schedule.job /\ schedule'.status = "running"
      /\ schedule'.exists /\ schedule'.enabled
  BY <1>1, <1>2 DEF ScheduleTypeOK, Schedule, RunStatus
<1>4. \/ /\ stages' = [stages EXCEPT ![w] = [at |-> "run", result |-> "failed"]]
         /\ threads' = [threads EXCEPT ![w] = [t \in Targets |-> "start"]]
      \/ /\ \E at \in {"finish", "error"} :
               stages' = [stages EXCEPT ![w] = [at |-> at, result |-> "failed"]]
         /\ threads' = threads
  BY DEF BeginDispatch, EnterStage, Job
<1>5. LeaseTypeOK' /\ Layered'
  BY <1>2 DEF LeaseTypeOK, Layered, leaseVars
<1>6. LocalTypes'
  BY <1>2, <1>4 DEF LocalTypes, ChildResults
<1>7. ScheduleTypeOK'
  <2>1. threads' \in [Workers -> [Targets -> ThreadPC]]
    BY <1>4 DEF ScheduleTypeOK, ThreadPC
  <2> QED
    BY <1>2, <1>3, <2>1, SameSurvive, TypesAfter
<1>8. Leased'
  BY <1>1, <1>2, <1>4 DEF Leased, leaseVars, LocalTypes
<1>9. Current'
  BY <1>1, <1>2, <1>3 DEF Current, Unfinished, Unstarted, leaseVars
<1>w. \A v \in Workers \ {w} : stages'[v] = stages[v] /\ threads'[v] = threads[v]
  BY <1>4 DEF LocalTypes, ScheduleTypeOK
<1>o. \A v \in Workers : InStage(v, "run") => busy[v] # busy[w]
  BY <1>1 DEF Dispatched
<1>10. Dispatched'
  <2>1. \A v \in Workers \ {w} : InStage(v, "run")' => InStage(v, "run")
    BY <1>w DEF InStage
  <2>2. busy' = busy
    BY <1>2 DEF leaseVars
  <2>3. ASSUME NEW x \in Workers, NEW v \in Workers, InStage(x, "run")', InStage(v, "run")',
               busy[v] = busy[x]
        PROVE  v = x
    BY <1>o, <2>1, <2>3 DEF Dispatched
  <2> QED
    BY <1>3, <2>2, <2>3 DEF Dispatched
<1>11. Threaded'
  <2> SUFFICES ASSUME NEW v \in Workers, NEW t \in Targets, InStage(v, "run")'
               PROVE  Threaded!(v, t)'
    BY DEF Threaded
  <2>1. busy' = busy /\ children' = children /\ commands' = commands
    BY <1>2 DEF leaseVars
  <2>2. CASE v # w
    BY <1>w, <2>1, <2>2 DEF Threaded, InStage
  <2>3. CASE v = w
    <3>1. threads'[w][t] = "start"
      BY <1>4, <2>3 DEF InStage, LocalTypes, ScheduleTypeOK
    <3>2. children[<<busy[w], t>>] = "absent"
      BY <1>1 DEF Current, Unstarted
    <3> QED
      BY <2>1, <2>3, <3>1, <3>2
  <2> QED
    BY <2>2, <2>3
<1> QED
  BY <1>5, <1>6, <1>7, <1>8, <1>9, <1>10, <1>11

\* The claim is completed in a step that starts no run.
LEMMA RestfulClose ==
    ASSUME RunInv, NEW w \in Workers, CloseClaim(w), scans' = scans, edits' = edits,
           Surviving, commands' = commands, schedule'.job = schedule.job,
           schedule'.status = "queued" => schedule.status = "queued",
           \A v \in Workers \ {w} : threads'[v] = threads[v]
    PROVE  Restful
<1>1. \A j \in Jobs : jobs'[j] = "absent" <=> jobs[j] = "absent"
  BY CloseEffect DEF RunInv, LeaseTypeOK
<1>2. ASSUME NEW v \in Workers, InStage(v, "run")'
      PROVE  InStage(v, "run") /\ busy'[v] = busy[v] /\ threads'[v] = threads[v]
  BY <1>2, CloseEffect DEF InStage
<1> QED
  BY <1>1, <1>2 DEF Restful

\* BeginJobExecution on any other occurrence.
LEMMA RunBeginCloses ==
    ASSUME RunInv, NEW w \in Workers, BeginCloses(w)
    PROVE  RunInv'
<1> USE DEF RunInv
<1> DEFINE j == busy[w]
<1>0. /\ CloseClaim(w) /\ scans' = scans /\ edits' = edits /\ clock' = clock
      /\ commands' = commands /\ threads' = threads
  BY DEF BeginCloses
<1>1. /\ LeaseTypeOK' /\ LocalTypes' /\ Leased' /\ j \in Jobs
      /\ jobs' = [jobs EXCEPT ![j] = "closed"]
  BY <1>0, CloseEffect
<1>2. Surviving /\ Current' /\ schedule' \in Schedule /\ schedule'.job = schedule.job
      /\ (schedule'.status = "queued" => schedule.status = "queued")
  <2>1. CASE OwnerStatus(j) = "superseded" /\ CloseSuperseded(j)
    <3>1. Surviving /\ schedule' = schedule
      BY <2>1, ClosedSurvive DEF CloseSuperseded
    <3>2. Superseded(j)
      BY <2>1, OwnerStatusAt DEF ScheduleTypeOK, Schedule, RunStatus, RunResults
    <3>3. schedule.status \in Unfinished => schedule.job # j
      BY <3>2, Constants DEF Superseded, Current, Unfinished
    <3>4. schedule.status \in Unfinished => jobs'[schedule.job] \in {"waiting", "held"}
      BY <1>1, <3>3 DEF Current, LeaseTypeOK
    <3> QED
      BY <3>1, <3>4, CurrentSame DEF ScheduleTypeOK
  <2>2. CASE OwnerStatus(j) = "running" /\ WriteResult(j, "interrupted")
    <3>1. schedule.exists
      BY <2>2, OwnerStatusAt DEF Superseded
    <3>2. Surviving /\ schedule' = [schedule EXCEPT !.status = "interrupted"]
      BY <2>2, ClosedSurvive DEF WriteResult
    <3>3. "interrupted" \in RunStatus /\ "interrupted" \notin Unfinished \cup Unstarted
      BY DEF RunStatus, Unfinished, Unstarted
    <3> QED
      BY <3>1, <3>2, <3>3, CurrentResult
  <2>3. CASE OwnerStatus(j) = "disabled" /\ WriteResult(j, "skipped")
    <3>1. schedule.exists /\ schedule.status = "queued"
      BY <2>3, OwnerStatusAt DEF Superseded, ScheduleTypeOK, Schedule, RunStatus, RunResults
    <3>2. Surviving /\ schedule' = [schedule EXCEPT !.status = "skipped"]
      BY <2>3, ClosedSurvive DEF WriteResult
    <3>3. "skipped" \in RunStatus /\ "skipped" \notin Unfinished
      BY DEF RunStatus, Unfinished
    <3>4. schedule.job \in Jobs => \A t \in Targets : children[<<schedule.job, t>>] = "absent"
      BY <3>1 DEF Current, Unstarted
    <3> QED
      BY <3>1, <3>2, <3>3, <3>4, CurrentResult
  <2>4. CASE /\ OwnerStatus(j) \notin {"superseded", "running", "disabled", "queued"}
             /\ LeaveRecords
    <3>1. Surviving /\ schedule' = schedule
      BY <2>4, SameSurvive DEF LeaveRecords
    <3>2. schedule.status \notin Unfinished
      BY <2>4, OwnerStatusAt DEF Unfinished
    <3> QED
      BY <3>1, <3>2, CurrentSame DEF ScheduleTypeOK
  <2> QED
    BY <2>1, <2>2, <2>3, <2>4 DEF BeginCloses, Job
<1>3. Restful
  BY <1>0, <1>2, RestfulClose
<1>4. ScheduleTypeOK'
  BY <1>0, <1>2, TypesAfter DEF ScheduleTypeOK, ThreadPC
<1> QED
  BY <1>1, <1>2, <1>3, <1>4, RunRestful

\* What the aggregate of a run says about its threads.
LEMMA AggregateFacts ==
    ASSUME NEW results, NEW r, r = Aggregate(results)
    PROVE  /\ r \in RunStatus /\ r \notin Unfinished
           /\ r = "succeeded" => results = {"succeeded"}
           /\ r = "partial" => "succeeded" \in results
           /\ r \in Unstarted => results = {"blocked"}
BY DEF Aggregate, RunStatus, RunResults, Unfinished, Unstarted

\* FinishJobExecution.
LEMMA RunFinish ==
    ASSUME RunInv, NEW w \in Workers, Finish(w)
    PROVE  RunInv'
<1> USE DEF RunInv
<1> DEFINE j == busy[w]
<1>0. /\ CloseClaim(w) /\ scans' = scans /\ edits' = edits /\ clock' = clock
      /\ commands' = commands /\ threads' = [threads EXCEPT ![w] = IdleThreads]
  BY DEF Finish
<1>1. /\ LeaseTypeOK' /\ LocalTypes' /\ Leased' /\ j \in Jobs
      /\ jobs' = [jobs EXCEPT ![j] = "closed"]
  BY <1>0, CloseEffect
<1>2. Surviving /\ Current' /\ schedule' \in Schedule /\ schedule'.job = schedule.job
      /\ (schedule'.status = "queued" => schedule.status = "queued")
  <2>1. CASE Superseded(j) /\ CloseSuperseded(j)
    <3>1. Surviving /\ schedule' = schedule
      BY <2>1, ClosedSurvive DEF CloseSuperseded
    <3>2. schedule.status \in Unfinished => schedule.job # j
      BY <2>1, Constants DEF Superseded, Current, Unfinished
    <3>3. schedule.status \in Unfinished => jobs'[schedule.job] \in {"waiting", "held"}
      BY <1>1, <3>2 DEF Current, LeaseTypeOK
    <3> QED
      BY <3>1, <3>3, CurrentSame DEF ScheduleTypeOK
  <2>2. ASSUME OwnerStatus(j) = "running", NEW r \in Outcomes(w), WriteResult(j, r)
        PROVE  Surviving /\ Current' /\ schedule' \in Schedule /\ schedule'.job = schedule.job
               /\ (schedule'.status = "queued" => schedule.status = "queued")
    <3>1. schedule.exists /\ schedule.job = j
      BY <2>2, OwnerStatusAt DEF Superseded
    <3>2. Surviving /\ schedule' = [schedule EXCEPT !.status = r]
      BY <2>2, ClosedSurvive DEF WriteResult
    <3>3. /\ r \in RunStatus /\ r \notin Unfinished
          /\ r \in Unstarted => \A t \in Targets : children[<<j, t>>] = "absent"
          /\ r = "succeeded" => \A t \in Targets : children[<<j, t>>] = "succeeded"
          /\ r = "partial" => \E t \in Targets : children[<<j, t>>] = "succeeded"
      <4>1. CASE r = "failed"
        BY <4>1 DEF RunStatus, RunResults, Unfinished, Unstarted
      <4>2. CASE r # "failed"
        <5>1. InStage(w, "run") /\ r = Aggregate({threads[w][t] : t \in Targets})
          BY <2>2, <4>2 DEF Outcomes, Finish, Ended
        <5>2. /\ r \in RunStatus /\ r \notin Unfinished
              /\ r = "succeeded" => \A t \in Targets : threads[w][t] = "succeeded"
              /\ r = "partial" => \E t \in Targets : threads[w][t] = "succeeded"
              /\ r \in Unstarted => \A t \in Targets : threads[w][t] = "blocked"
          <6> DEFINE results == {threads[w][t] : t \in Targets}
          <6>1. /\ r \in RunStatus /\ r \notin Unfinished
                /\ r = "succeeded" => results = {"succeeded"}
                /\ r = "partial" => "succeeded" \in results
                /\ r \in Unstarted => results = {"blocked"}
            BY <5>1, AggregateFacts
          <6> QED
            BY <6>1
        <5> QED
          BY <5>1, <5>2 DEF Threaded
      <4> QED
        BY <4>1, <4>2
    <3>4. r # "queued"
      BY <3>3 DEF Unfinished
    <3> QED
      BY <3>1, <3>2, <3>3, <3>4, CurrentResult
  <2> QED
    BY <2>1, <2>2 DEF Finish, Job
<1>3. threads' \in [Workers -> [Targets -> ThreadPC]]
      /\ \A v \in Workers \ {w} : threads'[v] = threads[v]
  BY <1>0 DEF ScheduleTypeOK, ThreadPC, IdleThreads
<1>4. Restful
  BY <1>0, <1>2, <1>3, RestfulClose
<1>5. ScheduleTypeOK'
  BY <1>0, <1>2, <1>3, TypesAfter
<1> QED
  BY <1>1, <1>2, <1>4, <1>5, RunRestful

\* BeginJobExecution or FinishJobExecution fails.
LEMMA RunStoreFails ==
    ASSUME RunInv, NEW w \in Workers, StoreFails(w)
    PROVE  RunInv'
<1> USE DEF RunInv
<1>1. /\ stages' = [stages EXCEPT ![w] = [at |-> "error", result |-> "failed"]]
      /\ threads' = [threads EXCEPT ![w] = IdleThreads]
      /\ UNCHANGED <<leaseVars, clock, schedule, scans, edits, children, commands>>
      /\ stages[w].at # "none"
  BY DEF StoreFails, EnterError, EnterStage, InStage, Ended
<1>2. LeaseTypeOK' /\ Leased' /\ LocalTypes'
  <2>1. LocalTypes'
    BY <1>1 DEF LocalTypes, ChildResults
  <2>2. LeaseTypeOK'
    BY <1>1 DEF LeaseTypeOK, leaseVars
  <2>3. Leased'
    BY <1>1 DEF Leased, leaseVars, LocalTypes
  <2> QED
    BY <2>1, <2>2, <2>3
<1>3. threads' \in [Workers -> [Targets -> ThreadPC]]
  BY <1>1 DEF ScheduleTypeOK, ThreadPC, IdleThreads
<1>4. Restful
  <2>1. ASSUME NEW v \in Workers, InStage(v, "run")'
        PROVE  InStage(v, "run") /\ busy'[v] = busy[v] /\ threads'[v] = threads[v]
    BY <1>1, <2>1 DEF InStage, LocalTypes, ScheduleTypeOK, leaseVars
  <2> QED
    BY <1>1, <2>1, SameSurvive DEF Restful, leaseVars
<1>5. Current'
  BY <1>1, SameSurvive, CurrentSame DEF leaseVars, Current
<1>6. ScheduleTypeOK'
  BY <1>1, <1>3, SameSurvive, TypesAfter DEF ScheduleTypeOK
<1> QED
  BY <1>2, <1>4, <1>5, <1>6, RunRestful

\* Some workers let go of their jobs, which stay as they are.
LEMMA RunLetGo ==
    ASSUME RunInv, NEW S \in SUBSET Workers,
           jobs' = jobs, holders' \in [Jobs -> SUBSET Workers],
           \A j \in Jobs : holders'[j] \subseteq holders[j],
           busy' = [w \in Workers |-> IF w \in S THEN NoJob ELSE busy[w]],
           stages' = [w \in Workers |-> IF w \in S THEN NoStage ELSE stages[w]],
           threads' \in [Workers -> [Targets -> ThreadPC]],
           \A w \in Workers \ S : threads'[w] = threads[w],
           LocalTypes', UNCHANGED <<clock, schedule, children, commands>>
    PROVE  RunInv'
<1> USE DEF RunInv
<1>1. LeaseTypeOK'
  BY DEF LeaseTypeOK
<1>2. Leased'
  BY Constants DEF Leased, NoStage, LeaseTypeOK
<1>3. Restful
  <2>1. ASSUME NEW v \in Workers, InStage(v, "run")'
        PROVE  InStage(v, "run") /\ busy'[v] = busy[v] /\ threads'[v] = threads[v]
    BY <2>1 DEF InStage, NoStage
  <2> QED
    BY <2>1, SameSurvive DEF Restful
<1>4. Current'
  BY SameSurvive, CurrentSame DEF Current
<1>5. ScheduleTypeOK'
  BY SameSurvive, TypesAfter DEF ScheduleTypeOK
<1> QED
  BY <1>1, <1>2, <1>3, <1>4, <1>5, RunRestful

LEMMA RunReturn ==
    ASSUME RunInv, NEW w \in Workers, Return(w)
    PROVE  RunInv'
<1> USE DEF RunInv
<1>1. /\ jobs' = jobs /\ holders' = [j \in Jobs |-> holders[j] \ {w}]
      /\ busy' = [busy EXCEPT ![w] = NoJob]
      /\ stages' = [stages EXCEPT ![w] = NoStage]
      /\ UNCHANGED <<clock, schedule, scans, edits, children, commands, threads>>
  BY DEF Return, Leave
<1>2. /\ busy' = [v \in Workers |-> IF v \in {w} THEN NoJob ELSE busy[v]]
      /\ stages' = [v \in Workers |-> IF v \in {w} THEN NoStage ELSE stages[v]]
  BY <1>1 DEF LeaseTypeOK, LocalTypes
<1>3. holders' \in [Jobs -> SUBSET Workers] /\ \A j \in Jobs : holders'[j] \subseteq holders[j]
  BY <1>1 DEF LeaseTypeOK
<1>4. LocalTypes'
  BY <1>1 DEF LocalTypes, NoStage, ChildResults
<1>5. threads' \in [Workers -> [Targets -> ThreadPC]]
      /\ \A v \in Workers \ {w} : threads'[v] = threads[v]
  BY <1>1 DEF ScheduleTypeOK, ThreadPC
<1>6. {w} \in SUBSET Workers
  OBVIOUS
<1>7. jobs' = jobs /\ UNCHANGED <<clock, schedule, children, commands>>
  BY <1>1
<1> HIDE DEF RunInv
<1> QED
  BY <1>2, <1>3, <1>4, <1>5, <1>6, <1>7, RunLetGo

LEMMA RunCrash ==
    ASSUME RunInv, HubCrash
    PROVE  RunInv'
<1> USE DEF RunInv
<1>1. /\ jobs' = jobs /\ holders' = [j \in Jobs |-> {}]
      /\ busy' = [w \in Workers |-> NoJob]
      /\ stages' = [w \in Workers |-> NoStage]
      /\ threads' = [w \in Workers |-> IdleThreads]
      /\ scans' = [s \in Schedulers |-> NoScan] /\ edits' = [e \in Editors |-> NoEdit]
      /\ UNCHANGED <<clock, schedule, children, commands>>
  BY DEF HubCrash, StopAll
<1>2. LocalTypes'
  <2>1. NoScan \in [at : 0..Horizon, due : 0..Horizon, cronValid : BOOLEAN, active : BOOLEAN]
    BY Constants DEF NoScan, Never
  <2>2. NoEdit \in [change : {"none"} \cup Changes, set : BOOLEAN, next : Nat]
    BY DEF NoEdit, Never
  <2>3. NoStage \in [at : {"none", "begin", "run", "finish", "error"}, result : ChildResults]
    BY DEF NoStage, ChildResults
  <2> QED
    BY <1>1, <2>1, <2>2, <2>3 DEF LocalTypes
<1>3. threads' \in [Workers -> [Targets -> ThreadPC]]
  BY <1>1 DEF IdleThreads, ThreadPC
<1> QED
  BY <1>1, <1>2, <1>3, RunLetGo

LEMMA RunClaimLost ==
    ASSUME RunInv, ClaimLost
    PROVE  RunInv'
<1> USE DEF RunInv, scheduleVars
<1>1. PICK j \in Jobs : GrantLost(j)
  BY DEF ClaimLost
<1>2. /\ jobs[j] = "waiting" /\ jobs' = [jobs EXCEPT ![j] = "held"]
      /\ holders' = holders /\ busy' = busy /\ UNCHANGED scheduleVars
  BY <1>1 DEF GrantLost, ClaimLost
<1>3. LeaseTypeOK'
  BY <1>2 DEF LeaseTypeOK
<1>4. LocalTypes' /\ ScheduleTypeOK'
  BY <1>2 DEF LocalTypes, ScheduleTypeOK
<1>5. Leased'
  BY <1>2 DEF Leased, LeaseTypeOK
<1>6. Restful
  <2>1. \A k \in Jobs : jobs'[k] = "absent" <=> jobs[k] = "absent"
    BY <1>2 DEF LeaseTypeOK
  <2> QED
    BY <1>2, <2>1, SameSurvive DEF Restful, InStage
<1>7. Current'
  <2>1. schedule.status \in Unfinished => jobs'[schedule.job] \in {"waiting", "held"}
    BY <1>2 DEF Current, LeaseTypeOK
  <2> QED
    BY <1>2, <2>1, CurrentSame, SameSurvive
<1> QED
  BY <1>3, <1>4, <1>5, <1>6, <1>7, RunRestful

-----------------------------------------------------------------------------
(* Dead letters.                                                           *)

\* FinalizeDeadJobInTransaction ends the current occurrence if its job is dead.
LEMMA DeadFacts ==
    ASSUME RunInv, NEW dead \in SUBSET Jobs, FinalizeDead(dead)
    PROVE  /\ Surviving
           /\ \/ /\ schedule' = schedule
                 /\ schedule.status \in Unfinished => schedule.job \notin dead
              \/ /\ schedule.exists /\ schedule.job \in dead /\ schedule.status \in Unfinished
                 /\ \E r \in {"skipped", "not_executed", "interrupted"} :
                       /\ schedule' = [schedule EXCEPT !.status = r]
                       /\ r # "interrupted" => schedule.status = "queued"
<1> USE DEF RunInv
<1> DEFINE current == schedule.job
           open == {j \in dead : OwnerStatus(j) \in {"superseded", "disabled", "running", "queued"}}
           verdict == [disabled |-> "skipped", running |-> "interrupted",
                       queued |-> "not_executed"]
<1>1. Surviving
  BY ClosedSurvive DEF FinalizeDead
<1>2. schedule' = IF current \in open /\ OwnerStatus(current) # "superseded"
                  THEN [schedule EXCEPT !.status = verdict[OwnerStatus(current)]]
                  ELSE schedule
  BY DEF FinalizeDead
<1>3. Superseded(current) <=> ~schedule.exists
  BY DEF Superseded
<1>4. schedule.status \in Unfinished => schedule.exists
  BY DEF Current, Unfinished
<1>5. CASE current \in open /\ OwnerStatus(current) # "superseded"
  <2>1. schedule' = [schedule EXCEPT !.status = verdict[OwnerStatus(current)]]
    BY <1>2, <1>5
  <2>2. schedule.exists /\ current \in dead
    BY <1>3, <1>5, OwnerStatusAt
  <2>3. OwnerStatus(current) \in {"disabled", "running", "queued"}
    BY <1>5
  <2>4. OwnerStatus(current) = "disabled" => schedule.status = "queued"
    BY <1>3, <2>2, OwnerStatusAt DEF ScheduleTypeOK, Schedule, RunStatus, RunResults
  <2>5. OwnerStatus(current) # "disabled" => schedule.status = OwnerStatus(current)
    BY <1>3, <2>2, OwnerStatusAt
  <2>6. /\ verdict["disabled"] = "skipped" /\ verdict["running"] = "interrupted"
        /\ verdict["queued"] = "not_executed"
    OBVIOUS
  <2> HIDE DEF verdict, open
  <2> QED
    BY <1>1, <2>1, <2>2, <2>3, <2>4, <2>5, <2>6 DEF Unfinished
<1>6. CASE ~(current \in open /\ OwnerStatus(current) # "superseded")
  <2>1. schedule' = schedule
    BY <1>2, <1>6
  <2>2. schedule.status \in Unfinished =>
           OwnerStatus(current) \in {"disabled", "running", "queued"}
    BY <1>3, <1>4, OwnerStatusAt DEF Unfinished
  <2>3. schedule.status \in Unfinished => current \notin dead
    BY <1>6, <2>2
  <2> QED
    BY <1>1, <2>1, <2>3
<1> QED
  BY <1>5, <1>6

\* Jobs go back to the queue, or are closed with what they stand for.
LEMMA RunDead ==
    ASSUME RunInv, NEW dead \in SUBSET Jobs, FinalizeDead(dead),
           jobs' \in [Jobs -> {"absent", "waiting", "held", "closed"}],
           \A j \in Jobs : jobs'[j] = "absent" <=> jobs[j] = "absent",
           \A j \in Jobs \ dead : jobs[j] \in {"waiting", "held"} => jobs'[j] \in {"waiting", "held"}
    PROVE  /\ Current' /\ Surviving /\ schedule' \in Schedule /\ schedule'.job = schedule.job
           /\ schedule'.status = "queued" => schedule.status = "queued"
<1> USE DEF RunInv
<1>1. CASE schedule' = schedule /\ (schedule.status \in Unfinished => schedule.job \notin dead)
  <2>1. schedule.status \in Unfinished => jobs'[schedule.job] \in {"waiting", "held"}
    BY <1>1 DEF Current
  <2> QED
    BY <1>1, <2>1, DeadFacts, CurrentSame DEF ScheduleTypeOK
<1>2. ASSUME schedule.exists, NEW r \in {"skipped", "not_executed", "interrupted"},
             schedule' = [schedule EXCEPT !.status = r],
             r # "interrupted" => schedule.status = "queued"
      PROVE  /\ Current' /\ Surviving /\ schedule' \in Schedule /\ schedule'.job = schedule.job
             /\ schedule'.status = "queued" => schedule.status = "queued"
  <2>1. r \in RunStatus /\ r \notin Unfinished /\ r \notin {"succeeded", "partial", "queued"}
    BY DEF RunStatus, Unfinished
  <2>2. /\ Surviving
        /\ schedule.job \in Jobs /\ r \in Unstarted =>
              \A t \in Targets : children[<<schedule.job, t>>] = "absent"
    BY <1>2, DeadFacts DEF Current, Unstarted
  <2> HIDE DEF RunInv
  <2> QED
    BY <1>2, <2>1, <2>2, CurrentResult
<1> HIDE DEF RunInv
<1> QED
  BY <1>1, <1>2, DeadFacts

LEMMA RunFailAndFinalize ==
    ASSUME RunInv, NEW w \in Workers, FailAndFinalize(w)
    PROVE  RunInv'
<1> USE DEF RunInv
<1> DEFINE j == busy[w]
<1>1. PICK dead \in SUBSET {j} :
         GiveBack(w, IF dead = {} THEN "waiting" ELSE "closed") /\ FinalizeDead(dead)
  BY DEF FailAndFinalize, Job
<1>2. /\ j \in Jobs /\ w \in holders[j]
      /\ jobs' = [jobs EXCEPT ![j] = IF dead = {} THEN "waiting" ELSE "closed"]
      /\ holders' = [holders EXCEPT ![j] = {}]
      /\ busy' = [busy EXCEPT ![w] = NoJob]
      /\ stages' = [stages EXCEPT ![w] = NoStage]
      /\ UNCHANGED <<clock, scans, edits, commands, threads>>
  BY <1>1 DEF FailAndFinalize, GiveBack, Holds
<1>3. /\ LeaseTypeOK'
  BY <1>2 DEF LeaseTypeOK
<1>4. LocalTypes'
  BY <1>2 DEF LocalTypes, NoStage, ChildResults
<1>5. jobs[j] = "held" /\ dead \in SUBSET Jobs /\ (dead # {} => j \in dead)
  BY <1>2 DEF Leased
<1>6. /\ jobs' \in [Jobs -> {"absent", "waiting", "held", "closed"}]
      /\ \A k \in Jobs : jobs'[k] = "absent" <=> jobs[k] = "absent"
      /\ \A k \in Jobs \ dead :
            jobs[k] \in {"waiting", "held"} => jobs'[k] \in {"waiting", "held"}
  BY <1>2, <1>5 DEF LeaseTypeOK
<1>7. Leased'
  <2>1. \A k \in Jobs : holders'[k] # {} => jobs'[k] = "held"
    BY <1>2 DEF Leased, LeaseTypeOK
  <2>2. ASSUME NEW v \in Workers
        PROVE  /\ stages'[v].at # "none" => busy'[v] \in Jobs
               /\ busy'[v] \in Jobs => jobs'[busy'[v]] # "absent"
    BY <1>2, <1>6, Constants DEF Leased, NoStage, LeaseTypeOK, LocalTypes
  <2> QED
    BY <2>1, <2>2 DEF Leased
<1>8. /\ Current' /\ Surviving /\ schedule' \in Schedule /\ schedule'.job = schedule.job
      /\ schedule'.status = "queued" => schedule.status = "queued"
  <2> HIDE DEF RunInv
  <2> QED
    BY <1>1, <1>5, <1>6, RunDead
<1>9. ScheduleTypeOK'
  BY <1>2, <1>8, TypesAfter DEF ScheduleTypeOK, ThreadPC
<1>10. Restful
  <2>1. ASSUME NEW v \in Workers, InStage(v, "run")'
        PROVE  InStage(v, "run") /\ busy'[v] = busy[v] /\ threads'[v] = threads[v]
    BY <1>2, <2>1 DEF InStage, NoStage, LocalTypes, LeaseTypeOK
  <2> QED
    BY <1>2, <1>6, <1>8, <2>1 DEF Restful
<1> QED
  BY <1>3, <1>4, <1>7, <1>8, <1>9, <1>10, RunRestful

LEMMA RunRecoverAndFinalize ==
    ASSUME RunInv, RecoverAndFinalize
    PROVE  RunInv'
<1> USE DEF RunInv
<1>1. PICK S \in SUBSET Jobs : \E dead \in SUBSET S : TakeAway(S, dead) /\ FinalizeDead(dead)
  BY DEF RecoverAndFinalize
<1>2. PICK dead \in SUBSET S : TakeAway(S, dead) /\ FinalizeDead(dead)
  BY <1>1
<1>3. /\ \A k \in S : jobs[k] = "held"
      /\ jobs' = [k \in Jobs |-> IF k \in dead THEN "closed"
                                 ELSE IF k \in S THEN "waiting" ELSE jobs[k]]
      /\ holders' = [k \in Jobs |-> IF k \in S THEN {} ELSE holders[k]]
      /\ busy' = busy
      /\ UNCHANGED <<clock, scans, edits, commands, stages, threads>>
  BY <1>2 DEF TakeAway, RecoverAndFinalize
<1>4. LeaseTypeOK'
  BY <1>3 DEF LeaseTypeOK
<1>5. LocalTypes'
  BY <1>3 DEF LocalTypes
<1>6. /\ jobs' \in [Jobs -> {"absent", "waiting", "held", "closed"}]
      /\ \A k \in Jobs : jobs'[k] = "absent" <=> jobs[k] = "absent"
      /\ \A k \in Jobs \ dead :
            jobs[k] \in {"waiting", "held"} => jobs'[k] \in {"waiting", "held"}
  BY <1>3 DEF LeaseTypeOK
<1>7. Leased'
  <2>1. \A k \in Jobs : holders'[k] # {} => jobs'[k] = "held"
    BY <1>3 DEF Leased, LeaseTypeOK
  <2> QED
    BY <1>3, <1>6, <2>1 DEF Leased
<1>8. /\ Current' /\ Surviving /\ schedule' \in Schedule /\ schedule'.job = schedule.job
      /\ schedule'.status = "queued" => schedule.status = "queued"
  <2>1. dead \in SUBSET Jobs
    OBVIOUS
  <2> HIDE DEF RunInv
  <2> QED
    BY <1>2, <1>6, <2>1, RunDead
<1>9. ScheduleTypeOK'
  BY <1>3, <1>8, TypesAfter DEF ScheduleTypeOK, ThreadPC
<1>10. Restful
  BY <1>3, <1>6, <1>8 DEF Restful, InStage
<1> QED
  BY <1>4, <1>5, <1>7, <1>8, <1>9, <1>10, RunRestful

-----------------------------------------------------------------------------
(* The threads of a run.                                                   *)

\* A thread works on the records of its own target.
LEMMA RunThread ==
    ASSUME RunInv, NEW w \in Workers, NEW t \in Targets, NEW pc \in ThreadPC, InStage(w, "run"),
           threads' = [threads EXCEPT ![w][t] = pc],
           UNCHANGED <<leaseVars, clock, schedule, scans, edits, stages>>,
           children' \in [Jobs \X Targets -> ChildStatus],
           commands' \in [Jobs \X Targets -> Nat],
           \A j \in Jobs, u \in Targets : j # busy[w] \/ u # t =>
              /\ children'[<<j, u>>] = children[<<j, u>>]
              /\ commands'[<<j, u>>] = commands[<<j, u>>],
           children'[<<busy[w], t>>] = "absent" => commands'[<<busy[w], t>>] = 0,
           commands'[<<busy[w], t>>] \in {0, 1},
           pc \in {"start", "blocked"} => children'[<<busy[w], t>>] = "absent",
           pc = "send" => children'[<<busy[w], t>>] # "absent" /\ commands'[<<busy[w], t>>] = 0,
           pc = "succeeded" => children'[<<busy[w], t>>] = "succeeded",
           \/ children' = children
           \/ schedule.job # busy[w]
           \/ schedule.status = "running"
    PROVE  RunInv'
<1> USE DEF RunInv, leaseVars
<1>1. busy[w] \in Jobs /\ jobs[busy[w]] # "absent"
  BY DEF Leased, InStage
<1>2. LeaseTypeOK' /\ LocalTypes' /\ Leased' /\ Dispatched'
  BY DEF LeaseTypeOK, LocalTypes, Leased, Dispatched, InStage
<1>3. ScheduleTypeOK'
  BY DEF ScheduleTypeOK, ThreadPC, ChildStatus
<1>4. Layered'
  <2> SUFFICES ASSUME NEW j \in Jobs, NEW u \in Targets
               PROVE  /\ jobs[j] = "absent" => children'[<<j, u>>] = "absent"
                      /\ children'[<<j, u>>] = "absent" => commands'[<<j, u>>] = 0
                      /\ commands'[<<j, u>>] \in {0, 1}
    BY DEF Layered
  <2>1. CASE j = busy[w] /\ u = t
    BY <1>1, <2>1
  <2>2. CASE j # busy[w] \/ u # t
    BY <2>2 DEF Layered
  <2> QED
    BY <2>1, <2>2
<1>5. Current'
  <2>1. CASE children' = children
    BY <2>1 DEF Current
  <2>2. CASE schedule.job # busy[w]
    BY <2>2 DEF Current
  <2>3. CASE schedule.status = "running"
    BY <2>3 DEF Current, Unfinished, Unstarted
  <2> QED
    BY <2>1, <2>2, <2>3
<1>6. Threaded'
  <2> SUFFICES ASSUME NEW v \in Workers, NEW u \in Targets, InStage(v, "run")'
               PROVE  Threaded!(v, u)'
    BY DEF Threaded
  <2>1. InStage(v, "run") /\ busy' = busy /\ busy[v] \in Jobs
    BY DEF InStage, Leased
  <2>2. CASE v = w /\ u = t
    <3>1. threads'[v][u] = pc
      BY <2>2 DEF ScheduleTypeOK
    <3> QED
      BY <2>1, <2>2, <3>1
  <2>3. CASE v # w \/ u # t
    <3>1. threads'[v][u] = threads[v][u]
      BY <2>3 DEF ScheduleTypeOK
    <3>2. busy[v] # busy[w] \/ u # t
      BY <2>1, <2>3 DEF Dispatched
    <3>3. /\ children'[<<busy[v], u>>] = children[<<busy[v], u>>]
          /\ commands'[<<busy[v], u>>] = commands[<<busy[v], u>>]
      BY <2>1, <3>2
    <3> QED
      BY <2>1, <3>1, <3>3 DEF Threaded
  <2> QED
    BY <2>2, <2>3
<1> QED
  BY <1>2, <1>3, <1>4, <1>5, <1>6

LEMMA RunThreadStep ==
    ASSUME RunInv, NEW w \in Workers, NEW t \in Targets, ThreadStep(w, t)
    PROVE  RunInv'
<1> USE DEF RunInv, ThreadTo
<1> DEFINE j == busy[w]
<1>1. InStage(w, "run") /\ UNCHANGED <<leaseVars, clock, schedule, scans, edits, stages>>
  BY DEF ThreadStep, SkipTarget, StartScheduledAction, SendCommand, FinishScheduledAction,
         ReportFails, ThreadAt
<1>2. j \in Jobs
  BY <1>1 DEF Leased, InStage
<1>3. /\ children \in [Jobs \X Targets -> ChildStatus]
      /\ commands \in [Jobs \X Targets -> Nat]
      /\ children[<<j, t>>] = "absent" => commands[<<j, t>>] = 0
      /\ commands[<<j, t>>] \in {0, 1}
      /\ <<j, t>> \in Jobs \X Targets
  BY <1>2 DEF ScheduleTypeOK, ChildStatus, Layered
<1>4. CASE SkipTarget(w, t)
  <2>1. PICK pc \in {"failed", "blocked"} : threads' = [threads EXCEPT ![w][t] = pc]
    BY <1>4 DEF SkipTarget
  <2>2. children' = children /\ commands' = commands /\ children[<<j, t>>] = "absent"
    BY <1>1, <1>4 DEF SkipTarget, ThreadAt, Threaded
  <2>3. pc \in ThreadPC
    BY DEF ThreadPC
  <2> HIDE DEF RunInv
  <2> QED
    BY <1>1, <1>3, <2>1, <2>2, <2>3, RunThread
<1>5. CASE StartScheduledAction(w, t)
  <2>1. PICK pc \in {"send", "failed"} : threads' = [threads EXCEPT ![w][t] = pc]
    BY <1>5 DEF StartScheduledAction
  <2>2. /\ OwnerStatus(j) = "running" /\ children[<<j, t>>] = "absent"
        /\ children' = [children EXCEPT ![<<j, t>>] = "running"] /\ commands' = commands
    BY <1>5 DEF StartScheduledAction, Job
  <2>3. pc \in ThreadPC
    BY DEF ThreadPC
  <2>4. /\ children' \in [Jobs \X Targets -> ChildStatus]
        /\ children'[<<j, t>>] = "running"
        /\ \A k \in Jobs, u \in Targets : k # j \/ u # t => children'[<<k, u>>] = children[<<k, u>>]
    BY <1>3, <2>2 DEF ChildStatus
  <2>5. schedule.status = "running"
    BY <2>2, OwnerStatusAt
  <2>6. /\ commands' \in [Jobs \X Targets -> Nat]
        /\ \A k \in Jobs, u \in Targets : k # j \/ u # t => commands'[<<k, u>>] = commands[<<k, u>>]
        /\ commands'[<<j, t>>] = 0 /\ commands'[<<j, t>>] \in {0, 1}
        /\ children'[<<j, t>>] # "absent"
    BY <1>3, <2>2, <2>4
  <2>7. pc \notin {"start", "blocked", "succeeded"}
    OBVIOUS
  <2> HIDE DEF RunInv
  <2> QED
    BY <1>1, <2>1, <2>3, <2>4, <2>5, <2>6, <2>7, RunThread
<1>6. CASE SendCommand(w, t)
  <2>1. PICK pc \in {"report_succeeded", "report_failed"} : threads' = [threads EXCEPT ![w][t] = pc]
    BY <1>6 DEF SendCommand
  <2>2. pc \in ThreadPC
    BY DEF ThreadPC
  <2>3. children' = children /\ children[<<j, t>>] # "absent" /\ commands[<<j, t>>] = 0
    BY <1>1, <1>6 DEF SendCommand, ThreadAt, Threaded
  <2>4. /\ commands' \in [Jobs \X Targets -> Nat]
        /\ commands'[<<j, t>>] \in {0, 1}
        /\ \A k \in Jobs, u \in Targets : k # j \/ u # t => commands'[<<k, u>>] = commands[<<k, u>>]
    BY <1>3, <1>6, <2>3 DEF SendCommand, Job
  <2> HIDE DEF RunInv
  <2> QED
    BY <1>1, <1>3, <2>1, <2>2, <2>3, <2>4, RunThread
<1>7. CASE FinishScheduledAction(w, t)
  <2>1. PICK result \in ChildResults :
           /\ OwnerStatus(j) \in {"running", "superseded"}
           /\ children' = [children EXCEPT ![<<j, t>>] = result]
           /\ \E acknowledged \in BOOLEAN :
                 threads' = [threads EXCEPT ![w][t] = IF acknowledged THEN result ELSE "failed"]
    BY <1>7 DEF FinishScheduledAction, Job
  <2>2. PICK pc \in {result, "failed"} : threads' = [threads EXCEPT ![w][t] = pc]
    BY <2>1
  <2>3. pc \in ThreadPC /\ pc \in ChildResults /\ commands' = commands
        /\ (pc = "succeeded" => result = "succeeded")
    BY <1>7, <2>1 DEF ThreadPC, ChildResults, FinishScheduledAction
  <2>4. /\ children' \in [Jobs \X Targets -> ChildStatus]
        /\ children'[<<j, t>>] = result
        /\ \A k \in Jobs, u \in Targets : k # j \/ u # t => children'[<<k, u>>] = children[<<k, u>>]
    BY <1>3, <2>1 DEF ChildStatus
  <2>5. schedule.job # j \/ schedule.status = "running"
    BY <1>2, <2>1, Constants, OwnerStatusAt
       DEF Superseded, Current, ScheduleTypeOK, Schedule, RunStatus, RunResults
  <2>6. result # "absent" /\ pc \notin {"start", "blocked", "send"}
    BY <2>3 DEF ChildResults
  <2>7. /\ commands' \in [Jobs \X Targets -> Nat]
        /\ \A k \in Jobs, u \in Targets : k # j \/ u # t => commands'[<<k, u>>] = commands[<<k, u>>]
        /\ commands'[<<j, t>>] \in {0, 1}
        /\ children'[<<j, t>>] # "absent"
        /\ pc = "succeeded" => children'[<<j, t>>] = "succeeded"
    BY <1>3, <2>3, <2>4, <2>6
  <2> HIDE DEF RunInv
  <2> QED
    BY <1>1, <2>2, <2>3, <2>4, <2>5, <2>6, <2>7, RunThread
<1>8. CASE ReportFails(w, t)
  <2>1. /\ threads' = [threads EXCEPT ![w][t] = "failed"]
        /\ children' = children /\ commands' = commands
    BY <1>8 DEF ReportFails
  <2>2. "failed" \in ThreadPC
    BY DEF ThreadPC
  <2> HIDE DEF RunInv
  <2> QED
    BY <1>1, <1>3, <2>1, <2>2, RunThread
<1> QED
  BY <1>4, <1>5, <1>6, <1>7, <1>8 DEF ThreadStep

-----------------------------------------------------------------------------
(* The theorems that hold with any number of scheduler loops.              *)

LEMMA RunStep == RunInv /\ [ScheduleNext]_vars => RunInv'
<1> SUFFICES ASSUME RunInv, [ScheduleNext]_vars PROVE RunInv'
  OBVIOUS
<1>1. CASE UNCHANGED vars
  <2> USE <1>1 DEF vars, leaseVars, scheduleVars, RunInv
  <2>1. LeaseTypeOK' /\ ScheduleTypeOK' /\ LocalTypes'
    BY DEF LeaseTypeOK, ScheduleTypeOK, LocalTypes
  <2>2. Leased' /\ Layered' /\ Current'
    BY DEF Leased, Layered, Current
  <2>3. Dispatched' /\ Threaded'
    BY DEF Dispatched, Threaded, InStage
  <2> QED
    BY <2>1, <2>2, <2>3
<1>2. CASE Tick \/ (\E e \in Editors : EditorStep(e)) \/ DeleteSchedule
  BY <1>2, CalmApi, RunCalm
<1>3. ASSUME NEW s \in Schedulers, SchedulerStep(s) PROVE RunInv'
  BY <1>3, CalmScheduler, RunCalm, RunClaim DEF SchedulerStep
<1>4. ASSUME NEW w \in Workers, HandlerStep(w) PROVE RunInv'
  BY <1>4, RunStartHandler, RunBeginDispatch, RunBeginCloses, RunStoreFails, RunThreadStep, RunFinish,
     RunReturn, RunFailAndFinalize DEF HandlerStep
<1> QED
  BY <1>1, <1>2, <1>3, <1>4, RunRecoverAndFinalize, RunClaimLost, RunCrash DEF ScheduleNext

LEMMA RunAlways == ScheduleSpec => []RunInv
<1> QED
  BY RunInit, RunStep, PTL DEF ScheduleSpec

\* Every variable of the module has its type.
THEOREM ScheduleTypesRight == ScheduleSpec => []ScheduleTypeOK
<1>1. RunInv => ScheduleTypeOK
  BY DEF RunInv
<1> QED
  BY <1>1, RunAlways, PTL

\* No target gets a command twice for one occurrence.
THEOREM CommandsOnce == ScheduleSpec => []CommandSentOnce
<1>1. RunInv => CommandSentOnce
  <2> SUFFICES ASSUME RunInv, NEW o \in DOMAIN commands PROVE commands[o] <= 1
    BY DEF CommandSentOnce
  <2>1. PICK j \in Jobs, t \in Targets : o = <<j, t>>
    BY DEF RunInv, ScheduleTypeOK
  <2>2. commands[o] \in {0, 1}
    BY <2>1 DEF RunInv, Layered
  <2> QED
    BY <2>2
<1> QED
  BY <1>1, RunAlways, PTL

\* The occurrence that keeps the next one from being claimed is in the queue.
THEOREM UnfinishedQueued == ScheduleSpec => []UnfinishedHasJob
<1>1. RunInv => UnfinishedHasJob
  BY Constants DEF RunInv, Current, UnfinishedHasJob
<1> QED
  BY <1>1, RunAlways, PTL

\* last_run_status tells the truth about the occurrence.
THEOREM StatusTruthful == ScheduleSpec => []RunStatusTruthful
<1>1. ASSUME RunInv PROVE RunStatusTruthful
  <2> USE <1>1 DEF RunInv
  <2> SUFFICES ASSUME NEW j, j = schedule.job, j # NoJob
               PROVE  /\ schedule.status = "succeeded" =>
                            \A t \in Targets : children[<<j, t>>] = "succeeded"
                      /\ schedule.status = "partial" =>
                            \E t \in Targets : children[<<j, t>>] = "succeeded"
                      /\ schedule.status \in {"not_executed", "blocked", "skipped"} =>
                            \A t \in Targets : commands[<<j, t>>] = 0
    BY DEF RunStatusTruthful
  <2>1. j \in Jobs
    BY DEF ScheduleTypeOK, Schedule
  <2> QED
    BY <2>1 DEF Current, Unstarted, Layered
<1> QED
  BY <1>1, RunAlways, PTL

\* Children are written by the threads of a run, or interrupted.
LEMMA ChildSteps ==
    ASSUME RunInv, ScheduleNext
    PROVE  \/ Surviving
           \/ \E w \in Workers, t \in Targets :
                 StartScheduledAction(w, t) \/ FinishScheduledAction(w, t)
<1> USE DEF RunInv
<1>1. children' = children => Surviving
  BY SameSurvive
<1>2. CASE Tick \/ (\E e \in Editors : EditorStep(e)) \/ DeleteSchedule
  BY <1>1, <1>2, CalmApi DEF handlerVars
<1>3. ASSUME NEW s \in Schedulers, SchedulerStep(s) PROVE Surviving
  BY <1>1, <1>3 DEF SchedulerStep, Scan, MarkInvalid, InitializeNextRun, ClaimOccurrence, ClaimMisses,
                    EndScan
<1>4. ASSUME NEW w \in Workers, HandlerStep(w)
      PROVE  \/ Surviving
             \/ \E t \in Targets : StartScheduledAction(w, t) \/ FinishScheduledAction(w, t)
  <2>1. CASE StartHandler(w) \/ BeginDispatch(w) \/ StoreFails(w) \/ Return(w)
    BY <1>1, <2>1 DEF StartHandler, BeginDispatch, StoreFails, Return
  <2>2. CASE BeginCloses(w)
    BY <1>1, <2>2, ClosedSurvive DEF BeginCloses, CloseSuperseded, WriteResult, LeaveRecords
  <2>3. CASE Finish(w)
    BY <1>1, <2>3, ClosedSurvive DEF Finish, CloseSuperseded, WriteResult
  <2>4. CASE \E t \in Targets : ThreadStep(w, t)
    BY <1>1, <2>4 DEF ThreadStep, SkipTarget, SendCommand, ReportFails
  <2>5. CASE FailAndFinalize(w)
    BY <2>5, ClosedSurvive DEF FailAndFinalize, FinalizeDead
  <2> QED
    BY <1>4, <2>1, <2>2, <2>3, <2>4, <2>5 DEF HandlerStep
<1>5. CASE RecoverAndFinalize
  BY <1>5, ClosedSurvive DEF RecoverAndFinalize, FinalizeDead
<1>6. CASE ClaimLost \/ HubCrash
  BY <1>1, <1>6 DEF ClaimLost, HubCrash, scheduleVars
<1> QED
  BY <1>2, <1>3, <1>4, <1>5, <1>6 DEF ScheduleNext

\* The recorded outcome of a child action run is not rewritten.
THEOREM ChildOutcomesFinal == ScheduleSpec => ChildOutcomeFinal
<1>1. ASSUME RunInv, [ScheduleNext]_vars
      PROVE  \A o \in DOMAIN children :
                 children[o] \notin {"absent", "running"} => children'[o] = children[o]
  <2> SUFFICES ASSUME NEW o \in DOMAIN children, children[o] \notin {"absent", "running"}
               PROVE  children'[o] = children[o]
    OBVIOUS
  <2>0. children \in [Jobs \X Targets -> ChildStatus]
    BY <1>1 DEF RunInv, ScheduleTypeOK, ChildStatus
  <2>1. PICK j \in Jobs, t \in Targets : o = <<j, t>>
    BY <2>0
  <2>2. CASE UNCHANGED vars
    BY <2>2 DEF vars, scheduleVars
  <2>3. CASE Surviving
    BY <2>1, <2>3 DEF Surviving
  <2>4. ASSUME NEW w \in Workers, NEW u \in Targets, StartScheduledAction(w, u)
        PROVE  children'[o] = children[o]
    BY <2>0, <2>4 DEF StartScheduledAction
  <2>5. ASSUME NEW w \in Workers, NEW u \in Targets, FinishScheduledAction(w, u)
        PROVE  children'[o] = children[o]
    BY <2>0, <2>5 DEF FinishScheduledAction
  <2> QED
    BY <1>1, <2>2, <2>3, <2>4, <2>5, ChildSteps
<1> QED
  BY <1>1, RunAlways, PTL DEF ScheduleSpec, ChildOutcomeFinal

\* No child action run is started for a schedule that is paused or gone.
THEOREM StartsEnabled == ScheduleSpec => NoStartWhilePaused
<1>1. ASSUME RunInv, [ScheduleNext]_vars
      PROVE  \A o \in DOMAIN children :
                 children[o] = "absent" /\ children'[o] = "running" =>
                     schedule.exists /\ schedule.enabled
  <2> SUFFICES ASSUME NEW o \in DOMAIN children, children[o] = "absent", children'[o] = "running"
               PROVE  schedule.exists /\ schedule.enabled
    OBVIOUS
  <2>0. children \in [Jobs \X Targets -> ChildStatus]
    BY <1>1 DEF RunInv, ScheduleTypeOK, ChildStatus
  <2>1. PICK j \in Jobs, t \in Targets : o = <<j, t>>
    BY <2>0
  <2>2. ~UNCHANGED vars
    BY DEF vars, scheduleVars
  <2>3. ~Surviving
    BY <2>1 DEF Surviving
  <2>4. ASSUME NEW w \in Workers, NEW u \in Targets, StartScheduledAction(w, u)
        PROVE  schedule.exists /\ schedule.enabled
    <3>1. OwnerStatus(busy[w]) = "running"
      BY <2>4 DEF StartScheduledAction, Job
    <3>2. schedule.exists /\ schedule.status = "running"
      BY <3>1, OwnerStatusAt DEF Superseded
    <3> QED
      BY <1>1, <3>2 DEF RunInv, Current
  <2>5. ASSUME NEW w \in Workers, NEW u \in Targets, FinishScheduledAction(w, u)
        PROVE  schedule.exists /\ schedule.enabled
    BY <2>0, <2>5 DEF FinishScheduledAction, ChildResults
  <2> QED
    BY <1>1, <2>2, <2>3, <2>4, <2>5, ChildSteps
<1> QED
  BY <1>1, RunAlways, PTL DEF ScheduleSpec, NoStartWhilePaused

-----------------------------------------------------------------------------
(* The queue as its users see it.                                          *)

\* The steps of JobLease other than Submit.
ClaimsOnly ==
    \/ \E j \in Jobs : GrantLost(j)
    \/ \E w \in Workers :
          \/ \E j \in Jobs : Grant(w, j)
          \/ Close(w)
          \/ \E outcome \in {"waiting", "closed"} : GiveBack(w, outcome)
          \/ Leave(w)
    \/ \E S \in SUBSET Jobs : \E dead \in SUBSET S : TakeAway(S, dead)
    \/ StopAll

LEMMA SchedulerLeases ==
    ASSUME RunInv, NEW s \in Schedulers, SchedulerStep(s)
    PROVE  [LeaseNext]_leaseVars
<1>1. CASE ClaimOccurrence(s)
  <2>1. scans[s].due \in 0..Horizon /\ scans[s].due # 0
    BY <1>1 DEF ClaimOccurrence, DueScan, Never, RunInv, LocalTypes
  <2>2. PICK j \in Jobs : j = scans[s].due
    BY <2>1, Constants
  <2>3. Submit(j)
    BY <1>1, <2>2 DEF ClaimOccurrence
  <2> QED
    BY <2>3 DEF LeaseNext
<1>2. CASE UNCHANGED leaseVars
  BY <1>2
<1> QED
  BY <1>1, <1>2 DEF SchedulerStep, Scan, MarkInvalid, InitializeNextRun, ClaimMisses

LEMMA HandlerLeases ==
    ASSUME NEW w \in Workers, HandlerStep(w)
    PROVE  [ClaimsOnly]_leaseVars
<1>1. CASE StartHandler(w)
  <2>1. \E j \in Jobs : Grant(w, j)
    BY <1>1 DEF StartHandler
  <2> QED
    BY <2>1 DEF ClaimsOnly
<1>2. CASE BeginCloses(w) \/ Finish(w)
  <2>1. Close(w)
    BY <1>2 DEF BeginCloses, Finish, CloseClaim
  <2> QED
    BY <2>1 DEF ClaimsOnly
<1>3. CASE Return(w)
  <2>1. Leave(w)
    BY <1>3 DEF Return
  <2> QED
    BY <2>1 DEF ClaimsOnly
<1>4. CASE FailAndFinalize(w)
  <2>1. PICK dead : GiveBack(w, IF dead = {} THEN "waiting" ELSE "closed")
    BY <1>4 DEF FailAndFinalize
  <2>2. \E outcome \in {"waiting", "closed"} : GiveBack(w, outcome)
    BY <2>1
  <2> QED
    BY <2>2 DEF ClaimsOnly
<1>5. CASE UNCHANGED leaseVars
  BY <1>5
<1> QED
  BY <1>1, <1>2, <1>3, <1>4, <1>5 DEF HandlerStep, BeginDispatch, StoreFails, ThreadStep, SkipTarget,
     StartScheduledAction, SendCommand, FinishScheduledAction, ReportFails

\* Recovery, a lost reply of Claim and a crash.
LEMMA QueueLeases ==
    ASSUME RecoverAndFinalize \/ ClaimLost \/ HubCrash
    PROVE  ClaimsOnly
<1>1. CASE RecoverAndFinalize
  <2>1. \E S \in SUBSET Jobs : \E dead \in SUBSET S : TakeAway(S, dead)
    BY <1>1 DEF RecoverAndFinalize
  <2> QED
    BY <2>1 DEF ClaimsOnly
<1>2. CASE ClaimLost
  BY <1>2 DEF ClaimLost, ClaimsOnly
<1>3. CASE HubCrash
  BY <1>3 DEF HubCrash, ClaimsOnly
<1> QED
  BY <1>1, <1>2, <1>3

LEMMA StepLeases == RunInv /\ [ScheduleNext]_vars => [LeaseNext]_leaseVars
<1> SUFFICES ASSUME RunInv, [ScheduleNext]_vars PROVE [LeaseNext]_leaseVars
  OBVIOUS
<1>1. CASE UNCHANGED leaseVars
  BY <1>1
<1>2. CASE UNCHANGED vars
  BY <1>2 DEF vars, leaseVars
<1>3. CASE Tick \/ (\E e \in Editors : EditorStep(e)) \/ DeleteSchedule
  BY <1>1, <1>3 DEF Tick, EditorStep, EditRead, EditWrite, DeleteSchedule
<1>4. ClaimsOnly => LeaseNext
  BY DEF ClaimsOnly, LeaseNext
<1>5. CASE \E w \in Workers : HandlerStep(w)
  BY <1>4, <1>5, HandlerLeases
<1>6. CASE RecoverAndFinalize \/ ClaimLost \/ HubCrash
  BY <1>4, <1>6, QueueLeases
<1> QED
  BY <1>2, <1>3, <1>5, <1>6, SchedulerLeases DEF ScheduleNext

\* The scheduler, the handlers of scheduled runs, the dead-letter finalizer and a
\* crash use the queue only as JobLease allows, which is what JobQueue
\* implements: every step that touches a claim is one of the queue's own steps.
THEOREM UsesLease == ScheduleSpec => LeaseSpec
<1>1. ScheduleInit => LeaseInit
  BY DEF ScheduleInit
<1> QED
  BY <1>1, StepLeases, RunAlways, PTL DEF ScheduleSpec, LeaseSpec

\* The holder of a claim is the only one, works on that job, and the job is held.
SoleHolder ==
    \A j \in Jobs : \A w \in holders[j] :
        /\ jobs[j] = "held" /\ busy[w] = j
        /\ \A v \in holders[j] : v = w

\* A job that is closed stays closed.
ClosedStays == \A j \in Jobs : jobs[j] = "closed" => jobs'[j] = "closed"

LEMMA LeaseStep ==
    ASSUME LeaseTypeOK, SoleHolder, [LeaseNext]_leaseVars
    PROVE  LeaseTypeOK' /\ SoleHolder' /\ ClosedStays
<1> USE NoJobAssumption DEF LeaseTypeOK
<1>1. ASSUME NEW j \in Jobs, Submit(j) \/ GrantLost(j)
      PROVE  LeaseTypeOK' /\ SoleHolder' /\ ClosedStays
  BY <1>1 DEF Submit, GrantLost, SoleHolder, ClosedStays
<1>2. ASSUME NEW w \in Workers, NEW j \in Jobs, Grant(w, j)
      PROVE  LeaseTypeOK' /\ SoleHolder' /\ ClosedStays
  <2>1. \A i \in Jobs : w \notin holders[i]
    BY <1>2 DEF Grant, SoleHolder
  <2> QED
    BY <1>2, <2>1 DEF Grant, SoleHolder, ClosedStays
<1>3. ASSUME NEW w \in Workers, Close(w) \/ \E outcome \in {"waiting", "closed"} : GiveBack(w, outcome)
      PROVE  LeaseTypeOK' /\ SoleHolder' /\ ClosedStays
  <2>1. PICK j \in Jobs : j = busy[w] /\ w \in holders[j]
    BY <1>3 DEF Close, GiveBack, Holds
  <2>2. PICK outcome \in {"waiting", "closed"} : jobs' = [jobs EXCEPT ![j] = outcome]
    BY <1>3, <2>1 DEF Close, GiveBack
  <2>3. /\ holders' = [holders EXCEPT ![j] = {}]
        /\ busy' = busy \/ busy' = [busy EXCEPT ![w] = NoJob]
    BY <1>3, <2>1 DEF Close, GiveBack
  <2>4. jobs[j] = "held" /\ \A i \in Jobs : w \in holders[i] => i = j
    BY <2>1 DEF SoleHolder
  <2> QED
    BY <2>2, <2>3, <2>4 DEF SoleHolder, ClosedStays
<1>4. ASSUME NEW w \in Workers, Leave(w)
      PROVE  LeaseTypeOK' /\ SoleHolder' /\ ClosedStays
  BY <1>4 DEF Leave, SoleHolder, ClosedStays
<1>5. ASSUME NEW S \in SUBSET Jobs, NEW dead \in SUBSET S, TakeAway(S, dead)
      PROVE  LeaseTypeOK' /\ SoleHolder' /\ ClosedStays
  <2>1. /\ holders' = [j \in Jobs |-> IF j \in S THEN {} ELSE holders[j]]
        /\ busy' = busy /\ \A j \in S : jobs[j] = "held"
    BY <1>5 DEF TakeAway
  <2>2. /\ jobs' \in [Jobs -> {"absent", "waiting", "held", "closed"}]
        /\ \A j \in Jobs : j \notin S => jobs'[j] = jobs[j]
    BY <1>5 DEF TakeAway
  <2> QED
    BY <2>1, <2>2 DEF SoleHolder, ClosedStays
<1>6. CASE StopAll
  BY <1>6 DEF StopAll, SoleHolder, ClosedStays
<1>7. CASE UNCHANGED leaseVars
  BY <1>7 DEF leaseVars, SoleHolder, ClosedStays
<1> QED
  BY <1>1, <1>2, <1>3, <1>4, <1>5, <1>6, <1>7 DEF LeaseNext

LEMMA LeaseHolds == LeaseSpec => [](LeaseTypeOK /\ SoleHolder)
<1>1. LeaseInit => LeaseTypeOK /\ SoleHolder
  BY DEF LeaseInit, LeaseTypeOK, SoleHolder
<1>2. LeaseTypeOK /\ SoleHolder /\ [LeaseNext]_leaseVars => LeaseTypeOK' /\ SoleHolder'
  BY LeaseStep
<1> QED
  BY <1>1, <1>2, PTL DEF LeaseSpec

\* What the queue promises, for every client of it and so for the schedule
\* handlers: two workers never hold the claim of one job, whoever holds it is at
\* work on it, and a job that was completed or dead-lettered is never delivered
\* again, although recovery may take a claim from a worker that does not notice.
THEOREM LeaseExclusive ==
    /\ LeaseSpec => []SoleHolder /\ [][ClosedStays]_leaseVars
    /\ ScheduleSpec => []SoleHolder /\ [][ClosedStays]_leaseVars
<1>1. LeaseTypeOK /\ SoleHolder /\ [LeaseNext]_leaseVars => [ClosedStays]_leaseVars
  BY LeaseStep
<1> QED
  BY <1>1, LeaseHolds, UsesLease, PTL DEF LeaseSpec

-----------------------------------------------------------------------------
(* What needs the scheduler loop to be the only one.                       *)

LEMMA SnapshotsKept ==
    ASSUME Snapshots, \A s \in Schedulers : scans'[s].active => scans'[s] = scans[s],
           schedule'.exists => schedule.exists,
           schedule'.exists /\ schedule.cronValid => schedule'.cronValid,
           schedule'.status \in Unfinished => schedule.status \in Unfinished /\ schedule'.exists
    PROVE  Snapshots'
BY DEF Snapshots

LEMMA AccountedKept ==
    ASSUME Accounted,
           \A j \in Jobs, t \in Targets : children'[<<j, t>>] = "running" =>
              /\ children[<<j, t>>] = "running"
              /\ jobs'[j] = "closed" => jobs[j] = "closed"
              /\ schedule'.job = j =>
                    schedule.job = j /\ (schedule.status = "running" => schedule'.status = "running")
    PROVE  Accounted'
BY DEF Accounted

\* The status of the schedule row changes, to a value that is not queued.
StatusOnly ==
    \/ schedule' = schedule
    \/ /\ schedule.exists
       /\ \E r \in RunStatus : /\ schedule' = [schedule EXCEPT !.status = r]
                               /\ r \in Unfinished => schedule.status \in Unfinished

LEMMA SnapshotsStatus ==
    ASSUME RunInv, Snapshots, StatusOnly, scans' = scans
    PROVE  Snapshots'
<1>1. schedule \in Schedule /\ (schedule.status \in Unfinished => schedule.exists)
  BY DEF RunInv, ScheduleTypeOK, Current, Unfinished
<1>2. /\ schedule'.exists = schedule.exists /\ schedule'.cronValid = schedule.cronValid
      /\ schedule'.status \in Unfinished => schedule.status \in Unfinished
  BY <1>1 DEF StatusOnly, Schedule
<1> QED
  BY <1>1, <1>2, SnapshotsKept

LEMMA CloseInit == ScheduleInit => CloseInv
<1> SUFFICES ASSUME ScheduleInit PROVE CloseInv
  OBVIOUS
<1>1. schedule.status = "" /\ RunInv
  <2>1. CASE schedule \in [exists : {TRUE}, enabled : BOOLEAN, cronValid : BOOLEAN,
                           next : {Never}, status : {""}, job : {NoJob}]
    BY <2>1, RunInit
  <2>2. CASE schedule \in [exists : {TRUE}, enabled : {TRUE}, cronValid : {TRUE},
                           next : {NextRun(0)}, status : {""}, job : {NoJob}]
    BY <2>2, RunInit
  <2> QED
    BY <2>1, <2>2 DEF ScheduleInit
<1>2. /\ scans = [s \in Schedulers |-> NoScan]
      /\ children = [o \in Jobs \X Targets |-> "absent"]
  BY Zenon DEF ScheduleInit
<1> QED
  BY <1>1, <1>2 DEF CloseInv, Snapshots, Accounted, NoScan, Unfinished

\* A pass of the only scheduler loop.
LEMMA CloseScheduler ==
    ASSUME OneScheduler, RunInv, CloseInv, NEW s \in Schedulers, SchedulerStep(s)
    PROVE  CloseInv'
<1> USE DEF RunInv, CloseInv
<1>s. schedule \in Schedule /\ \A r \in Schedulers : r = s
  BY DEF OneScheduler, ScheduleTypeOK
<1>e. EndScan(s) => children' = children /\ ~scans'[s].active
  BY DEF EndScan, NoScan, LocalTypes
<1>k. ASSUME children' = children, jobs' = jobs, schedule'.job = schedule.job,
             schedule.status = "running" => schedule'.status = "running"
      PROVE  Accounted'
  BY <1>k, AccountedKept
<1>1. CASE Scan(s)
  <2>1. /\ scans'[s].cronValid = schedule.cronValid /\ schedule' = schedule
        /\ children' = children /\ jobs' = jobs
    BY <1>1 DEF Scan, leaseVars, LocalTypes
  <2>2. Snapshots'
    BY <1>s, <2>1 DEF Snapshots
  <2> QED
    BY <1>k, <2>1, <2>2
<1>2. CASE MarkInvalid(s)
  <2>1. schedule.status \notin Unfinished
    BY <1>2 DEF MarkInvalid, Snapshots
  <2>2. /\ jobs' = jobs /\ children' = children /\ ~scans'[s].active
        /\ \/ schedule' = schedule
           \/ schedule' = [schedule EXCEPT !.enabled = FALSE, !.next = Never, !.status = "invalid"]
    BY <1>2, <1>e DEF MarkInvalid, leaseVars
  <2>3. /\ schedule'.job = schedule.job /\ schedule'.status \in {schedule.status, "invalid"}
    BY <1>s, <2>2 DEF Schedule
  <2>4. Accounted'
    BY <1>k, <2>1, <2>2, <2>3 DEF Unfinished
  <2>5. Snapshots'
    BY <1>s, <2>1, <2>2, <2>3 DEF Snapshots, Unfinished
  <2> QED
    BY <2>4, <2>5
<1>3. CASE InitializeNextRun(s)
  <2>1. /\ jobs' = jobs /\ children' = children /\ ~scans'[s].active
        /\ \/ schedule' = schedule
           \/ schedule' = [schedule EXCEPT !.next = NextRun(scans[s].at)]
    BY <1>3, <1>e DEF InitializeNextRun, leaseVars
  <2>2. /\ schedule'.job = schedule.job /\ schedule'.status = schedule.status
        /\ schedule'.cronValid = schedule.cronValid
    BY <1>s, <2>1 DEF Schedule
  <2>3. Snapshots'
    BY <1>s, <2>1, <2>2 DEF Snapshots
  <2> QED
    BY <1>k, <2>1, <2>2, <2>3
<1>4. CASE ClaimOccurrence(s)
  <2> DEFINE j == scans[s].due
  <2>1. /\ schedule.exists /\ jobs[j] = "absent" /\ j \in Jobs
        /\ schedule' = [schedule EXCEPT !.next = NextRun(scans[s].at), !.status = "queued", !.job = j]
        /\ jobs' = [jobs EXCEPT ![j] = "waiting"] /\ children' = children /\ ~scans'[s].active
        /\ scans[s].active /\ scans[s].cronValid
    BY <1>4, <1>e, Constants DEF ClaimOccurrence, Claimable, Submit, DueScan, LocalTypes, Never
  <2>2. schedule'.job = j /\ schedule'.cronValid = schedule.cronValid
    BY <1>s, <2>1 DEF Schedule
  <2>3. \A t \in Targets : children[<<j, t>>] = "absent"
    BY <2>1 DEF Layered
  <2>4. \A k \in Jobs : jobs'[k] = "closed" => jobs[k] = "closed"
    BY <2>1 DEF LeaseTypeOK
  <2>5. Accounted'
    BY <2>1, <2>2, <2>3, <2>4, AccountedKept
  <2>6. Snapshots'
    BY <1>s, <2>1, <2>2 DEF Snapshots
  <2> QED
    BY <2>5, <2>6
<1>5. CASE ClaimMisses(s)
  <2>1. jobs' = jobs /\ schedule' = schedule /\ children' = children /\ ~scans'[s].active
    BY <1>5, <1>e DEF ClaimMisses, leaseVars
  <2>2. Snapshots'
    BY <1>s, <2>1 DEF Snapshots
  <2> QED
    BY <1>k, <2>1, <2>2
<1> QED
  BY <1>1, <1>2, <1>3, <1>4, <1>5 DEF SchedulerStep

LEMMA CloseApi ==
    ASSUME RunInv, CloseInv,
           \/ \E e \in Editors : EditorStep(e)
           \/ DeleteSchedule \/ Tick
    PROVE  CloseInv'
<1> USE DEF RunInv, CloseInv
<1>s. schedule \in Schedule /\ (schedule.status \in Unfinished => schedule.exists)
  BY DEF ScheduleTypeOK, Current, Unfinished
<1>0. children' = children /\ jobs' = jobs
  <2> HIDE DEF RunInv
  <2> QED
    BY CalmApi DEF handlerVars, leaseVars
<1>1. scans' = scans
  BY DEF EditorStep, EditRead, EditWrite, DeleteSchedule, Tick
<1>2. CASE schedule' = schedule
  BY <1>0, <1>1, <1>2, <1>s, SnapshotsKept, AccountedKept
<1>3. CASE DeleteSchedule
  <2>1. ~schedule'.exists /\ schedule'.status = "" /\ schedule'.job = NoJob
    BY <1>3 DEF DeleteSchedule
  <2>2. Accounted'
    BY <1>0, <2>1, Constants, AccountedKept
  <2>3. Snapshots'
    BY <1>1, <2>1, SnapshotsKept DEF Unfinished
  <2> QED
    BY <2>2, <2>3
<1>4. ASSUME NEW e \in Editors, schedule' = UpdatedSchedule(edits[e])
      PROVE  CloseInv'
  <2>1. /\ schedule'.exists = schedule.exists
        /\ schedule.cronValid => schedule'.cronValid
        /\ \/ schedule'.status = schedule.status /\ schedule'.job = schedule.job
           \/ schedule'.status = "cancelled" /\ schedule'.job = NoJob
    BY <1>4, <1>s DEF UpdatedSchedule, Schedule
  <2>2. Accounted'
    BY <1>0, <2>1, Constants, AccountedKept
  <2>3. Snapshots'
    BY <1>1, <1>s, <2>1, SnapshotsKept DEF Unfinished
  <2> QED
    BY <2>2, <2>3
<1> QED
  BY <1>2, <1>3, <1>4 DEF EditorStep, EditRead, EditWrite, Tick

\* The jobs that a step closes leave no child running.
LEMMA CloseHandler ==
    ASSUME RunInv, CloseInv, StatusOnly, scans' = scans, Surviving,
           \A j \in Jobs, t \in Targets : children'[<<j, t>>] = "running" =>
              /\ jobs'[j] = "closed" => jobs[j] = "closed"
              /\ schedule.job = j /\ schedule.status = "running" => schedule'.status = "running"
    PROVE  CloseInv'
<1> USE DEF RunInv, CloseInv
<1>1. schedule'.job = schedule.job
  BY DEF StatusOnly, ScheduleTypeOK, Schedule
<1>2. Accounted'
  <2>1. \A j \in Jobs, t \in Targets :
           children'[<<j, t>>] = "running" => children[<<j, t>>] = "running"
    BY DEF Surviving
  <2> QED
    BY <1>1, <2>1, AccountedKept
<1>3. Snapshots'
  BY SnapshotsStatus
<1> QED
  BY <1>2, <1>3

LEMMA ClosedNotRunning ==
    ASSUME ScheduleTypeOK, NEW S, children' = ClosedChildren(S), NEW j \in Jobs, j \in S,
           NEW t \in Targets
    PROVE  children'[<<j, t>>] # "running"
<1>1. children \in [Jobs \X Targets -> ChildStatus]
  BY DEF ScheduleTypeOK, ChildStatus
<1> QED
  BY <1>1, ClosedFacts

\* BeginJobExecution and FinishJobExecution complete the claim.
LEMMA CloseCloses ==
    ASSUME RunInv, CloseInv, NEW w \in Workers, CloseClaim(w), scans' = scans, edits' = edits,
           \/ CloseSuperseded(busy[w])
           \/ /\ schedule.exists /\ schedule.job = busy[w]
              /\ \E r \in RunStatus \ Unfinished : WriteResult(busy[w], r)
           \/ /\ LeaveRecords
              /\ schedule.job = busy[w] /\ schedule.status \notin Unfinished
    PROVE  CloseInv'
<1> DEFINE j == busy[w]
<1>1. j \in Jobs /\ jobs' = [jobs EXCEPT ![j] = "closed"]
  BY CloseEffect
<1>2. \A k \in Jobs \ {j} : jobs'[k] = "closed" => jobs[k] = "closed"
  BY <1>1 DEF RunInv, LeaseTypeOK
<1>3. CASE CloseSuperseded(j)
  <2>1. Surviving /\ StatusOnly /\ schedule' = schedule
    BY <1>3, ClosedSurvive DEF CloseSuperseded, RunInv, StatusOnly
  <2>2. \A t \in Targets : children'[<<j, t>>] # "running"
    BY <1>1, <1>3, ClosedNotRunning DEF CloseSuperseded, RunInv
  <2> QED
    BY <1>2, <2>1, <2>2, CloseHandler
<1>4. ASSUME schedule.exists, schedule.job = j, NEW r \in RunStatus \ Unfinished, WriteResult(j, r)
      PROVE  CloseInv'
  <2>1. Surviving /\ StatusOnly
    BY <1>4, ClosedSurvive DEF WriteResult, RunInv, StatusOnly
  <2>2. \A t \in Targets : children'[<<j, t>>] # "running"
    BY <1>1, <1>4, ClosedNotRunning DEF WriteResult, RunInv
  <2> QED
    BY <1>2, <1>4, <2>1, <2>2, CloseHandler
<1>5. CASE LeaveRecords /\ schedule.job = j /\ schedule.status \notin Unfinished
  <2>1. Surviving /\ StatusOnly /\ schedule' = schedule /\ children' = children
    BY <1>5, SameSurvive DEF LeaveRecords, RunInv, StatusOnly
  <2>2. \A t \in Targets : children'[<<j, t>>] # "running"
    BY <1>1, <1>5, <2>1 DEF CloseInv, Accounted, Unfinished
  <2> QED
    BY <1>2, <2>1, <2>2, CloseHandler
<1> QED
  BY <1>3, <1>4, <1>5

LEMMA CloseBeginCloses ==
    ASSUME RunInv, CloseInv, NEW w \in Workers, BeginCloses(w)
    PROVE  CloseInv'
<1> DEFINE j == busy[w]
<1>1. CloseClaim(w) /\ scans' = scans /\ edits' = edits
  BY DEF BeginCloses
<1>2. schedule.status \in RunStatus /\ j \in Jobs
  BY <1>1, CloseEffect DEF RunInv, ScheduleTypeOK, Schedule
<1>3. OwnerStatus(j) # "superseded" => schedule.exists /\ schedule.job = j
  BY OwnerStatusAt DEF Superseded
<1>4. /\ "interrupted" \in RunStatus \ Unfinished /\ "skipped" \in RunStatus \ Unfinished
  BY DEF RunStatus, Unfinished
<1>5. OwnerStatus(j) \notin {"superseded", "running", "disabled", "queued"} =>
         schedule.status \notin Unfinished
  BY OwnerStatusAt DEF Unfinished
<1>6. \/ CloseSuperseded(j)
      \/ /\ OwnerStatus(j) # "superseded"
         /\ WriteResult(j, "interrupted") \/ WriteResult(j, "skipped")
      \/ OwnerStatus(j) \notin {"superseded", "running", "disabled", "queued"} /\ LeaveRecords
  BY DEF BeginCloses, Job
<1> QED
  BY <1>1, <1>3, <1>4, <1>5, <1>6, CloseCloses

LEMMA CloseFinish ==
    ASSUME RunInv, CloseInv, NEW w \in Workers, Finish(w)
    PROVE  CloseInv'
<1> DEFINE j == busy[w]
<1>1. CloseClaim(w) /\ scans' = scans /\ edits' = edits
  BY DEF Finish
<1>2. CASE CloseSuperseded(j)
  BY <1>1, <1>2, CloseCloses
<1>3. ASSUME OwnerStatus(j) = "running", NEW r \in Outcomes(w), WriteResult(j, r)
      PROVE  CloseInv'
  <2>1. schedule.exists /\ schedule.job = j
    BY <1>3, OwnerStatusAt DEF Superseded
  <2>2. r = "failed" \/ r = Aggregate({threads[w][t] : t \in Targets})
    BY DEF Outcomes
  <2>3. "failed" \in RunStatus \ Unfinished
    BY DEF RunStatus, RunResults, Unfinished
  <2>4. r \in RunStatus \ Unfinished
    BY <2>2, <2>3, AggregateFacts
  <2> QED
    BY <1>1, <1>3, <2>1, <2>4, CloseCloses
<1> QED
  BY <1>2, <1>3 DEF Finish, Job

\* FinalizeDeadJobInTransaction leaves no child of a dead job running.
LEMMA CloseDead ==
    ASSUME RunInv, CloseInv, NEW dead \in SUBSET Jobs, FinalizeDead(dead), scans' = scans,
           \A j \in Jobs \ dead : jobs'[j] = "closed" => jobs[j] = "closed"
    PROVE  CloseInv'
<1>1. Surviving /\ StatusOnly
  <2>1. \A r \in {"skipped", "not_executed", "interrupted"} : r \in RunStatus /\ r \notin Unfinished
    BY DEF RunStatus, Unfinished
  <2> QED
    BY <2>1, DeadFacts DEF StatusOnly
<1>2. schedule.job \notin dead => schedule' = schedule
  BY DeadFacts
<1>3. ASSUME NEW j \in dead, NEW t \in Targets PROVE children'[<<j, t>>] # "running"
  <2> DEFINE open == {k \in dead : OwnerStatus(k) \in {"superseded", "disabled", "running", "queued"}}
  <2>0. children' = ClosedChildren(open)
    BY DEF FinalizeDead
  <2>1. CASE j \in open
    BY <2>0, <2>1, ClosedNotRunning DEF RunInv
  <2>2. CASE j \notin open
    <3>1. schedule.job = j /\ schedule.status # "running"
      BY <2>2, OwnerStatusAt DEF Superseded
    <3> QED
      BY <1>1, <3>1 DEF Surviving, CloseInv, Accounted
  <2> QED
    BY <2>1, <2>2
<1> QED
  BY <1>1, <1>2, <1>3, CloseHandler

LEMMA CloseThread ==
    ASSUME RunInv, CloseInv, NEW w \in Workers, NEW t \in Targets, ThreadStep(w, t)
    PROVE  CloseInv'
<1> USE DEF RunInv, CloseInv
<1> DEFINE j == busy[w]
<1>1. UNCHANGED <<leaseVars, schedule, scans>> /\ InStage(w, "run")
  BY DEF ThreadStep, SkipTarget, StartScheduledAction, SendCommand, FinishScheduledAction,
         ReportFails, ThreadAt
<1>2. Snapshots'
  BY <1>1 DEF Snapshots
<1>3. children \in [Jobs \X Targets -> ChildStatus] /\ j \in Jobs
  BY <1>1 DEF ScheduleTypeOK, ChildStatus, Leased, InStage
<1>4. CASE children' = children
  BY <1>1, <1>2, <1>4 DEF Accounted, leaseVars
<1>5. CASE StartScheduledAction(w, t)
  <2>1. /\ w \in holders[j] /\ OwnerStatus(j) = "running"
        /\ children' = [children EXCEPT ![<<j, t>>] = "running"]
    BY <1>5 DEF StartScheduledAction, Holds, Job
  <2>2. jobs[j] # "closed" /\ schedule.status = "running"
    BY <1>3, <2>1, OwnerStatusAt DEF Leased
  <2>3. \A k \in Jobs, u \in Targets : k # j \/ u # t => children'[<<k, u>>] = children[<<k, u>>]
    BY <1>3, <2>1
  <2>4. Accounted'
    BY <1>1, <2>2, <2>3 DEF Accounted, leaseVars
  <2> QED
    BY <1>2, <2>4
<1>6. CASE FinishScheduledAction(w, t)
  <2>1. PICK result \in ChildResults : children' = [children EXCEPT ![<<j, t>>] = result]
    BY <1>6 DEF FinishScheduledAction, Job
  <2>2. \A k \in Jobs, u \in Targets :
           children'[<<k, u>>] = "running" => children[<<k, u>>] = "running"
    BY <1>3, <2>1 DEF ChildResults
  <2>3. Accounted'
    BY <1>1, <2>2 DEF Accounted, leaseVars
  <2> QED
    BY <1>2, <2>3
<1> QED
  BY <1>4, <1>5, <1>6 DEF ThreadStep, SkipTarget, SendCommand, ReportFails

LEMMA CloseStep == OneScheduler /\ RunInv /\ CloseInv /\ [ScheduleNext]_vars => CloseInv'
<1> SUFFICES ASSUME OneScheduler, RunInv, CloseInv, [ScheduleNext]_vars PROVE CloseInv'
  OBVIOUS
<1>0. children' = children => Surviving
  BY SameSurvive DEF RunInv
<1>1. CASE UNCHANGED vars
  BY <1>1 DEF vars, leaseVars, scheduleVars, CloseInv, Snapshots, Accounted
<1>2. CASE Tick \/ (\E e \in Editors : EditorStep(e)) \/ DeleteSchedule
  BY <1>2, CloseApi
<1>3. ASSUME NEW s \in Schedulers, SchedulerStep(s) PROVE CloseInv'
  BY <1>3, CloseScheduler
<1>k. ASSUME schedule' = schedule, children' = children, scans' = scans,
             \A j \in Jobs : jobs'[j] = "closed" => jobs[j] = "closed"
      PROVE  CloseInv'
  BY <1>0, <1>k, CloseHandler DEF StatusOnly
<1>4. ASSUME NEW w \in Workers, HandlerStep(w) PROVE CloseInv'
  <2>1. CASE StartHandler(w)
    <3>1. schedule' = schedule /\ children' = children /\ scans' = scans
          /\ \E j \in Jobs : jobs' = [jobs EXCEPT ![j] = "held"]
      BY <2>1 DEF StartHandler, Grant
    <3>2. \A j \in Jobs : jobs'[j] = "closed" => jobs[j] = "closed"
      BY <3>1 DEF RunInv, LeaseTypeOK
    <3> QED
      BY <1>k, <3>1, <3>2
  <2>2. CASE BeginDispatch(w)
    <3>1. /\ OwnerStatus(busy[w]) = "queued" /\ schedule' = [schedule EXCEPT !.status = "running"]
          /\ scans' = scans /\ children' = children /\ jobs' = jobs
      BY <2>2 DEF BeginDispatch, Job, leaseVars
    <3>2. schedule.exists /\ schedule.status = "queued"
      BY <3>1, OwnerStatusAt DEF Superseded
    <3>3. schedule'.status = "running" /\ StatusOnly
      BY <3>1, <3>2 DEF StatusOnly, RunInv, ScheduleTypeOK, Schedule, RunStatus, Unfinished
    <3> QED
      BY <1>0, <3>1, <3>3, CloseHandler
  <2>3. CASE StoreFails(w) \/ Return(w)
    BY <1>k, <2>3 DEF StoreFails, Return, Leave, leaseVars
  <2>4. CASE FailAndFinalize(w)
    <3>1. PICK dead \in SUBSET {busy[w]} :
             GiveBack(w, IF dead = {} THEN "waiting" ELSE "closed") /\ FinalizeDead(dead)
      BY <2>4 DEF FailAndFinalize, Job
    <3>2. /\ busy[w] \in Jobs /\ scans' = scans
          /\ jobs' = [jobs EXCEPT ![busy[w]] = IF dead = {} THEN "waiting" ELSE "closed"]
      BY <2>4, <3>1 DEF FailAndFinalize, GiveBack, Holds
    <3>3. dead \in SUBSET Jobs /\ \A j \in Jobs \ dead : jobs'[j] = "closed" => jobs[j] = "closed"
      BY <3>2 DEF RunInv, LeaseTypeOK
    <3> QED
      BY <3>1, <3>2, <3>3, CloseDead
  <2> QED
    BY <1>4, <2>1, <2>2, <2>3, <2>4, CloseBeginCloses, CloseFinish, CloseThread DEF HandlerStep
<1>5. CASE RecoverAndFinalize
  <2>1. PICK S \in SUBSET Jobs : \E dead \in SUBSET S : TakeAway(S, dead) /\ FinalizeDead(dead)
    BY <1>5 DEF RecoverAndFinalize
  <2>2. PICK dead \in SUBSET S : TakeAway(S, dead) /\ FinalizeDead(dead)
    BY <2>1
  <2>3. /\ jobs' = [k \in Jobs |-> IF k \in dead THEN "closed"
                                   ELSE IF k \in S THEN "waiting" ELSE jobs[k]]
        /\ scans' = scans
    BY <1>5, <2>2 DEF TakeAway, RecoverAndFinalize
  <2>4. dead \in SUBSET Jobs /\ \A j \in Jobs \ dead : jobs'[j] = "closed" => jobs[j] = "closed"
    BY <2>3
  <2> QED
    BY <2>2, <2>3, <2>4, CloseDead
<1>6. CASE ClaimLost
  <2>1. schedule' = schedule /\ children' = children /\ scans' = scans
        /\ \E j \in Jobs : jobs' = [jobs EXCEPT ![j] = "held"]
    BY <1>6 DEF ClaimLost, GrantLost, scheduleVars
  <2>2. \A j \in Jobs : jobs'[j] = "closed" => jobs[j] = "closed"
    BY <2>1 DEF RunInv, LeaseTypeOK
  <2> QED
    BY <1>k, <2>1, <2>2
<1>7. CASE HubCrash
  <2>1. /\ jobs' = jobs /\ schedule' = schedule /\ children' = children
        /\ \A s \in Schedulers : ~scans'[s].active
    BY <1>7 DEF HubCrash, StopAll, NoScan
  <2> QED
    BY <2>1 DEF CloseInv, Snapshots, Accounted
<1> QED
  BY <1>1, <1>2, <1>3, <1>4, <1>5, <1>6, <1>7 DEF ScheduleNext

LEMMA CloseAlways == OneScheduler /\ ScheduleSpec => []CloseInv
<1> SUFFICES ASSUME OneScheduler PROVE ScheduleSpec => []CloseInv
  OBVIOUS
<1>1. RunInv /\ CloseInv /\ [ScheduleNext]_vars => CloseInv'
  BY CloseStep
<1> QED
  BY <1>1, CloseInit, RunAlways, PTL DEF ScheduleSpec

\* With one scheduler loop, no child action run outlives its occurrence's job.
THEOREM NoChildOrphaned == OneScheduler /\ ScheduleSpec => []NoOrphanChild
<1>1. ASSUME RunInv, CloseInv PROVE NoOrphanChild
  <2> SUFFICES ASSUME NEW o \in DOMAIN children, jobs[o[1]] = "closed"
               PROVE  children[o] # "running"
    BY DEF NoOrphanChild
  <2>1. PICK j \in Jobs, t \in Targets : o = <<j, t>>
    BY <1>1 DEF RunInv, ScheduleTypeOK
  <2> QED
    BY <1>1, <2>1 DEF CloseInv, Accounted
<1> QED
  BY <1>1, RunAlways, CloseAlways, PTL

\* An unfinished occurrence is ended by the transaction that closes its job, or
\* is let go by the API.
LEMMA EndingSteps ==
    ASSUME RunInv, Snapshots, ScheduleNext,
           schedule.status \in Unfinished, schedule'.status \notin Unfinished,
           schedule'.job = schedule.job
    PROVE  jobs[schedule.job] = "held" /\ jobs'[schedule.job] = "closed"
<1>s. /\ schedule \in Schedule /\ schedule.exists /\ schedule.job \in Jobs
      /\ jobs \in [Jobs -> {"absent", "waiting", "held", "closed"}]
      /\ schedule' # schedule
  BY DEF RunInv, LeaseTypeOK, ScheduleTypeOK, Current, Unfinished
<1>1. ASSUME NEW s \in Schedulers, SchedulerStep(s) PROVE FALSE
  <2>1. CASE Scan(s) \/ ClaimMisses(s)
    BY <1>s, <2>1 DEF Scan, ClaimMisses
  <2>2. CASE MarkInvalid(s)
    BY <2>2 DEF MarkInvalid, Snapshots
  <2>3. CASE InitializeNextRun(s)
    BY <1>s, <2>3 DEF InitializeNextRun, Schedule
  <2>4. CASE ClaimOccurrence(s)
    BY <2>4 DEF ClaimOccurrence, Claimable
  <2> QED
    BY <1>1, <2>1, <2>2, <2>3, <2>4 DEF SchedulerStep
<1>2. ASSUME NEW e \in Editors, EditorStep(e) PROVE FALSE
  <2>1. schedule' = UpdatedSchedule(edits[e])
    BY <1>2, <1>s DEF EditorStep, EditRead, EditWrite
  <2>2. \/ schedule'.status = schedule.status
        \/ schedule'.job = NoJob
    BY <1>s, <2>1 DEF UpdatedSchedule, Schedule
  <2> QED
    BY <1>s, <2>2, Constants
<1>3. ASSUME DeleteSchedule PROVE FALSE
  <2>1. schedule'.job = NoJob
    BY <1>3 DEF DeleteSchedule
  <2>2. schedule.job # NoJob
    BY <1>s, NoJobAssumption
  <2> QED
    BY <2>1, <2>2
<1>4. ASSUME NEW w \in Workers, CloseClaim(w), scans' = scans, edits' = edits,
             busy[w] = schedule.job
      PROVE  jobs[schedule.job] = "held" /\ jobs'[schedule.job] = "closed"
  BY <1>4, <1>s, CloseEffect
<1>5. ASSUME NEW w \in Workers, HandlerStep(w)
      PROVE  jobs[schedule.job] = "held" /\ jobs'[schedule.job] = "closed"
  <2>1. CASE StartHandler(w) \/ StoreFails(w) \/ Return(w)
    BY <1>s, <2>1 DEF StartHandler, StoreFails, Return
  <2>2. CASE BeginDispatch(w)
    BY <1>s, <2>2 DEF BeginDispatch, Schedule, Unfinished
  <2>3. CASE BeginCloses(w)
    <3>1. OwnerStatus(busy[w]) # "superseded"
      BY <1>s, <2>3 DEF BeginCloses, CloseSuperseded, LeaveRecords, Job
    <3>2. busy[w] = schedule.job
      BY <3>1, OwnerStatusAt DEF Superseded
    <3> QED
      BY <1>4, <2>3, <3>2 DEF BeginCloses
  <2>4. CASE Finish(w)
    <3>1. OwnerStatus(busy[w]) = "running"
      BY <1>s, <2>4 DEF Finish, CloseSuperseded, Job
    <3>2. busy[w] = schedule.job
      BY <3>1, OwnerStatusAt DEF Superseded
    <3> QED
      BY <1>4, <2>4, <3>2 DEF Finish
  <2>5. CASE \E t \in Targets : ThreadStep(w, t)
    BY <1>s, <2>5 DEF ThreadStep, SkipTarget, StartScheduledAction, SendCommand,
                      FinishScheduledAction, ReportFails
  <2>6. CASE FailAndFinalize(w)
    <3>1. PICK dead \in SUBSET {busy[w]} :
             GiveBack(w, IF dead = {} THEN "waiting" ELSE "closed") /\ FinalizeDead(dead)
      BY <2>6 DEF FailAndFinalize, Job
    <3>2. /\ busy[w] \in Jobs /\ w \in holders[busy[w]]
          /\ jobs' = [jobs EXCEPT ![busy[w]] = IF dead = {} THEN "waiting" ELSE "closed"]
      BY <3>1 DEF GiveBack, Holds
    <3>3. dead \in SUBSET Jobs
      BY <3>2
    <3>4. schedule.job \in dead
      BY <1>s, <3>1, <3>3, DeadFacts
    <3> QED
      BY <1>s, <3>2, <3>4 DEF RunInv, Leased
  <2> QED
    BY <1>5, <2>1, <2>2, <2>3, <2>4, <2>5, <2>6 DEF HandlerStep
<1>6. ASSUME RecoverAndFinalize
      PROVE  jobs[schedule.job] = "held" /\ jobs'[schedule.job] = "closed"
  <2>1. PICK S \in SUBSET Jobs : \E dead \in SUBSET S : TakeAway(S, dead) /\ FinalizeDead(dead)
    BY <1>6 DEF RecoverAndFinalize
  <2>2. PICK dead \in SUBSET S : TakeAway(S, dead) /\ FinalizeDead(dead)
    BY <2>1
  <2>3. schedule.job \in dead
    BY <1>s, <2>2, DeadFacts
  <2>4. /\ \A k \in S : jobs[k] = "held"
        /\ jobs' = [k \in Jobs |-> IF k \in dead THEN "closed"
                                   ELSE IF k \in S THEN "waiting" ELSE jobs[k]]
    BY <2>2 DEF TakeAway
  <2> QED
    BY <1>s, <2>3, <2>4
<1>7. ~Tick /\ ~ClaimLost /\ ~HubCrash
  BY <1>s DEF Tick, ClaimLost, HubCrash, scheduleVars
<1> QED
  BY <1>1, <1>2, <1>3, <1>5, <1>6, <1>7 DEF ScheduleNext

\* With one scheduler loop, an occurrence is ended only with its own job.
THEOREM OccurrencesEndWithJobs == OneScheduler /\ ScheduleSpec => OccurrenceEndsWithItsJob
<1> SUFFICES ASSUME OneScheduler PROVE ScheduleSpec => OccurrenceEndsWithItsJob
  OBVIOUS
<1>1. ASSUME RunInv, CloseInv, [ScheduleNext]_vars
      PROVE  (/\ schedule.status \in Unfinished
              /\ schedule'.status \notin Unfinished
              /\ schedule'.job = schedule.job
              => jobs[schedule.job] = "held" /\ jobs'[schedule.job] = "closed")
  BY <1>1, EndingSteps DEF CloseInv, vars, scheduleVars
<1> QED
  BY <1>1, RunAlways, CloseAlways, PTL DEF ScheduleSpec, OccurrenceEndsWithItsJob

-----------------------------------------------------------------------------
(* Edits and claims.  A request that sets next_run_at computes it from the *)
(* clock when it reads the row, a PATCH of the cron expression as well as  *)
(* one that enables a paused schedule, and writes it by id.  The value     *)
(* lies after every occurrence claimed until then, so the write is         *)
(* harmful only if an occurrence that became due after the read was        *)
(* claimed before the write.                                               *)

\* No claim of an occurrence at or after the next_run_at that a request has
\* computed falls between that request's read and its write.  Claims of earlier
\* occurrences may.
NoClaimOvertakes ==
    [][\A s \in Schedulers, e \in Editors :
          ClaimOccurrence(s) /\ edits[e].set =>
              edits[e].next = Never \/ scans[s].due < edits[e].next]_vars

\* The occurrences that have been claimed.
Claimed == {j \in Jobs : jobs[j] # "absent"}

\* What the clock, a scheduler's snapshot, the row and a request in flight know
\* lies after everything that has been claimed.
EditInv ==
    /\ \A j \in Claimed : j <= clock
    /\ \A s \in Schedulers : scans[s].active =>
          /\ scans[s].due <= scans[s].at /\ scans[s].at <= clock
          /\ \A j \in Claimed : j <= scans[s].at
    /\ schedule.next # Never => \A j \in Claimed : j < schedule.next
    /\ \A e \in Editors : edits[e].set /\ edits[e].next # Never =>
          \A j \in Claimed : j < edits[e].next

\* The queue's own steps create no job.
LEMMA AbsentKept ==
    ASSUME RunInv, [ClaimsOnly]_leaseVars, NEW j \in Jobs
    PROVE  jobs'[j] = "absent" <=> jobs[j] = "absent"
<1> USE DEF RunInv, LeaseTypeOK
<1>1. ASSUME NEW i \in Jobs, GrantLost(i) PROVE jobs'[j] = "absent" <=> jobs[j] = "absent"
  BY <1>1 DEF GrantLost
<1>2. ASSUME NEW w \in Workers, NEW i \in Jobs, Grant(w, i)
      PROVE  jobs'[j] = "absent" <=> jobs[j] = "absent"
  BY <1>2 DEF Grant
<1>3. ASSUME NEW w \in Workers, Holds(w) PROVE busy[w] \in Jobs /\ jobs[busy[w]] = "held"
  BY <1>3 DEF Holds, Leased
<1>4. ASSUME NEW w \in Workers, Close(w) \/ \E outcome \in {"waiting", "closed"} : GiveBack(w, outcome)
      PROVE  jobs'[j] = "absent" <=> jobs[j] = "absent"
  <2>1. Holds(w) /\ \E outcome \in {"waiting", "closed"} : jobs' = [jobs EXCEPT ![busy[w]] = outcome]
    BY <1>4 DEF Close, GiveBack
  <2> QED
    BY <1>3, <2>1
<1>5. ASSUME NEW w \in Workers, Leave(w) PROVE jobs'[j] = "absent" <=> jobs[j] = "absent"
  BY <1>5 DEF Leave
<1>6. ASSUME NEW S \in SUBSET Jobs, NEW dead \in SUBSET S, TakeAway(S, dead)
      PROVE  jobs'[j] = "absent" <=> jobs[j] = "absent"
  <2>1. /\ j \in S => jobs[j] = "held"
        /\ jobs'[j] = CASE j \in dead -> "closed"
                        [] j \in S \ dead -> "waiting"
                        [] OTHER -> jobs[j]
    BY <1>6 DEF TakeAway
  <2> QED
    BY <2>1
<1>7. CASE StopAll
  BY <1>7 DEF StopAll
<1>8. CASE UNCHANGED leaseVars
  BY <1>8 DEF leaseVars
<1> QED
  BY <1>1, <1>2, <1>4, <1>5, <1>6, <1>7, <1>8 DEF ClaimsOnly

\* A step that claims nothing, keeps next_run_at or clears it, and keeps or drops
\* what scheduler passes and requests have read.
LEMMA EditFrame ==
    ASSUME RunInv, EditInv, Claimed' = Claimed, clock' \in Nat, clock <= clock',
           schedule'.next \in {schedule.next, Never},
           \A s \in Schedulers : scans'[s].active => scans'[s] = scans[s],
           \A e \in Editors : edits'[e].set => edits'[e] = edits[e]
    PROVE  EditInv'
<1> USE Constants
<1>0. clock \in Nat /\ Claimed \subseteq Nat
  BY DEF RunInv, ScheduleTypeOK, Claimed
<1>1. \A j \in Claimed' : j <= clock'
  BY <1>0 DEF EditInv
<1>2. ASSUME NEW s \in Schedulers, scans'[s].active
      PROVE  /\ scans'[s].due <= scans'[s].at /\ scans'[s].at <= clock'
             /\ \A j \in Claimed' : j <= scans'[s].at
  <2>1. scans'[s] = scans[s] /\ scans[s].active /\ scans[s].at \in Nat
    BY <1>2 DEF RunInv, LocalTypes
  <2> QED
    BY <1>0, <2>1 DEF EditInv
<1>3. schedule'.next # Never => \A j \in Claimed' : j < schedule'.next
  BY DEF EditInv
<1>4. \A e \in Editors : edits'[e].set /\ edits'[e].next # Never =>
          \A j \in Claimed' : j < edits'[e].next
  BY DEF EditInv
<1> QED
  BY <1>1, <1>2, <1>3, <1>4 DEF EditInv

\* What a handler, the dead-letter finalizer or a crash leaves of the row.
SameDefinition ==
    /\ schedule'.exists = schedule.exists /\ schedule'.enabled = schedule.enabled
    /\ schedule'.cronValid = schedule.cronValid /\ schedule'.next = schedule.next

LEMMA DefinitionStays ==
    ASSUME RunInv, schedule' = schedule \/ \E r \in RunStatus : schedule' = [schedule EXCEPT !.status = r]
    PROVE  SameDefinition
<1>1. schedule \in Schedule
  BY DEF RunInv, ScheduleTypeOK
<1>2. ASSUME NEW r \in RunStatus, schedule' = [schedule EXCEPT !.status = r] PROVE SameDefinition
  BY <1>1, <1>2 DEF Schedule, SameDefinition
<1> QED
  BY <1>2 DEF SameDefinition

LEMMA DeadDefinition ==
    ASSUME RunInv, NEW dead \in SUBSET Jobs, FinalizeDead(dead)
    PROVE  SameDefinition
<1>1. {"skipped", "not_executed", "interrupted"} \subseteq RunStatus
  BY DEF RunStatus
<1> QED
  BY <1>1, DeadFacts, DefinitionStays

LEMMA HandlerDefinition ==
    ASSUME RunInv, NEW w \in Workers, HandlerStep(w)
    PROVE  SameDefinition /\ UNCHANGED <<clock, scans, edits>>
<1>1. CASE schedule' = schedule /\ UNCHANGED <<clock, scans, edits>>
  BY <1>1 DEF SameDefinition
<1>2. CASE BeginDispatch(w)
  <2>1. \E r \in RunStatus : schedule' = [schedule EXCEPT !.status = r]
    BY <1>2 DEF BeginDispatch, RunStatus
  <2> QED
    BY <1>2, <2>1, DefinitionStays DEF BeginDispatch
<1>3. CASE BeginCloses(w)
  <2>1. schedule' = schedule \/ \E r \in RunStatus : schedule' = [schedule EXCEPT !.status = r]
    BY <1>3 DEF BeginCloses, CloseSuperseded, WriteResult, LeaveRecords, RunStatus
  <2> QED
    BY <1>3, <2>1, DefinitionStays DEF BeginCloses
<1>4. CASE Finish(w)
  <2>1. Outcomes(w) \subseteq RunStatus
    BY AggregateFacts DEF Outcomes, RunStatus, RunResults
  <2>2. schedule' = schedule \/ \E r \in RunStatus : schedule' = [schedule EXCEPT !.status = r]
    BY <1>4, <2>1 DEF Finish, CloseSuperseded, WriteResult
  <2> QED
    BY <1>4, <2>2, DefinitionStays DEF Finish
<1>5. CASE FailAndFinalize(w)
  <2>1. busy[w] \in Jobs
    BY <1>5 DEF FailAndFinalize, RunInv, Leased
  <2>2. \E dead \in SUBSET Jobs : FinalizeDead(dead)
    BY <1>5, <2>1 DEF FailAndFinalize, Job
  <2> QED
    BY <1>5, <2>2, DeadDefinition DEF FailAndFinalize
<1>6. CASE StartHandler(w) \/ StoreFails(w) \/ Return(w)
  BY <1>1, <1>6 DEF StartHandler, StoreFails, Return
<1>7. ASSUME NEW t \in Targets, ThreadStep(w, t)
      PROVE  schedule' = schedule /\ UNCHANGED <<clock, scans, edits>>
  BY <1>7 DEF ThreadStep, SkipTarget, StartScheduledAction, SendCommand, FinishScheduledAction,
              ReportFails
<1> QED
  BY <1>1, <1>2, <1>3, <1>4, <1>5, <1>6, <1>7 DEF HandlerStep

\* The one scheduler: nothing is claimed between its read and its write, so that
\* the occurrence after its snapshot is free.
LEMMA EditScheduler ==
    ASSUME OneScheduler, RunInv, EditInv, NEW s \in Schedulers, SchedulerStep(s),
           \A e \in Editors : ClaimOccurrence(s) /\ edits[e].set =>
              edits[e].next = Never \/ scans[s].due < edits[e].next
    PROVE  EditInv'
<1> USE Constants
<1>0. /\ schedule \in Schedule /\ clock \in Nat /\ clock <= clock /\ clock' = clock
      /\ scans \in [Schedulers -> [at : 0..Horizon, due : 0..Horizon, cronValid : BOOLEAN,
                                   active : BOOLEAN]]
      /\ edits' = edits /\ Claimed \subseteq Nat /\ jobs \in [Jobs -> {"absent", "waiting", "held", "closed"}]
      /\ \A r \in Schedulers : r = s
  BY DEF RunInv, ScheduleTypeOK, LocalTypes, LeaseTypeOK, Claimed, OneScheduler, SchedulerStep, Scan,
     MarkInvalid, InitializeNextRun, ClaimOccurrence, ClaimMisses, EndScan
<1>1. ASSUME scans' = [scans EXCEPT ![s] = NoScan]
      PROVE  \A r \in Schedulers : ~scans'[r].active
  BY <1>0, <1>1 DEF NoScan
<1>2. ASSUME jobs' = jobs, scans' = [scans EXCEPT ![s] = NoScan],
             schedule'.next \in {schedule.next, Never}
      PROVE  EditInv'
  <2>1. Claimed' = Claimed
    BY <1>2 DEF Claimed
  <2> QED
    BY <1>0, <1>1, <1>2, <2>1, EditFrame
<1>3. CASE Scan(s)
  <2>1. /\ schedule' = schedule /\ jobs' = jobs /\ schedule.next <= clock
        /\ scans' = [scans EXCEPT ![s] = [at |-> clock, due |-> schedule.next,
                                          cronValid |-> schedule.cronValid, active |-> TRUE]]
    BY <1>3 DEF Scan, leaseVars
  <2>2. \A r \in Schedulers : scans'[r].due <= scans'[r].at /\ scans'[r].at = clock
    BY <1>0, <2>1
  <2>3. Claimed' = Claimed
    BY <2>1 DEF Claimed
  <2> QED
    BY <1>0, <2>1, <2>2, <2>3 DEF EditInv
<1>4. CASE MarkInvalid(s)
  <2>1. schedule'.next \in {schedule.next, Never}
    BY <1>0, <1>4 DEF MarkInvalid, Schedule
  <2> QED
    BY <1>2, <1>4, <2>1 DEF MarkInvalid, EndScan, leaseVars
<1>5. CASE InitializeNextRun(s)
  <2>1. /\ jobs' = jobs /\ scans' = [scans EXCEPT ![s] = NoScan] /\ scans[s].active
    BY <1>5 DEF InitializeNextRun, EndScan, leaseVars
  <2>2. CASE schedule' = schedule
    BY <1>2, <2>1, <2>2
  <2>3. CASE schedule' = [schedule EXCEPT !.next = NextRun(scans[s].at)]
    <3>1. PICK at \in Nat : at = scans[s].at
      BY <1>0
    <3>2. schedule'.next = at + 1
      BY <1>0, <2>3, <3>1 DEF Schedule, NextRun
    <3>3. \A j \in Claimed : j <= at
      BY <2>1, <3>1 DEF EditInv
    <3>4. Claimed' = Claimed /\ \A r \in Schedulers : ~scans'[r].active
      BY <1>1, <2>1 DEF Claimed
    <3>5. \A j \in Claimed' : j < schedule'.next
      BY <1>0, <3>2, <3>3, <3>4
    <3> QED
      BY <1>0, <3>4, <3>5 DEF EditInv
  <2> QED
    BY <1>5, <2>2, <2>3 DEF InitializeNextRun
<1>6. CASE ClaimOccurrence(s)
  <2>1. PICK due \in Nat, at \in Nat : due = scans[s].due /\ at = scans[s].at
    BY <1>0
  <2>2. /\ scans[s].active
        /\ jobs' = [jobs EXCEPT ![due] = "waiting"]
        /\ schedule' = [schedule EXCEPT !.next = NextRun(at), !.status = "queued", !.job = due]
        /\ scans' = [scans EXCEPT ![s] = NoScan]
    BY <1>6, <2>1 DEF ClaimOccurrence, DueScan, Submit, EndScan
  <2>3. due <= at /\ at <= clock /\ \A j \in Claimed : j <= at
    BY <2>1, <2>2 DEF EditInv
  <2>4. Claimed' \subseteq Claimed \cup {due}
    BY <1>0, <2>2 DEF Claimed
  <2>5. schedule'.next = at + 1
    BY <1>0, <2>1, <2>2 DEF Schedule, NextRun
  <2>6. \A j \in Claimed' : j <= clock' /\ j < schedule'.next
    BY <1>0, <2>3, <2>4, <2>5
  <2>7. ASSUME NEW e \in Editors, edits'[e].set, edits'[e].next # Never
        PROVE  \A j \in Claimed' : j < edits'[e].next
    BY <1>0, <1>6, <2>1, <2>4, <2>7 DEF EditInv
  <2>8. \A r \in Schedulers : ~scans'[r].active
    BY <1>1, <2>2
  <2> QED
    BY <2>6, <2>7, <2>8 DEF EditInv
<1>7. CASE ClaimMisses(s)
  BY <1>2, <1>7 DEF ClaimMisses, EndScan, leaseVars
<1> QED
  BY <1>3, <1>4, <1>5, <1>6, <1>7 DEF SchedulerStep

\* A request: what it computes when it reads is what it writes.
LEMMA EditEditor ==
    ASSUME RunInv, EditInv, NEW e \in Editors, EditorStep(e)
    PROVE  EditInv'
<1> USE Constants
<1>0. /\ schedule \in Schedule /\ clock \in Nat /\ clock <= clock /\ Claimed \subseteq Nat
      /\ edits \in [Editors -> [change : {"none"} \cup Changes, set : BOOLEAN, next : Nat]]
  BY DEF RunInv, ScheduleTypeOK, LocalTypes, Claimed
<1>1. /\ clock' = clock /\ scans' = scans /\ Claimed' = Claimed
  BY DEF EditorStep, EditRead, EditWrite, leaseVars, Claimed
<1>2. ASSUME NEW change \in Changes, EditRead(e, change) PROVE EditInv'
  <2>1. schedule' = schedule
    BY <1>2 DEF EditRead
  <2>2. PICK set, t : /\ edits' = [edits EXCEPT ![e] = [change |-> change, set |-> set, next |-> t]]
                      /\ t \in {Never, clock + 1}
    BY <1>2 DEF EditRead, NextRun
  <2>3. edits'[e].next = t /\ \A f \in Editors : f # e => edits'[f] = edits[f]
    BY <1>0, <2>2
  <2>4. ASSUME NEW f \in Editors, edits'[f].set, edits'[f].next # Never
        PROVE  \A j \in Claimed' : j < edits'[f].next
    <3>1. CASE f = e
      BY <1>0, <1>1, <2>2, <2>3, <2>4, <3>1 DEF EditInv
    <3>2. CASE f # e
      BY <1>1, <2>3, <2>4, <3>2 DEF EditInv
    <3> QED
      BY <3>1, <3>2
  <2> QED
    BY <1>1, <2>1, <2>4 DEF EditInv
<1>3. CASE EditWrite(e)
  <2>1. \A f \in Editors : edits'[f].set => edits'[f] = edits[f]
    BY <1>0, <1>3 DEF EditWrite, NoEdit
  <2>2. CASE schedule'.next = schedule.next
    BY <1>0, <1>1, <2>1, <2>2, EditFrame
  <2>3. CASE edits[e].set /\ schedule'.next = edits[e].next
    <3>1. schedule'.next # Never => \A j \in Claimed' : j < schedule'.next
      BY <1>1, <2>3 DEF EditInv
    <3> QED
      BY <1>1, <2>1, <3>1 DEF EditInv
  <2>4. schedule'.next = schedule.next \/ (edits[e].set /\ schedule'.next = edits[e].next)
    <3>1. CASE ~schedule.exists
      BY <1>3, <3>1 DEF EditWrite
    <3>2. CASE schedule.exists
      <4>1. PICK a, b, r, k :
              schedule' = [schedule EXCEPT !.enabled = a, !.cronValid = b,
                                           !.next = IF edits[e].set THEN edits[e].next ELSE schedule.next,
                                           !.status = r, !.job = k]
        BY <1>3, <3>2 DEF EditWrite, UpdatedSchedule
      <4> QED
        BY <1>0, <4>1 DEF Schedule
    <3> QED
      BY <3>1, <3>2
  <2> QED
    BY <2>2, <2>3, <2>4
<1> QED
  BY <1>2, <1>3 DEF EditorStep

LEMMA EditStep ==
    ASSUME OneScheduler, RunInv, EditInv, [ScheduleNext]_vars,
           \A s \in Schedulers, e \in Editors : ClaimOccurrence(s) /\ edits[e].set =>
              edits[e].next = Never \/ scans[s].due < edits[e].next
    PROVE  EditInv'
<1> USE Constants
<1>0. clock \in Nat /\ clock <= clock
  BY DEF RunInv, ScheduleTypeOK
<1>1. ASSUME [ClaimsOnly]_leaseVars, SameDefinition, clock' = clock,
             \A s \in Schedulers : scans'[s].active => scans'[s] = scans[s],
             \A e \in Editors : edits'[e].set => edits'[e] = edits[e]
      PROVE  EditInv'
  <2>1. Claimed' = Claimed
    BY <1>1, AbsentKept DEF Claimed
  <2> QED
    BY <1>0, <1>1, <2>1, EditFrame DEF SameDefinition
<1>2. ASSUME jobs' = jobs, clock' \in Nat, clock <= clock', UNCHANGED <<scans, edits>>,
             schedule'.next \in {schedule.next, Never}
      PROVE  EditInv'
  <2>1. Claimed' = Claimed
    BY <1>2 DEF Claimed
  <2> QED
    BY <1>2, <2>1, EditFrame
<1>3. CASE Tick
  BY <1>0, <1>2, <1>3 DEF Tick, leaseVars
<1>4. CASE \E s \in Schedulers : SchedulerStep(s)
  BY <1>4, EditScheduler
<1>5. CASE \E e \in Editors : EditorStep(e)
  BY <1>5, EditEditor
<1>6. CASE DeleteSchedule
  BY <1>0, <1>2, <1>6 DEF DeleteSchedule, leaseVars
<1>7. ASSUME NEW w \in Workers, HandlerStep(w) PROVE EditInv'
  BY <1>1, <1>7, HandlerLeases, HandlerDefinition
<1>8. CASE RecoverAndFinalize
  <2>1. SameDefinition
    BY <1>8, DeadDefinition DEF RecoverAndFinalize
  <2> QED
    BY <1>1, <1>8, <2>1, QueueLeases DEF RecoverAndFinalize
<1>9. CASE ClaimLost
  <2>1. SameDefinition /\ UNCHANGED <<clock, scans, edits>>
    BY <1>9 DEF ClaimLost, scheduleVars, SameDefinition
  <2> QED
    BY <1>1, <1>9, <2>1, QueueLeases
<1>10. CASE HubCrash
  <2>1. SameDefinition /\ clock' = clock
    BY <1>10 DEF HubCrash, SameDefinition
  <2>2. /\ \A s \in Schedulers : scans'[s].active => scans'[s] = scans[s]
        /\ \A e \in Editors : edits'[e].set => edits'[e] = edits[e]
    BY <1>10 DEF HubCrash, NoScan, NoEdit
  <2> QED
    BY <1>1, <1>10, <2>1, <2>2, QueueLeases
<1>11. CASE UNCHANGED vars
  BY <1>0, <1>2, <1>11 DEF vars, leaseVars, scheduleVars
<1> QED
  BY <1>3, <1>4, <1>5, <1>6, <1>7, <1>8, <1>9, <1>10, <1>11 DEF ScheduleNext

\* The lost update of V2UpdateSchedule has one cause.  With one scheduler, and
\* any number of PATCH requests of every kind in flight together (pause, resume
\* and new cron expressions), next_run_at of an enabled schedule is never set to
\* an occurrence that already has its job, as long as no claim of an occurrence
\* at or after the next_run_at that a request has computed falls between the
\* request's read and its write.
THEOREM EditsKeepClaims == OneScheduler /\ ScheduleSpec /\ NoClaimOvertakes => []EditKeepsClaim
<1> SUFFICES ASSUME OneScheduler PROVE ScheduleSpec /\ NoClaimOvertakes => []EditKeepsClaim
  OBVIOUS
<1> DEFINE Behind == \A s \in Schedulers, e \in Editors :
                        ClaimOccurrence(s) /\ edits[e].set =>
                            edits[e].next = Never \/ scans[s].due < edits[e].next
<1>1. ScheduleInit => EditInv
  <2> SUFFICES ASSUME ScheduleInit PROVE EditInv
    OBVIOUS
  <2>1. Claimed = {}
    BY DEF ScheduleInit, LeaseInit, Claimed
  <2>2. \A s \in Schedulers : ~scans[s].active
    BY DEF ScheduleInit, NoScan
  <2> QED
    BY <2>1, <2>2 DEF EditInv
<1>2. RunInv /\ EditInv /\ [ScheduleNext]_vars /\ [Behind]_vars => EditInv'
  <2> SUFFICES ASSUME RunInv, EditInv, [ScheduleNext]_vars, [Behind]_vars PROVE EditInv'
    OBVIOUS
  <2>1. CASE Behind
    BY <2>1, EditStep
  <2>2. CASE UNCHANGED vars
    BY <2>2 DEF EditInv, Claimed, vars, leaseVars, scheduleVars
  <2> QED
    BY <2>1, <2>2
<1>3. RunInv /\ EditInv => EditKeepsClaim
  BY Constants DEF EditInv, EditKeepsClaim, Claimed, Never
<1>4. NoClaimOvertakes <=> [][Behind]_vars
  BY DEF NoClaimOvertakes
<1> HIDE DEF Behind
<1> QED
  BY <1>1, <1>2, <1>3, <1>4, RunAlways, PTL DEF ScheduleSpec

================================================================================
