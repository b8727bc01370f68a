---------------------- MODULE JobQueueRefinementProofs ----------------------
(***************************************************************************)
(* Proof that JobQueue implements JobLease: ScheduleRun, which is written  *)
(* over JobLease, rests on it.                                             *)
(***************************************************************************)
EXTENDS JobQueueProofs, JobQueueRefinement

-----------------------------------------------------------------------------
(* The mapping.                                                            *)

LeaseJobs == [j \in Jobs |-> LeaseOf(rows[j].status)]

LeaseHolders == [j \in Jobs |-> {w \in Workers : OwnsClaim(w) /\ workers[w].job = j}]

LeaseBusy == [w \in Workers |-> IF workers[w].pc = "notifying" THEN NoJob ELSE workers[w].job]

\* A worker holds the current claim of a job ...
Owner(w, j) ==
    /\ workers[w].job = j
    /\ rows[j].status = "processing"
    /\ rows[j].token = workers[w].token

\* ... and works on one.
BusyWith(w) == IF workers[w].pc = "notifying" THEN NoJob ELSE workers[w].job

LEMMA HoldersAre ==
    /\ LeaseHolders = [j \in Jobs |-> {w \in Workers : Owner(w, j)}]
    /\ LeaseBusy = [w \in Workers |-> BusyWith(w)]
<1>1. \A j \in Jobs, w \in Workers : (OwnsClaim(w) /\ workers[w].job = j) <=> Owner(w, j)
  BY DEF OwnsClaim, Owner
<1> QED
  BY <1>1 DEF LeaseHolders, LeaseBusy, BusyWith

LEMMA HoldersAreNext ==
    /\ LeaseHolders' = [j \in Jobs |-> {w \in Workers : Owner(w, j)'}]
    /\ LeaseBusy' = [w \in Workers |-> BusyWith(w)']
    /\ LeaseJobs' = [j \in Jobs |-> LeaseOf(rows'[j].status)]
<1>1. \A j \in Jobs, w \in Workers : (OwnsClaim(w)' /\ workers'[w].job = j) <=> Owner(w, j)'
  BY DEF OwnsClaim, Owner
<1> QED
  BY <1>1 DEF LeaseHolders, LeaseBusy, BusyWith, LeaseJobs

\* A worker is idle when it has no job.
IdleInv == \A w \in Workers : workers[w].pc = "idle" <=> workers[w].job = NoJob

LEMMA IdleInitial == Init => IdleInv
BY DEF Init, IdleInv, IdleWorker

LEMMA IdleInductive == TypeOK /\ IdleInv /\ [Next]_queueVars => IdleInv'
<1> SUFFICES ASSUME TypeOK, IdleInv, [Next]_queueVars PROVE IdleInv'
  OBVIOUS
<1> USE DEF TypeOK
<1>1. ASSUME workers' = workers PROVE IdleInv'
  BY <1>1 DEF IdleInv
<1>2. ASSUME NEW v \in Workers, Release(v) PROVE IdleInv'
  BY <1>2 DEF Release, IdleInv, IdleWorker
<1>3. ASSUME NEW v \in Workers, NEW pc \in WorkerPC \ {"idle"}, workers[v].pc # "idle", GoTo(v, pc)
      PROVE  IdleInv'
  BY <1>3 DEF GoTo, IdleInv, Worker
<1>4. ASSUME NEW v \in Workers, Claim(v) PROVE IdleInv'
  <2>1. PICK j \in Jobs : workers' = [workers EXCEPT ![v] = ClaimingWorker(j, rows'[j])]
    BY <1>4 DEF Claim
  <2>2. ClaimingWorker(j, rows'[j]).pc # "idle" /\ ClaimingWorker(j, rows'[j]).job = j /\ j # NoJob
    BY JobsAssumption DEF ClaimingWorker
  <2> QED
    BY <2>1, <2>2 DEF IdleInv
<1>5. ASSUME NEW v \in Workers, RenewClaim(v) PROVE IdleInv'
  <2>1. CASE workers' = [workers EXCEPT ![v].lost = TRUE]
    BY <2>1 DEF IdleInv, Worker
  <2> QED
    BY <1>1, <1>5, <2>1 DEF RenewClaim
<1>6. ASSUME NEW v \in Workers, HandlerCloses(v) PROVE IdleInv'
  BY <1>6 DEF HandlerCloses, IdleInv, Worker
<1>7. ASSUME NEW v \in Workers, NEW err \in BOOLEAN, HandlerReturns(v, err) PROVE IdleInv'
  <2>1. (IF err THEN "failing" ELSE "completing") \in WorkerPC \ {"idle"}
    BY DEF WorkerPC
  <2> QED
    BY <1>2, <1>3, <1>7, <2>1 DEF HandlerReturns
<1>8. ASSUME NEW v \in Workers, Fail(v) PROVE IdleInv'
  <2>1. "notifying" \in WorkerPC \ {"idle"}
    BY DEF WorkerPC
  <2> QED
    BY <1>2, <1>3, <1>8, <2>1 DEF Fail
<1>9. ASSUME NEW v \in Workers, FailReplyLost(v) \/ Complete(v) \/ CloseFails(v) \/ Notify(v)
      PROVE  IdleInv'
  BY <1>2, <1>9 DEF FailReplyLost, Complete, CloseFails, Notify
<1>10. CASE Crash
  BY <1>10 DEF Crash, IdleInv, IdleWorker
<1>11. CASE UNCHANGED queueVars
  BY <1>1, <1>11 DEF queueVars
<1>12. ASSUME NEW v \in Workers,
              \/ ClaimReplyLost(v) \/ NotifyRecovered(v)
              \/ \E S \in SUBSET ExpiredRows : Recover(v, S)
       PROVE  IdleInv'
  BY <1>1, <1>12 DEF ClaimReplyLost, NotifyRecovered, Recover
<1>13. ASSUME NEW j \in Jobs, JobStep(j) PROVE IdleInv'
  BY <1>1, <1>13 DEF JobStep, Enqueue, BackoffElapses, ClaimExpires, PurgeOldJobs
<1>14. ASSUME NEW limit \in AttemptLimits, SetMaxAttempts(limit) PROVE IdleInv'
  BY <1>1, <1>14 DEF SetMaxAttempts
<1> QED
  BY <1>4, <1>5, <1>6, <1>7, <1>8, <1>9, <1>10, <1>11, <1>12, <1>13, <1>14 DEF Next, WorkerStep

RefinementInv == FencingInv /\ NoticeInv /\ IdleInv

LEMMA RefinementFacts ==
    ASSUME RefinementInv
    PROVE  /\ TypeOK /\ NoJob \notin Jobs
           /\ \A w \in Workers : workers[w].pc = "notifying" =>
                 workers[w].job \in Jobs /\ rows[workers[w].job].status # "processing"
           /\ \A w \in Workers : workers[w].pc = "idle" => workers[w].job = NoJob
           /\ \A w \in Workers : workers[w].pc # "idle" => workers[w].job \in Jobs
           /\ \A v, w \in Workers, j \in Jobs : Owner(v, j) /\ Owner(w, j) => v = w
           /\ \A w \in Workers : workers[w].token # issued + 1
<1>1. TypeOK /\ NoJob \notin Jobs
  BY JobsAssumption DEF RefinementInv, FencingInv
<1>2. ASSUME NEW w \in Workers
      PROVE  /\ workers[w].pc = "idle" => workers[w].job = NoJob
             /\ workers[w].pc # "idle" => workers[w].job \in Jobs
  BY <1>1 DEF RefinementInv, IdleInv, TypeOK, Worker
<1>3. ASSUME NEW w \in Workers, workers[w].pc = "notifying"
      PROVE  workers[w].job \in Jobs /\ rows[workers[w].job].status # "processing"
  BY <1>2, <1>3 DEF RefinementInv, NoticeInv, Notifying, Dead
<1>4. \A v, w \in Workers, j \in Jobs : Owner(v, j) /\ Owner(w, j) => v = w
  BY DEF RefinementInv, FencingInv, TokensDistinct, Owner
<1>5. ASSUME NEW w \in Workers PROVE workers[w].token # issued + 1
  <2>1. workers[w].token <= issued /\ issued \in Nat /\ workers[w].token \in Nat
    BY <1>1 DEF RefinementInv, FencingInv, TokensFresh, TypeOK, Worker
  <2> QED
    BY <2>1
<1> QED
  BY <1>1, <1>2, <1>3, <1>4, <1>5

-----------------------------------------------------------------------------
(* What the steps of the queue are for JobLease.                           *)

\* Nothing that JobLease can see.
LEMMA Unseen ==
    ASSUME \A j \in Jobs : LeaseOf(rows'[j].status) = LeaseOf(rows[j].status),
           \A w \in Workers, j \in Jobs : Owner(w, j)' <=> Owner(w, j),
           \A w \in Workers : BusyWith(w)' = BusyWith(w)
    PROVE  LeaseJobs' = LeaseJobs /\ LeaseHolders' = LeaseHolders /\ LeaseBusy' = LeaseBusy
BY HoldersAre, HoldersAreNext DEF LeaseJobs

LEMMA UnseenRow ==
    ASSUME TypeOK, NEW i \in Jobs, NEW r \in Row, workers' = workers, rows' = [rows EXCEPT ![i] = r],
           LeaseOf(r.status) = LeaseOf(rows[i].status),
           r.token = rows[i].token, r.status = "processing" <=> rows[i].status = "processing"
    PROVE  LeaseJobs' = LeaseJobs /\ LeaseHolders' = LeaseHolders /\ LeaseBusy' = LeaseBusy
<1>1. ASSUME NEW j \in Jobs
      PROVE  /\ LeaseOf(rows'[j].status) = LeaseOf(rows[j].status)
             /\ \A w \in Workers : Owner(w, j)' <=> Owner(w, j)
  BY DEF TypeOK, Owner
<1>2. \A w \in Workers : BusyWith(w)' = BusyWith(w)
  BY DEF BusyWith
<1> QED
  BY <1>1, <1>2, Unseen

LEMMA UnseenWorker ==
    ASSUME TypeOK, rows' = rows,
           \A v \in Workers : /\ workers'[v].job = workers[v].job
                              /\ workers'[v].token = workers[v].token
                              /\ workers'[v].pc = "notifying" <=> workers[v].pc = "notifying"
    PROVE  LeaseJobs' = LeaseJobs /\ LeaseHolders' = LeaseHolders /\ LeaseBusy' = LeaseBusy
<1>1. ASSUME NEW j \in Jobs, NEW w \in Workers PROVE Owner(w, j)' <=> Owner(w, j)
  BY DEF Owner
<1>2. \A w \in Workers : BusyWith(w)' = BusyWith(w)
  BY DEF BusyWith
<1> QED
  BY <1>1, <1>2, Unseen

\* The statement of Claim gives the row a token nobody holds.
LEMMA Claiming ==
    ASSUME RefinementInv, NEW j \in Jobs, ClaimStatement(j)
    PROVE  /\ LeaseJobs[j] = "waiting"
           /\ LeaseJobs' = [LeaseJobs EXCEPT ![j] = "held"]
           /\ LeaseHolders[j] = {}
           /\ rows'[j].status = "processing" /\ rows'[j].token = issued + 1
           /\ \A i \in Jobs \ {j} : rows'[i] = rows[i]
<1>1. TypeOK /\ rows[j] \in Row
  BY RefinementFacts DEF TypeOK
<1>2. /\ rows[j].status = "queued" /\ rows' = [rows EXCEPT ![j] = ClaimRow(rows[j], issued + 1)]
  BY DEF ClaimStatement
<1>3. /\ rows'[j].status = "processing" /\ rows'[j].token = issued + 1
      /\ \A i \in Jobs \ {j} : rows'[i] = rows[i]
  BY <1>1, <1>2 DEF ClaimRow, Row, TypeOK
<1>4. LeaseJobs[j] = "waiting" /\ LeaseJobs' = [LeaseJobs EXCEPT ![j] = "held"]
  BY <1>2, <1>3, HoldersAreNext DEF LeaseJobs, LeaseOf
<1>5. LeaseHolders[j] = {}
  BY <1>2, HoldersAre DEF Owner
<1> QED
  BY <1>3, <1>4, <1>5

LEMMA ClaimGrants ==
    ASSUME RefinementInv, NEW w \in Workers, Claim(w)
    PROVE  \E j \in Jobs :
              /\ LeaseBusy[w] = NoJob /\ LeaseJobs[j] = "waiting"
              /\ LeaseJobs' = [LeaseJobs EXCEPT ![j] = "held"]
              /\ LeaseHolders' = [LeaseHolders EXCEPT ![j] = {w}]
              /\ LeaseBusy' = [LeaseBusy EXCEPT ![w] = j]
<1>0. TypeOK /\ workers[w].job = NoJob /\ NoJob \notin Jobs /\ workers[w].pc = "idle"
  BY RefinementFacts DEF Claim
<1>1. PICK j \in Jobs :
        ClaimStatement(j) /\ workers' = [workers EXCEPT ![w] = ClaimingWorker(j, rows'[j])]
  BY DEF Claim
<1>2. /\ LeaseJobs[j] = "waiting" /\ LeaseJobs' = [LeaseJobs EXCEPT ![j] = "held"]
      /\ rows'[j].status = "processing" /\ rows'[j].token = issued + 1
      /\ \A i \in Jobs \ {j} : rows'[i] = rows[i]
  BY <1>1, Claiming
<1>3. /\ workers'[w].job = j /\ workers'[w].token = issued + 1 /\ workers'[w].pc # "notifying"
      /\ \A v \in Workers \ {w} : workers'[v] = workers[v]
  BY <1>0, <1>1, <1>2 DEF TypeOK, ClaimingWorker
<1>4. ASSUME NEW v \in Workers PROVE Owner(v, j)' <=> v = w
  <2>1. v # w => workers'[v].token # issued + 1
    BY <1>3, RefinementFacts
  <2> QED
    BY <1>2, <1>3, <2>1 DEF Owner
<1>5. ASSUME NEW v \in Workers, NEW i \in Jobs \ {j} PROVE Owner(v, i)' <=> Owner(v, i)
  BY <1>0, <1>2, <1>3 DEF Owner
<1>6. LeaseHolders' = [LeaseHolders EXCEPT ![j] = {w}]
  BY <1>4, <1>5, HoldersAre, HoldersAreNext
<1>7. LeaseBusy[w] = NoJob /\ LeaseBusy' = [LeaseBusy EXCEPT ![w] = j]
  BY <1>0, <1>3, HoldersAre, HoldersAreNext DEF BusyWith
<1> QED
  BY <1>2, <1>6, <1>7

LEMMA ClaimLostGrants ==
    ASSUME RefinementInv, NEW w \in Workers, ClaimReplyLost(w)
    PROVE  \E j \in Jobs :
              /\ LeaseJobs[j] = "waiting"
              /\ LeaseJobs' = [LeaseJobs EXCEPT ![j] = "held"]
              /\ LeaseHolders' = LeaseHolders /\ LeaseBusy' = LeaseBusy
<1>1. PICK j \in Jobs : ClaimStatement(j)
  BY DEF ClaimReplyLost
<1>2. /\ LeaseJobs[j] = "waiting" /\ LeaseJobs' = [LeaseJobs EXCEPT ![j] = "held"]
      /\ LeaseHolders[j] = {}
      /\ rows'[j].token = issued + 1
      /\ \A i \in Jobs \ {j} : rows'[i] = rows[i]
  BY <1>1, Claiming
<1>3. workers' = workers
  BY DEF ClaimReplyLost
<1>4. ASSUME NEW v \in Workers PROVE ~Owner(v, j)'
  BY <1>2, <1>3, RefinementFacts DEF Owner
<1>5. ASSUME NEW v \in Workers, NEW i \in Jobs \ {j} PROVE Owner(v, i)' <=> Owner(v, i)
  BY <1>2, <1>3 DEF Owner
<1>6. \A i \in Jobs : LeaseHolders'[i] = LeaseHolders[i]
  <2>1. LeaseHolders'[j] = {}
    BY <1>4, HoldersAreNext
  <2>2. \A i \in Jobs \ {j} : LeaseHolders'[i] = LeaseHolders[i]
    BY <1>5, HoldersAre, HoldersAreNext
  <2> QED
    BY <1>2, <2>1, <2>2
<1>7. LeaseHolders' = LeaseHolders
  BY <1>6 DEF LeaseHolders
<1>8. LeaseBusy' = LeaseBusy
  BY <1>3 DEF LeaseBusy
<1> QED
  BY <1>2, <1>7, <1>8

\* A worker ends the claim it owns.
LEMMA Ending ==
    ASSUME RefinementInv, NEW w \in Workers, OwnsClaim(w), NEW r \in Row,
           workers[w].pc \in {"handling", "failing", "completing"},
           rows' = [rows EXCEPT ![workers[w].job] = r], r.status # "processing",
           \A v \in Workers \ {w} : workers'[v] = workers[v],
           workers'[w].job \in {workers[w].job, NoJob}
    PROVE  /\ LeaseBusy[w] = workers[w].job /\ workers[w].job \in Jobs
           /\ w \in LeaseHolders[workers[w].job]
           /\ LeaseJobs' = [LeaseJobs EXCEPT ![workers[w].job] = LeaseOf(r.status)]
           /\ LeaseHolders' = [LeaseHolders EXCEPT ![workers[w].job] = {}]
           /\ LeaseBusy' = [LeaseBusy EXCEPT ![w] = BusyWith(w)']
<1>0. TypeOK /\ NoJob \notin Jobs
  BY RefinementFacts
<1>1. PICK j \in Jobs : j = workers[w].job /\ Owner(w, j)
  BY DEF OwnsClaim, Owner
<1>2. rows'[j] = r /\ \A i \in Jobs \ {j} : rows'[i] = rows[i]
  BY <1>0, <1>1 DEF TypeOK
<1>3. \A v \in Workers : ~Owner(v, j)'
  BY <1>2 DEF Owner
<1>4. ASSUME NEW v \in Workers, NEW i \in Jobs \ {j} PROVE Owner(v, i)' <=> Owner(v, i)
  <2>1. CASE v = w
    BY <1>0, <1>1, <2>1 DEF Owner
  <2>2. CASE v # w
    BY <1>2, <2>2 DEF Owner
  <2> QED
    BY <2>1, <2>2
<1>5. LeaseJobs' = [LeaseJobs EXCEPT ![j] = LeaseOf(r.status)]
  <2>1. \A i \in Jobs : LeaseOf(rows'[i].status) =
                          IF i = j THEN LeaseOf(r.status) ELSE LeaseOf(rows[i].status)
    BY <1>2
  <2>2. LeaseJobs' = [i \in Jobs |-> LeaseOf(rows'[i].status)]
    BY HoldersAreNext
  <2>3. LeaseJobs = [i \in Jobs |-> LeaseOf(rows[i].status)]
    BY DEF LeaseJobs
  <2> QED
    BY <2>1, <2>2, <2>3, ZenonT(20)
<1>6. LeaseHolders' = [LeaseHolders EXCEPT ![j] = {}] /\ w \in LeaseHolders[j]
  <2>1. LeaseHolders'[j] = {} /\ w \in LeaseHolders[j]
    BY <1>1, <1>3, HoldersAre, HoldersAreNext
  <2>2. \A i \in Jobs \ {j} : LeaseHolders'[i] = LeaseHolders[i]
    BY <1>4, HoldersAre, HoldersAreNext
  <2>3. LeaseHolders' = [i \in Jobs |-> LeaseHolders'[i]]
    BY DEF LeaseHolders
  <2>4. LeaseHolders = [i \in Jobs |-> LeaseHolders[i]]
    BY DEF LeaseHolders
  <2> QED
    BY <2>1, <2>2, <2>3, <2>4
<1>7. \A v \in Workers \ {w} : BusyWith(v)' = BusyWith(v)
  BY DEF BusyWith
<1>8. LeaseBusy' = [LeaseBusy EXCEPT ![w] = BusyWith(w)']
  BY <1>7, HoldersAre, HoldersAreNext
<1>9. LeaseBusy[w] = j
  BY <1>1 DEF LeaseBusy
<1>10. j = workers[w].job
  BY <1>1
<1> HIDE DEF BusyWith
<1> QED
  BY <1>5, <1>6, <1>8, <1>9, <1>10

\* A worker turns to something else.
LEMMA Releasing ==
    ASSUME RefinementInv, NEW w \in Workers, Release(w), rows' = rows,
           workers[w].pc \in {"handling", "failing", "completing"}
    PROVE  /\ LeaseBusy[w] # NoJob
           /\ LeaseHolders' = [j \in Jobs |-> LeaseHolders[j] \ {w}]
           /\ LeaseBusy' = [LeaseBusy EXCEPT ![w] = NoJob]
           /\ LeaseJobs' = LeaseJobs
<1>0. TypeOK /\ NoJob \notin Jobs /\ workers[w].job \in Jobs
  BY RefinementFacts
<1>1. /\ \A v \in Workers \ {w} : workers'[v] = workers[v]
      /\ workers'[w].job = NoJob /\ BusyWith(w)' = NoJob
  BY <1>0 DEF Release, TypeOK, IdleWorker, BusyWith
<1>2. ASSUME NEW v \in Workers, NEW j \in Jobs PROVE Owner(v, j)' <=> Owner(v, j) /\ v # w
  BY <1>0, <1>1 DEF Owner
<1>3. LeaseHolders' = [j \in Jobs |-> LeaseHolders[j] \ {w}]
  BY <1>2, HoldersAre, HoldersAreNext
<1>4. \A v \in Workers \ {w} : BusyWith(v)' = BusyWith(v)
  BY <1>1 DEF BusyWith
<1>5. LeaseBusy' = [LeaseBusy EXCEPT ![w] = NoJob] /\ LeaseBusy[w] # NoJob
  BY <1>0, <1>1, <1>4, HoldersAre, HoldersAreNext DEF BusyWith
<1>6. LeaseJobs' = LeaseJobs
  BY DEF LeaseJobs
<1> QED
  BY <1>3, <1>5, <1>6

\* A pass of RecoverStaleClaims.
LEMMA Recovering ==
    ASSUME RefinementInv, NEW w \in Workers, NEW S \in SUBSET ExpiredRows, Recover(w, S)
    PROVE  \E dead \in SUBSET S :
              /\ S # {} /\ S \subseteq {j \in Jobs : LeaseJobs[j] = "held"}
              /\ LeaseJobs' = [j \in Jobs |-> CASE j \in dead -> "closed"
                                                [] j \in S \ dead -> "waiting"
                                                [] OTHER -> LeaseJobs[j]]
              /\ LeaseHolders' = [j \in Jobs |-> IF j \in S THEN {} ELSE LeaseHolders[j]]
              /\ LeaseBusy' = LeaseBusy
<1>0. TypeOK /\ S \subseteq Jobs /\ S # {} /\ workers' = workers
      /\ rows' = [j \in Jobs |-> IF j \in S THEN RetryRow(rows[j]) ELSE rows[j]]
  BY RefinementFacts DEF Recover, ExpiredRows
<1>1. \A j \in S : LeaseJobs[j] = "held"
  BY DEF ExpiredRows, LeaseJobs, LeaseOf
<1> DEFINE dead == {j \in S : rows[j].attempts >= rows[j].max}
<1>2. ASSUME NEW j \in S PROVE rows'[j].status = IF j \in dead THEN "dead_lettered" ELSE "queued"
  <2>1. rows[j] \in Row /\ rows'[j] = RetryRow(rows[j])
    BY <1>0 DEF TypeOK
  <2> QED
    BY <2>1 DEF RetryRow, Row
<1>3. \A j \in Jobs \ S : rows'[j] = rows[j]
  BY <1>0
<1> HIDE DEF dead
<1>4. ASSUME NEW j \in Jobs
      PROVE  LeaseOf(rows'[j].status) = CASE j \in dead -> "closed"
                                          [] j \in S \ dead -> "waiting"
                                          [] OTHER -> LeaseJobs[j]
  <2>1. dead \subseteq S
    BY DEF dead
  <2> QED
    BY <1>2, <1>3, <2>1 DEF LeaseOf, LeaseJobs
<1>5. ASSUME NEW v \in Workers, NEW j \in Jobs PROVE Owner(v, j)' <=> Owner(v, j) /\ j \notin S
  <2>1. CASE j \in S
    BY <1>2, <2>1 DEF Owner
  <2>2. CASE j \notin S
    BY <1>0, <1>3, <2>2 DEF Owner
  <2> QED
    BY <2>1, <2>2
<1>6. LeaseJobs' = [j \in Jobs |-> CASE j \in dead -> "closed"
                                     [] j \in S \ dead -> "waiting"
                                     [] OTHER -> LeaseJobs[j]]
  BY <1>4, HoldersAreNext
<1>7. LeaseHolders' = [j \in Jobs |-> IF j \in S THEN {} ELSE LeaseHolders[j]]
  BY <1>5, HoldersAre, HoldersAreNext
<1>8. LeaseBusy' = LeaseBusy
  BY <1>0 DEF LeaseBusy
<1>9. dead \in SUBSET S
  BY DEF dead
<1> QED
  BY <1>0, <1>1, <1>6, <1>7, <1>8, <1>9

-----------------------------------------------------------------------------
(* Every step of the queue is a step of JobLease, or none.                 *)

LEMMA LeaseInitial == Init => Lease!LeaseInit
<1> SUFFICES ASSUME Init PROVE Lease!LeaseInit
  OBVIOUS
<1>1. LeaseJobs = [j \in Jobs |-> "absent"]
  BY DEF Init, LeaseJobs, LeaseOf, AbsentRow
<1>2. LeaseHolders = [j \in Jobs |-> {}]
  BY DEF Init, LeaseHolders, OwnsClaim, AbsentRow
<1>3. LeaseBusy = [w \in Workers |-> NoJob]
  BY DEF Init, LeaseBusy, IdleWorker
<1> QED
  BY <1>1, <1>2, <1>3 DEF Lease!LeaseInit, LeaseJobs, LeaseHolders, LeaseBusy

\* Fail, FailReplyLost: the holder hands its job back.
LEMMA FailGivesBack ==
    ASSUME RefinementInv, NEW w \in Workers, Fail(w) \/ FailReplyLost(w)
    PROVE  \E outcome \in {"waiting", "closed"} : Lease!GiveBack(w, outcome)
<1>0. /\ TypeOK /\ NoJob \notin Jobs /\ OwnsClaim(w) /\ workers[w].pc = "failing"
      /\ UpdateOwnRow(w, RetryRow)
      /\ GoTo(w, "notifying") \/ Release(w)
  BY RefinementFacts DEF Fail, FailReplyLost
<1>1. PICK j \in Jobs : j = workers[w].job
  BY <1>0 DEF OwnsClaim
<1>2. PICK r \in Row : r = RetryRow(rows[j])
  BY <1>0, RowUpdates DEF TypeOK
<1>3. rows' = [rows EXCEPT ![workers[w].job] = r]
  BY <1>0, <1>1, <1>2 DEF UpdateOwnRow
<1>4. r.status \in {"queued", "dead_lettered"}
  BY <1>0, <1>1, <1>2 DEF RetryRow, TypeOK, Row
<1>5. /\ \A v \in Workers \ {w} : workers'[v] = workers[v]
      /\ workers'[w].job \in {workers[w].job, NoJob}
      /\ BusyWith(w)' = NoJob
  <2>1. CASE GoTo(w, "notifying")
    BY <1>0, <2>1 DEF GoTo, TypeOK, Worker, BusyWith
  <2>2. CASE Release(w)
    BY <1>0, <2>2 DEF Release, IdleWorker, TypeOK, BusyWith
  <2> QED
    BY <1>0, <2>1, <2>2
<1>6. /\ LeaseBusy[w] = j /\ w \in LeaseHolders[j]
      /\ LeaseJobs' = [LeaseJobs EXCEPT ![j] = LeaseOf(r.status)]
      /\ LeaseHolders' = [LeaseHolders EXCEPT ![j] = {}]
      /\ LeaseBusy' = [LeaseBusy EXCEPT ![w] = NoJob]
  <2>1. workers[w].pc \in {"handling", "failing", "completing"} /\ r.status # "processing"
    BY <1>0, <1>4
  <2> QED
    BY <1>0, <1>1, <1>3, <1>5, <2>1, Ending
<1>7. LeaseOf(r.status) \in {"waiting", "closed"}
  BY <1>4 DEF LeaseOf
<1>8. Lease!GiveBack(w, LeaseOf(r.status))
  BY <1>1, <1>6 DEF Lease!GiveBack, Lease!Holds, LeaseJobs, LeaseHolders, LeaseBusy
<1> QED
  BY <1>7, <1>8

\* Complete, and a handler's own completion: the holder closes its job.
LEMMA CompletionCloses ==
    ASSUME RefinementInv, NEW w \in Workers, Complete(w) \/ HandlerCloses(w)
    PROVE  Lease!Close(w)
<1>0. /\ TypeOK /\ NoJob \notin Jobs /\ OwnsClaim(w)
      /\ workers[w].pc \in {"handling", "failing", "completing"}
      /\ UpdateOwnRow(w, CompleteRow)
  BY RefinementFacts DEF Complete, HandlerCloses
<1>1. PICK j \in Jobs : j = workers[w].job
  BY <1>0 DEF OwnsClaim
<1>2. PICK r \in Row : r = CompleteRow(rows[j])
  BY <1>0, RowUpdates DEF TypeOK
<1>3. rows' = [rows EXCEPT ![workers[w].job] = r]
  BY <1>0, <1>1, <1>2 DEF UpdateOwnRow
<1>4. r.status = "completed"
  BY <1>0, <1>1, <1>2 DEF CompleteRow, TypeOK, Row
<1>5. /\ \A v \in Workers \ {w} : workers'[v] = workers[v]
      /\ workers'[w].job \in {workers[w].job, NoJob}
      /\ BusyWith(w)' \in {j, NoJob}
  <2>1. CASE Complete(w)
    BY <1>0, <2>1 DEF Complete, Release, IdleWorker, TypeOK, BusyWith
  <2>2. CASE HandlerCloses(w)
    BY <1>0, <1>1, <2>2 DEF HandlerCloses, TypeOK, Worker, BusyWith
  <2> QED
    BY <2>1, <2>2
<1>6. /\ LeaseBusy[w] = j /\ w \in LeaseHolders[j]
      /\ LeaseJobs' = [LeaseJobs EXCEPT ![j] = LeaseOf(r.status)]
      /\ LeaseHolders' = [LeaseHolders EXCEPT ![j] = {}]
      /\ LeaseBusy' = [LeaseBusy EXCEPT ![w] = BusyWith(w)']
  BY <1>0, <1>1, <1>3, <1>4, <1>5, Ending
<1>7. LeaseOf(r.status) = "closed"
  BY <1>4 DEF LeaseOf
<1>8. LeaseBusy' \in {LeaseBusy, [LeaseBusy EXCEPT ![w] = NoJob]}
  <2>1. CASE BusyWith(w)' = NoJob
    BY <1>6, <2>1
  <2>2. CASE BusyWith(w)' = j
    BY <1>6, <2>2 DEF LeaseBusy
  <2> QED
    BY <1>5, <2>1, <2>2
<1> QED
  BY <1>1, <1>6, <1>7, <1>8 DEF Lease!Close, Lease!Holds, LeaseJobs, LeaseHolders, LeaseBusy

\* Nothing changes for JobLease.
Quiet == LeaseJobs' = LeaseJobs /\ LeaseHolders' = LeaseHolders /\ LeaseBusy' = LeaseBusy

LEMMA QuietStutters == Quiet => UNCHANGED Lease!leaseVars
BY DEF Quiet, Lease!leaseVars, LeaseJobs, LeaseHolders, LeaseBusy

LEMMA WorkerStepsLease ==
    ASSUME RefinementInv, NEW w \in Workers, WorkerStep(w)
    PROVE  Lease!LeaseNext \/ Quiet
<1>0. TypeOK /\ NoJob \notin Jobs
  BY RefinementFacts
<1>1. CASE Claim(w)
  <2>1. PICK j \in Jobs :
           /\ LeaseBusy[w] = NoJob /\ LeaseJobs[j] = "waiting"
           /\ LeaseJobs' = [LeaseJobs EXCEPT ![j] = "held"]
           /\ LeaseHolders' = [LeaseHolders EXCEPT ![j] = {w}]
           /\ LeaseBusy' = [LeaseBusy EXCEPT ![w] = j]
    BY <1>1, ClaimGrants
  <2>2. Lease!Grant(w, j)
    BY <2>1 DEF Lease!Grant, LeaseJobs, LeaseHolders, LeaseBusy
  <2> QED
    BY <2>2 DEF Lease!LeaseNext
<1>2. CASE ClaimReplyLost(w)
  <2>1. PICK j \in Jobs : /\ LeaseJobs[j] = "waiting"
                          /\ LeaseJobs' = [LeaseJobs EXCEPT ![j] = "held"]
                          /\ LeaseHolders' = LeaseHolders /\ LeaseBusy' = LeaseBusy
    BY <1>2, ClaimLostGrants
  <2>2. Lease!GrantLost(j)
    BY <2>1 DEF Lease!GrantLost, LeaseJobs, LeaseHolders, LeaseBusy
  <2> QED
    BY <2>2 DEF Lease!LeaseNext
<1>3. CASE RenewClaim(w)
  <2>1. CASE OwnsClaim(w)
    <3>1. PICK i \in Jobs : i = workers[w].job
      BY <2>1 DEF OwnsClaim
    <3>2. PICK r : r = [rows[i] EXCEPT !.expired = FALSE]
      OBVIOUS
    <3>3. r \in Row /\ r.status = rows[i].status /\ r.token = rows[i].token
      BY <1>0, <3>2 DEF TypeOK, Row
    <3>4. rows' = [rows EXCEPT ![i] = r] /\ workers' = workers
      BY <1>0, <1>3, <2>1, <3>1, <3>2 DEF RenewClaim, TypeOK
    <3> QED
      BY <1>0, <3>3, <3>4, UnseenRow DEF Quiet
  <2>2. CASE ~OwnsClaim(w)
    <3>1. rows' = rows /\ workers' = [workers EXCEPT ![w].lost = TRUE]
      BY <1>3, <2>2 DEF RenewClaim
    <3>2. \A v \in Workers : /\ workers'[v].job = workers[v].job
                             /\ workers'[v].token = workers[v].token
                             /\ workers'[v].pc = "notifying" <=> workers[v].pc = "notifying"
      BY <1>0, <3>1 DEF TypeOK, Worker
    <3> QED
      BY <1>0, <3>1, <3>2, UnseenWorker DEF Quiet
  <2> QED
    BY <2>1, <2>2
<1>4. CASE Complete(w) \/ HandlerCloses(w)
  BY <1>4, CompletionCloses DEF Lease!LeaseNext
<1>5. CASE Fail(w) \/ FailReplyLost(w)
  BY <1>5, FailGivesBack DEF Lease!LeaseNext
<1>6. ASSUME Release(w), rows' = rows, workers[w].pc \in {"handling", "failing", "completing"}
      PROVE  Lease!Leave(w)
  <2>1. /\ LeaseBusy[w] # NoJob
        /\ LeaseHolders' = [j \in Jobs |-> LeaseHolders[j] \ {w}]
        /\ LeaseBusy' = [LeaseBusy EXCEPT ![w] = NoJob]
        /\ LeaseJobs' = LeaseJobs
    BY <1>6, Releasing
  <2> QED
    BY <2>1 DEF Lease!Leave, LeaseJobs, LeaseHolders, LeaseBusy
<1>7. CASE CloseFails(w)
  BY <1>6, <1>7 DEF CloseFails, Lease!LeaseNext
<1>8. ASSUME NEW err \in BOOLEAN, HandlerReturns(w, err) PROVE Lease!LeaseNext \/ Quiet
  <2>1. rows' = rows /\ workers[w].pc = "handling"
    BY <1>8 DEF HandlerReturns
  <2>2. CASE Release(w)
    BY <1>6, <2>1, <2>2 DEF Lease!LeaseNext
  <2>3. ASSUME GoTo(w, "failing") \/ GoTo(w, "completing") PROVE Quiet
    <3>1. \A v \in Workers : /\ workers'[v].job = workers[v].job
                             /\ workers'[v].token = workers[v].token
                             /\ workers'[v].pc = "notifying" <=> workers[v].pc = "notifying"
      BY <1>0, <2>1, <2>3 DEF TypeOK, Worker, GoTo
    <3>2. LeaseJobs' = LeaseJobs /\ LeaseHolders' = LeaseHolders /\ LeaseBusy' = LeaseBusy
      <4>1. TypeOK /\ rows' = rows
        BY <1>0, <2>1
      <4> QED
        BY <3>1, <4>1, UnseenWorker
    <3> QED
      BY <3>2 DEF Quiet
  <2> QED
    BY <1>8, <2>2, <2>3 DEF HandlerReturns
<1>9. CASE Notify(w)
  <2>1. /\ workers[w].pc = "notifying" /\ Release(w) /\ rows' = rows
        /\ workers[w].job \in Jobs /\ rows[workers[w].job].status # "processing"
    BY <1>9, RefinementFacts DEF Notify
  <2>2. /\ \A v \in Workers \ {w} : workers'[v] = workers[v]
        /\ workers'[w].job = NoJob
    BY <1>0, <2>1 DEF Release, TypeOK, IdleWorker
  <2>3. ASSUME NEW v \in Workers, NEW j \in Jobs PROVE Owner(v, j)' <=> Owner(v, j)
    BY <1>0, <2>1, <2>2 DEF Owner
  <2>4. ASSUME NEW v \in Workers PROVE BusyWith(v)' = BusyWith(v)
    BY <2>1, <2>2 DEF BusyWith
  <2>5. \A j \in Jobs : LeaseOf(rows'[j].status) = LeaseOf(rows[j].status)
    BY <2>1
  <2> QED
    BY <2>3, <2>4, <2>5, Unseen DEF Quiet
<1>10. ASSUME NEW S \in SUBSET ExpiredRows, Recover(w, S) PROVE Lease!LeaseNext
  <2>1. PICK dead \in SUBSET S :
           /\ S # {} /\ S \subseteq {j \in Jobs : LeaseJobs[j] = "held"}
           /\ LeaseJobs' = [j \in Jobs |-> CASE j \in dead -> "closed"
                                             [] j \in S \ dead -> "waiting"
                                             [] OTHER -> LeaseJobs[j]]
           /\ LeaseHolders' = [j \in Jobs |-> IF j \in S THEN {} ELSE LeaseHolders[j]]
           /\ LeaseBusy' = LeaseBusy
    BY <1>10, Recovering
  <2>2. Lease!TakeAway(S, dead)
    BY <2>1 DEF Lease!TakeAway, LeaseJobs, LeaseHolders, LeaseBusy
  <2>3. S \in SUBSET Jobs
    BY DEF ExpiredRows
  <2> QED
    BY <2>2, <2>3 DEF Lease!LeaseNext
<1>11. CASE NotifyRecovered(w)
  BY <1>11 DEF NotifyRecovered, Quiet, LeaseJobs, LeaseHolders, LeaseBusy, OwnsClaim
<1> QED
  BY <1>1, <1>2, <1>3, <1>4, <1>5, <1>7, <1>8, <1>9, <1>10, <1>11 DEF WorkerStep

LEMMA OtherStepsLease ==
    ASSUME RefinementInv, [Next]_queueVars, ~ \E w \in Workers : WorkerStep(w)
    PROVE  Lease!LeaseNext \/ Quiet
<1>0. TypeOK /\ NoJob \notin Jobs
  BY RefinementFacts
<1>1. ASSUME rows' = rows, workers' = workers PROVE Quiet
  BY <1>1 DEF Quiet, LeaseJobs, LeaseHolders, LeaseBusy, OwnsClaim
<1>2. ASSUME NEW j \in Jobs, Enqueue(j) PROVE Lease!LeaseNext
  <2>1. rows[j].status = "absent" /\ workers' = workers
        /\ rows'[j].status = "queued" /\ \A i \in Jobs \ {j} : rows'[i] = rows[i]
    BY <1>0, <1>2 DEF Enqueue, NewRow, TypeOK
  <2>2. LeaseJobs[j] = "absent" /\ LeaseJobs' = [LeaseJobs EXCEPT ![j] = "waiting"]
    BY <2>1, HoldersAreNext DEF LeaseJobs, LeaseOf
  <2>3. ASSUME NEW v \in Workers, NEW i \in Jobs PROVE Owner(v, i)' <=> Owner(v, i)
    BY <2>1 DEF Owner
  <2>4. LeaseHolders' = LeaseHolders
    BY <2>3, HoldersAre, HoldersAreNext
  <2>5. LeaseBusy' = LeaseBusy
    BY <2>1 DEF LeaseBusy
  <2>6. Lease!Submit(j)
    BY <2>2, <2>4, <2>5 DEF Lease!Submit, LeaseJobs, LeaseHolders, LeaseBusy
  <2> QED
    BY <2>6 DEF Lease!LeaseNext
<1>3. ASSUME NEW j \in Jobs, BackoffElapses(j) \/ ClaimExpires(j) \/ PurgeOldJobs(j) PROVE Quiet
  <2>1. PICK r : r = rows'[j]
    OBVIOUS
  <2>2. workers' = workers /\ rows' = [rows EXCEPT ![j] = r]
    BY <1>0, <1>3, <2>1 DEF BackoffElapses, ClaimExpires, PurgeOldJobs, TypeOK
  <2>3. /\ r \in Row /\ r.token = rows[j].token
        /\ \/ r.status = rows[j].status
           \/ r.status = "purged" /\ rows[j].status \in {"completed", "dead_lettered"}
    <3>0. rows[j] \in Row
      BY <1>0 DEF TypeOK
    <3>1. CASE BackoffElapses(j)
      <4>1. r = [rows[j] EXCEPT !.due = TRUE]
        BY <1>0, <2>1, <3>1 DEF BackoffElapses, TypeOK
      <4> QED
        BY <3>0, <4>1 DEF Row
    <3>2. CASE ClaimExpires(j)
      <4>1. r = [rows[j] EXCEPT !.expired = TRUE]
        BY <1>0, <2>1, <3>2 DEF ClaimExpires, TypeOK
      <4> QED
        BY <3>0, <4>1 DEF Row
    <3>3. CASE PurgeOldJobs(j)
      <4>1. r = [rows[j] EXCEPT !.status = "purged"] /\ rows[j].status \in {"completed", "dead_lettered"}
        BY <1>0, <2>1, <3>3 DEF PurgeOldJobs, TypeOK
      <4> QED
        BY <3>0, <4>1 DEF Row, RowStatus
    <3> QED
      BY <1>3, <3>1, <3>2, <3>3
  <2>4. LeaseOf(r.status) = LeaseOf(rows[j].status)
    BY <2>3 DEF LeaseOf
  <2> QED
    BY <1>0, <2>2, <2>3, <2>4, UnseenRow DEF Quiet
<1>4. CASE Crash
  <2>1. rows' = rows /\ \A w \in Workers : workers'[w].job = NoJob
    BY <1>4 DEF Crash, IdleWorker
  <2>2. ASSUME NEW v \in Workers, NEW j \in Jobs PROVE ~Owner(v, j)'
    BY <1>0, <2>1 DEF Owner
  <2>3. LeaseHolders' = [j \in Jobs |-> {}]
    BY <2>2, HoldersAreNext
  <2>4. LeaseBusy' = [w \in Workers |-> NoJob]
    BY <2>1, HoldersAreNext DEF BusyWith
  <2>5. LeaseJobs' = LeaseJobs
    BY <2>1 DEF LeaseJobs
  <2> QED
    BY <2>3, <2>4, <2>5 DEF Lease!LeaseNext, Lease!StopAll, LeaseJobs, LeaseHolders, LeaseBusy
<1>5. ASSUME NEW limit \in AttemptLimits, SetMaxAttempts(limit) PROVE Quiet
  BY <1>1, <1>5 DEF SetMaxAttempts
<1>6. CASE UNCHANGED queueVars
  BY <1>1, <1>6 DEF queueVars
<1> QED
  BY <1>2, <1>3, <1>4, <1>5, <1>6 DEF Next, JobStep

\* For any jobs, workers and attempt limits, the PostgreSQL queue with its
\* tokens, retries, lost replies, recovery loops and crashes implements
\* JobLease: a job has at most one holder, only the holder closes it or hands it
\* back, and what is closed stays closed.
THEOREM LeaseImplemented == Spec => LeaseRefinement
<1>1. Spec => []RefinementInv
  <2>1. Init => IdleInv
    BY IdleInitial
  <2>2. FencingInv /\ NoticeInv /\ IdleInv /\ [Next]_queueVars => IdleInv'
    BY IdleInductive DEF FencingInv
  <2> QED
    BY <2>1, <2>2, QueueInvariant, PTL DEF Spec, RefinementInv
<1>2. RefinementInv /\ [Next]_queueVars => [Lease!LeaseNext]_(Lease!leaseVars)
  BY WorkerStepsLease, OtherStepsLease, QuietStutters
<1> QED
  BY <1>1, <1>2, LeaseInitial, PTL DEF Spec, LeaseRefinement, Lease!LeaseSpec
=============================================================================
