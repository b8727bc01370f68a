# LabTether: TLA+ models of the hub's job, schedule, agent and file-session layers

LabTether is a self-hosted control plane: one hub process (Go, PostgreSQL)
accepts commands, actions, updates and schedules over HTTP and carries them out
on machines through agents, SSH or connectors. What must not go wrong is that
work is executed twice, that a record lies about what happened, that something
hangs for ever after a crash, and that the hub's picture of its agents and
remote sessions drifts from what is there. Four layers of the hub carry this:

* the durable job queue, the handlers whose business records move in the same
  transactions as the queue rows, and the scheduler that feeds the queue;
* the agent connection manager with the goroutines that register, replace,
  check, sweep and remove connections;
* the routing of commands to a connected agent and of its answers back;
* the pool of remote file sessions, its callers and the edits that must evict.

This directory models them, checks them with TLC and proves their safety
properties with TLAPS.

## 1. Inventory

| Component | State | Operations | Interacts with |
|---|---|---|---|
| Job queue (`internal/jobqueue`) | table `job_queue`: status, attempts, max_attempts, available_at, locked_at, lock_token; one snapshot per worker loop | `Enqueue`, `Claim`, `RenewClaim`, `Complete`, `Fail`, `RecoverStaleClaims`, `PurgeOldJobs`, `SetMaxAttempts`, worker loop, heartbeat, dead-letter callback | handlers (callback), dead-letter finalizer (inside its transactions) |
| Claim-fenced execution (`internal/persistence/postgres_job_*.go`, `internal/hubapi/worker`) | `terminal_commands`, `action_runs`, `update_runs` | `BeginJobExecution`, `FinishJobExecution`, `FinalizeDeadJobInTransaction`, the three job handlers | queue rows under `lock_token`, executors |
| Submission API (`actionspkg`, `terminal`, `updatespkg`) | the request in flight | create record, `Enqueue`, mark the record failed on an error, delete records | both of the above |
| Scheduled tasks (`internal/schedules`, `schedulespkg`, `postgres_schedules.go`) | `scheduled_tasks`: enabled, cron, next_run_at, last_run_status, last_run_job_id | scheduler pass, `ClaimScheduledTaskExecution`, `InitializeScheduledTaskNextRun`, `MarkScheduledTaskInvalid`, PATCH, DELETE | inserts queue rows |
| Schedule job handler (`schedule_job_handler.go`, `postgres_scheduled_job_actions.go`) | one goroutine per target, child `action_runs` | resolve targets, start and finish child actions, aggregate | queue, schedules, agents |
| Agent connection manager (`internal/agentmgr`, `cmd/labtether/agent_ws_*.go`, `worker/presence_cleanup.go`) | connection per asset, admission counters, lifecycle locks; `agent_presence`, `assets.transport_type`, `agent_tokens` | admit, register, replace, dispatch, ping, unregister, sweep, revoke, re-enroll, delete | database, browsers (broadcasts), executors |
| Lifecycle locks (`agentmgr/lifecycle.go`) | map of reference-counted mutexes | lock, release | the manager |
| Agent command routing (`hubapi/agents/agent_command_routing.go`, `shared/pending_agent_command.go`) | map of pending requests, one-slot result channels | reserve, write, wait, deliver | manager, queue handlers, the agent |
| File session pool (`internal/fileproto/pool.go`, `hubapi/resources/file_*.go`) | sessions, generations, leases, gates; saved connections | acquire, get, insert, release, evict, reap, close; browse, transfer, edit, delete | remote hosts |
| Hub runtime lease (`postgres_runtime_lease.go`) | advisory lock of one session | acquire, watch, release | everything a hub runs |
| Alert evaluation, notification delivery | alert instances, delivery records | evaluation pass, retry, digest | channels |
| Retention, runtime settings, dead-letter reporting, executors, enrollment, authentication, bridges, collectors, telemetry, webhooks, inventory, file protocols, certificates, MCP, web console | see `PROJECT.json` | | |

What is hard here, and which properties are about it:

* Interleaving: a claim expires and is given to a second worker while the first
  still runs; a socket is replaced while its read loop, its ping goroutine and an
  administrator all want to remove it; a lock entry is forgotten while somebody
  waits for it. (`UniqueOwner`, `LeaseRefinement`, `VerdictIsFinal`,
  `CleanupOnce`, `EntryWhileUsed`, `ImplementsMutex`)
* Lost, late and repeated messages: a statement commits and its caller sees an
  error; an answer of an agent arrives late, twice or over its next connection.
  (`DropsOnlyEndedClaims`, `AtMostOneEffect`, `AnswerIsOwn`,
  `NotSentIsTruthful`, `EnqueueFailureMeansNotExecuted`)
* Crashes between the dispatch marker, the external effect and the result.
  (`AtMostOneEffect`, `VerdictTruthful`, `EveryRunSettles`, `CommandSentOnce`)
* Two places that must agree: queue row and business record, schedule and child
  action runs, connection map and presence rows, pool and open sessions.
  (`ClosedJobHasVerdict`, `UnfinishedHasJob`, `NoOrphanChild`,
  `PresenceFollowsConnection`, `AnnouncementsFollowConnection`,
  `NoLeakedSession`)
* Stale snapshots: a worker's attempt counter, a scheduler's due time, a PATCH's
  view of the row, a credential checked before it is revoked, a configuration
  loaded before an edit. (`DeadLetterReportedOnce`, `OccurrenceEndsWithItsJob`,
  `EditKeepsClaim`, `RevokedDropped`, `NoStaleSession`, `ConnectedIsOnline`)
* Boundaries and resources: the attempt budget, the backoff exponent, admission
  slots, pending entries, generations. (`BudgetRespected`, `AdmissionsExact`,
  `PendingExact`, `GenerationsTrackUse`)
* Progress: every job, run, attempt, edit and waiter ends. (`EveryJobCloses`,
  `EveryRunSettles`, `AttemptsReturn`, `ReadersGoOn`, `EditsFinish`,
  `EveryWaiterEnters`, `RemovedSocketsEnd`)

`PROJECT.json` lists the hazards with the line where each of them bites.

## 2. Modules

| Module | Contents |
|---|---|
| `JobQueue` | the table, the worker loops, heartbeat, recovery, purge; the handler is opaque |
| `JobLease` | abstract specification: what the queue promises to its users |
| `JobQueueRefinement` | the refinement mapping from `JobQueue` to `JobLease` |
| `JobExecution` | `EXTENDS JobQueue`: the handler spelled out, with business records and API requests |
| `ScheduleRun` | `EXTENDS JobLease`: scheduler, PATCH and DELETE, and the schedule job handler over the queue's abstract promise |
| `AgentManager` | connections, admissions, presence, credentials, sweep, administrator; over one mutex per asset |
| `KeyedMutex` | abstract specification: one mutex per asset |
| `AssetLifecycle` | the lock table, with the mapping to `KeyedMutex` |
| `AgentCommand` | requests to a connected agent and the delivery of its answers |
| `FilePool` | the pool, browsing requests, transfers, edits |
| `MC...` | symmetry sets and constant functions for TLC |
| `...Proofs` | theorems and proofs, one module per component (`JobQueueRefinementProofs` for the refinement) |

The layers are connected: the handlers of `JobExecution` do to the queue only
what `JobQueue` allows (`QueueRefinement`); the queue keeps the promise that
`ScheduleRun` is built on (`LeaseRefinement`); the lock table keeps the one that
`AgentManager` is built on (`ImplementsMutex`). All three are proved.

Mutated forms of a definition stand before it, named after the mistake
(`RetryRowOffByOne`, `RetainFresh`, ...). No specification uses them; each one
shows that the property it is paired with in `PROJECT.json` would notice such a
mistake.

### JobQueue

Every SQL statement or transaction is one step. Time enters through two
booleans of a row: `due` is `available_at <= now()`, `expired` is
`locked_at < now() - staleClaimAt`. `BackoffElapses` and `ClaimExpires` are the
passing of time, so a lease may expire at any moment of a handler's run,
including right before the commit of its result. `idgen`'s lock tokens are the
numbers `1, 2, ...` in order of generation. A worker is `idle`, `handling`,
`failing` (a call of `Fail` is due), `completing` (of `Complete`) or `notifying`
(of the dead-letter callback); it carries the snapshot it claimed with.
`exhausted` in that snapshot is what `processOneWithQueue` later compares to
decide about the callback. A commit whose acknowledgement is lost is modelled for
`Claim`, `Fail`, the handler's own transaction and `RecoverStaleClaims`.
`Recover` takes any nonempty subset of the expired claims, because of its LIMIT
and SKIP LOCKED, and finds no batch that contains a row whose backoff does not
fit a 4-byte integer: such a row makes the UPDATE, hence the transaction, fail.
`Claim` likewise may pick any due row. `Crash` removes all workers and leaves the
table: this is a restart of the hub.

### JobExecution

One job has one business record. Terminal commands, action runs and update runs
have the same control flow (decode, begin, decide, execute, finish) and differ
in their tables, so `records[j]` is a status with the reason it was given:
`interrupted`, `not_executed`, `blocked` and `enqueue_failed` are all "failed" in
the tables, with different error texts. `effects[j]` counts executions; it is a
ghost. `StartHandler` ... `Return` are the stages of a handler. The dead-letter
finalizer is part of the step that dead-letters the row (`FailAndFinalize`,
`RecoverAndFinalize`), as in the code, where it runs in that transaction.
A panic of an executor is the error branch of `Dispatch`: the handler's work ends
without a result and the worker calls `Fail`.

### ScheduleRun

One schedule, due at each tick of the clock. `ExecutionJobID` derives the id of
an occurrence's job from schedule and due time, hence jobs are times. A pass is
`Scan` followed by one of `MarkInvalid`, `InitializeNextRun`, `ClaimOccurrence`,
`ClaimMisses`; between the two anything may happen. A PATCH is `EditRead`, in
which `next_run_at` is computed, and `EditWrite`. `OwnerStatus` is what
`lockJobBusiness` makes of the row: `superseded` when the schedule is gone or its
`last_run_job_id` names another job, `disabled` when a queued occurrence meets a
disabled schedule. The handler runs one goroutine per target. Initial states
include rows from before automatic execution: no `next_run_at`, and possibly a
cron expression that does not parse.

### AgentManager and AssetLifecycle

A connection is registered, replaced, used and removed in a section of its
asset, the code between `lockAssetLifecycle` and its release. `section[a]` says
which operation is inside, on behalf of which connection, and at which of its
statements: the statements of a section are separate steps, because the database,
the admission counters, the sweep and the readers of the manager do not take the
lifecycle lock. `handler[c]` and `pinger[c]` are the two goroutines of a socket;
`sweep` is the presence cleanup loop between its list, its check, its
session-fenced delete and its write of `transport_type`; `admin` is a request
that revokes a token (listing the connections first, revoking then), lets a
device enroll again or deletes it. A store write may fail (`Events` has `fault`),
which the handler logs and survives; `lapsed` remembers it, because the presence
row may then be anything. `Crash` loses the process and keeps the tables. A
presence session is named by its connection. Message contents, bridges and
caches are left out.

`AssetLifecycle` is the lock itself: a map from asset to a reference-counted
mutex that the first user makes and the last one forgets. An entry is an address,
and an address nobody refers to may be handed out again. `KeyedMutex` is what
`AgentManager` assumes of it.

### AgentCommand

An attempt reserves its job (the logical key), then its wire id, sends, and waits
for an answer, its context, the end of the connection or a timer; on the way out
it frees both in the reverse order, each with a compare-and-delete. Attempts of
the queue's handlers are `Private`: their wire id is fresh. The read loop of a
connection loads the pending entry (`Deliver`) and sends into its one-slot
channel (`Send`), in two steps. The agent is external: it may answer any request
that reached it, any number of times, over whatever connection it has by then.

### FilePool

A browsing request acquires a generation of its connection's id, loads the
connection, looks for a session, probes it or dials, and inserts what it dialled
if its generation is still the id's. A transfer has a pool id of its own and
holds the connection's gate for reading from validation on. An edit or deletion
holds the gate for writing, writes the row and evicts before it lets go.
`closed`, the idle reaper and the shutdown are steps that may come anywhere. A
configuration is the version of the saved connection it was built from.

## 3. Runs

| Run | Instance | Distinct states | Result |
|---|---|---|---|
| `queue` | 2 jobs (one without handler), 2 workers, limits 1 and 2 | 161,654 | passes |
| `queue_backoff` | 1 job, 1 worker, limit 33 | 1,016 | finding 1 |
| `execution` | 1 job, 2 workers, limits 1 to 3 | 261,099 | passes |
| `enqueue_failure` | 1 job, 1 worker, limit 1 | small | finding 2 |
| `schedule` | 2 occurrences, 2 workers, 1 target, 1 editor that pauses, resumes or changes the cron expression | 2,425,001 | passes |
| `schedule_edit` | 2 occurrences, 2 editors that both resume | small | finding 3 |
| `agent_connections` | 1 asset, 3 connections of one source and token, limits 3 and 2 per source, failing writes, ageing rows, 1 restart | 2,383,272 | passes |
| `agent_liveness` | 1 asset, 2 connections, 2 tokens, revocation, re-enrollment, deletion | 84,131 | passes |
| `transport_race` | 2 connections of one token, ageing rows, 1 restart | small | finding 4 |
| `lifecycle_lock` | 2 assets, 3 goroutines, 3 addresses | 1,507 | passes |
| `agent_commands` | 1 job delivered twice, 3 successive connections | 127,190 | passes |
| `file_pool` | 1 saved connection, 2 browsers, 1 transfer, 2 versions and a deletion | 1,012,218 | passes |

What they show:

* `queue`: claims are exclusive through their tokens whatever expires and is
  recovered; the attempt budget is exact; a dead letter is reported once at most,
  although worker and recovery loops both report; a worker gives a job up only
  when its claim has ended, although its heartbeat races its commit; the queue
  implements `JobLease`
  (so nobody but the holder or recovery ends a claim, and a closed job stays
  closed); and every enqueued job is closed.
* `execution`: at most one execution per job; records tell the truth about it and
  are not revised; queue row and record are settled together; the handlers use
  the queue as `JobQueue` says; every run whose job reached the queue gets a
  verdict.
* `schedule`: one command per occurrence and target, no child action left running,
  an honest `last_run_status`, child outcomes that stay, an unfinished occurrence
  that always has its job, pausing that stops further targets, and a late handler
  that cannot write over its successor.
* `agent_connections`: the admission counters are exact on every way out and
  never above the limits, where the third socket is refused until one of the
  others has given its admission back; the disconnect cleanup of a connection runs once, never while it is current, and
  has run when its handler leaves; messages are handled for the current
  connection only; broadcasts and presence rows follow the map.
* `agent_liveness`: a connection whose credential is gone does not stay
  registered, even if it registered after the revocation had listed the
  connections; a removed socket gives its admission back; the cleanup runs once
  when revocation, re-enrollment or deletion removes connections too.
* `lifecycle_lock`: entries live exactly while used, the table implements one
  mutex per asset, and every waiter gets in.
* `agent_commands`: an answer reaches only the attempt it belongs to; a job has
  one request under way; the pending map is exact; "not sent" is true; every
  attempt returns and no read loop is blocked.
* `file_pool`: after an edit no session of the older configuration is in the pool;
  no session stays open outside it; generations do not accumulate; an edit
  finishes.

Bounds. Two workers are what a stale owner, its successor and a recovery pass
need; jobs interact only through recovery batches, for which two suffice. A limit
of 2 gives one redelivery and 3 a redelivery of a redelivery. A second occurrence
(`Horizon = 2`) is what a late handler can be superseded by. `schedule` has one
target, so children of one occurrence with different outcomes, and the `partial`
clause of `RunStatusTruthful`, do not occur in it: the theorems of section 4
cover any number of targets. (With `Jobs = {1}`, `Horizon = 1` and two targets
the same properties hold in all 245,734 states; two occurrences with two targets
are too many states to enumerate.) Sections of different assets share the
admission counters and the sweep, which handles one asset at a time, so one asset
with two connections has every race between a connection and its successor. The
third socket of `agent_connections` is what the source's limit refuses. The
administrator's requests are in `agent_liveness`, faults, ageing rows and the
restart in `agent_connections`; the theorems cover all of them together, with any
number of connections and any limits. Three connections let a late answer
meet the attempt, its retry and a retry's reconnect. Two browsers race each other
to insert, a transfer and an edit contend for the gate. `issued`, the only counter
without a bound in the code's own terms, is bounded by jobs times attempts.
`Horizon` (in `Tick`), `MaxCrashes`, `Events` and `MaxVersion` are the bounds added
to guards.

Symmetry: worker loops run the same code and are never compared by identity;
they are permuted in `schedule`. `agent_connections` permutes its three sockets,
which share asset, source and token. Neither run checks liveness.

Deadlock checking is off in the runs of `AgentManager`, `AgentCommand` and
`FilePool`: connections, attempts and callers are used once, and when all are
used up the instance has nothing left to do. It is on in the others.

Fairness. `Fairness` and `ExecFairness` (queue, execution) are weak: clocks
advance; worker loops poll every interval besides listening for NOTIFY, and are
started again after a crash; a handler returns, since executors and transactions
run under timeouts; the recovery loop ticks every 30 seconds. Nothing is assumed
of heartbeats, crashes, lost replies or purges. A statement may fail any number of
times (`CloseFails`); each delivery still uses up an attempt, and expired claims
are recovered. In particular crashes may recur for ever: each costs an attempt.
In `AgentManager` goroutines run, tickers tick, leases run out and a read on a
closed socket returns (weak); whoever waits for a lifecycle lock gets it in the
end (strong, as in `AssetLifecycle`): Go's `sync.Mutex` hands itself over to a
waiter that starves. Dials, messages, pongs and requests owe nothing. In
`AgentCommand` the goroutines of attempts and read loops run, a write ends by its
deadline and the timer fires; neither agent nor context owes anything. In
`FilePool` a transfer that has started goes on, because remote operations are
bounded by `MaxOperationDuration`, and so does an edit; browsers owe nothing.

## 4. Theorems

They hold for every value of the constants that the named assumptions of the
modules allow: sets of jobs, workers, targets, assets, connections and callers of
any size (finite where a count of them is compared with a counter of the code),
any limits, any mapping of connections to assets and of saved connections to
gates.

`JobQueueProofs` (from `JobsAssumption`)
* `TypeCorrect`, `BudgetCorrect`, `ClosedRowsFinal`. `RowSteps` lists what a step
  can do to a row, and the budget follows from it.
* `UniqueOwnerCorrect`, `DropsCorrect`. `UniqueOwner` is not inductive: a
  claim could hand out a token some stale worker still holds. `FencingInv` adds
  that tokens held are at most `issued` (`TokensFresh`), that busy workers hold
  distinct tokens (`TokensDistinct`), that the snapshot of a worker that owns its
  claim agrees with the row about exhaustion (`SnapshotCurrent`), that an
  acknowledged completion is in the table (`CompletionDurable`) and that a claim
  reported lost is not the worker's (`LostGone`, which freshness keeps true when
  the row is claimed again).
* `DeadLetterCorrect`. `NoticeInv` adds that a job has at most one report made or
  pending, over all worker and recovery loops, and only once its row is closed as
  a dead letter. It needs `SnapshotCurrent`: without it the worker's stale
  counter could announce a death that did not happen.
* `BackoffAlwaysFits`: under `SmallLimits` (every configurable limit is at most
  32) no row reaches an attempt count whose delay leaves `int4`. A row's limit is
  one that was configured (`LimitsConfigured`), and the budget bounds its attempts
  by that limit.

`JobQueueRefinementProofs`
* `LeaseImplemented`: the queue implements `JobLease`. `RefinementInv` is
  `FencingInv`, `NoticeInv` and that exactly idle workers have no job. Freshness of
  tokens makes a claim a `Grant` to one holder, distinctness makes the holder that
  ends a claim the only one, and `NoticeInv` makes the end of a dead-letter
  callback invisible. One lemma says what each kind of step does to the mapped
  variables (`Claiming`, `Ending`, `Releasing`, `Recovering`, `Unseen`).

`JobExecutionProofs`
* `ImplementsQueue`: each step of `JobExecution` is a step of `JobQueue` or leaves
  it alone. The queue's invariants are inherited through it (`ExecutionKeepsFences`),
  and so is its interface: `ExecutionImplementsLease` chains the two refinements.
* `AtMostOnce`, `VerdictsTruthful`. `MarkerInv`: at most one worker is
  active on a job, that is, between the durable dispatch marker and its result;
  while one is, the record is `running` or was closed by somebody else, never
  `queued` again, and the number of effects is exactly what that worker's stage
  implies; a record that says nothing was started has no effect, and one that
  says `succeeded` has one. The properties alone say nothing of the worker that
  is about to act, which is why they are not inductive.
* `VerdictsFinal`: an action property, from `RecordSteps`.
* `ClosedJobsSettled`. `ClosureInv` adds to the property that no row exists before
  its request has created the record and enqueues: otherwise a record could be
  created as `queued` for a row already closed.
* `EnqueueErrorsTruthful`: under `ErrorMeansNotInserted` (an `Enqueue` that reports
  an error has not committed) a run recorded as not enqueued never executes.
  `UnqueuedInv`: a request that has not had its answer has no row, a record that
  says "failed to enqueue" belongs to a job that never gets one, and a job without
  a row has no worker and no effect.

`ScheduleRunProofs` (from `ScheduleAssumption`)
* `ScheduleTypesRight`, `CommandsOnce`, `UnfinishedQueued`, `StatusTruthful`,
  `ChildOutcomesFinal`, `StartsEnabled`: from `RunInv`, for any number of scheduler
  loops. `RunInv` orders the records of an occurrence (job, child, command:
  `Layered`), says what `last_run_status` implies about them (`Current`), that at
  most one worker is dispatching an occurrence and the schedule is past `queued`
  then (`Dispatched`), and what a goroutine knows of its child (`Threaded`).
  `CommandSentOnce` needs the last two: the command counter is still 0 when a
  goroutine is about to send.
* `NoChildOrphaned`, `OccurrencesEndWithJobs`: under `OneScheduler`, which the
  runtime lease is there to give. `CloseInv` adds that a running child belongs to a
  job not closed and to the schedule's running occurrence (`Accounted`), and that a
  snapshot with a cron expression that did not parse is of a schedule without an
  occurrence under way (`Snapshots`). The second part fails with two loops: one may
  claim an occurrence of the repaired schedule while the other still has to call
  `MarkScheduledTaskInvalid`.
* `UsesLease`: every step of the schedule layer is, on the queue's variables, a
  step of `JobLease` or leaves them alone. `LeaseExclusive`: under `JobLease`, and
  so for the schedule handlers, a job has at most one holder, which is at work on
  it, and a closed job stays closed.
* `EditsKeepClaims`: under `OneScheduler` and `NoClaimOvertakes`, `next_run_at` of
  an enabled schedule is never an occurrence that has its job, for any number of
  requests in flight and every kind of change, new cron expressions included.
  `NoClaimOvertakes` says that between the read and the write of a request no
  occurrence is claimed at or after the `next_run_at` the request has computed;
  claims of earlier ones are allowed. `EditInv`: the clock, an active snapshot, the
  row and every request in flight lie after (or, clock and snapshot, at) everything
  claimed so far. Without the first hypothesis a loop that read `next_run_at` as
  NULL before another loop's claim can initialize it to the claimed occurrence.

`AgentManagerProofs` (from `AgentManagerAssumption`)
* `AgentManagerTypeCorrect`, `HandlersCurrent`, `AnnouncementsRight`. `SectionInv`
  says who owns the section of an asset (`Owned`), what each phase of each
  operation means for the map, the socket and the announcement (`Phased`), and
  that a connection is registered for its own asset (`Placed`).
* `AdmissionsRight`: the counters change together with the set they count.
* `CleanupsRight`. `CountInv` follows one connection: whether its cleanup is still
  owed, pending in a section or done (`Tally`), and that a ping goroutine that
  removes is at that point of its loop (`Pinged`).
* `PresenceRight`. `PresenceInv` says whose session a row may name in each phase
  (`RowFollows`), that a row is named after a connection that was published
  (`Published`), and that the sweep deletes only under a session that has ended
  (`Swept`).
* `OnlineUnlessSwept`: under `SweepCheckFresh` (at the cleanup loop's "offline"
  write the asset still has no connection) a connected agent is not recorded as
  offline. `OnlineInv` says so of every asset whose registration is through, and
  `TransportMoves` that outside the section of an asset only that loop and a
  deletion write its transport type.

`AssetLifecycleProofs` (from `LifecycleAssumption`)
* `LifecycleTypeCorrect`, `OneInsideCorrect`, `EntryWhileUsedCorrect`,
  `MutexImplemented`. `LifecycleInv`: a goroutine on its way through has the very
  entry the map has for its asset, no two assets share an entry, and an entry
  counts its users; so the last to leave is the last that could be waiting.

`AgentCommandProofs` (from `AgentCommandAssumption`)
* `AgentCommandTypeCorrect`, `AnswerIsOwnCorrect`, `OneInFlightCorrect`,
  `PendingExactCorrect`, `NotSentIsTruthfulCorrect`. `CommandInv`: reservations
  belong to their attempt from the moment it makes them until it frees them; an
  answer under way was looked up under the attempt's wire id, which no other
  attempt shares if it is private; a request the agent has belongs to an attempt
  past its write.

`FilePoolProofs` (from `FilePoolAssumption`)
* `FilePoolTypeCorrect`, `NoStaleSessionCorrect`. `StaleInv`: a browser that may
  still insert and whose generation is the id's has the current version, because
  an edit takes the generation away and numbers are never reused; a transfer that
  may still insert holds the gate, and an edit writes only while nobody does.
* `NoLeakedSessionCorrect`. `LeakInv`: a session is dialled once, is kept under its
  caller's pool id or is in that caller's hands, and a closed pool keeps none.
* `GenerationsTrackUseCorrect`: the property is inductive, one pool id at a time
  (`TrackedAt`): a step changes the lease count of an id together with the set of
  callers it counts, by one, and a generation is dropped, at the latest, when
  neither a session nor a lease is left.

The hypotheses `SmallLimits`, `ErrorMeansNotInserted`, `NoClaimOvertakes` and
`SweepCheckFresh` are not guaranteed by the code. Each is what one of the findings
below violates, and its theorem says that nothing else leads there (for
`NoClaimOvertakes`: nothing else while there is one scheduler); each has
behaviours of the model that satisfy it. `OneScheduler` is what the runtime lease
is for.

Only model-checked: the liveness properties (`EveryJobCloses`, `EveryRunSettles`,
`RevokedDropped`, `RemovedSocketsEnd`, `EveryWaiterEnters`, `AttemptsReturn`,
`ReadersGoOn`, `EditsFinish`), since fairness and ENABLED are outside the prover's
reach. Every invariant and every action property of the passing runs is proved.

## 5. Findings

1. `queue_backoff`. `Fail` and `RecoverStaleClaims` cast `power(2, attempts - 1)`
   to `int` before `LEAST(30, ...)` bounds it. With `max_attempts` of 33 or more,
   which the settings allow (up to 50), the 32nd failure overflows: the row stays
   `processing`, and as the oldest expired claim it fails every recovery batch it
   is in. Up to 32 nothing happens (`BackoffAlwaysFits`).
2. `enqueue_failure`. An error of `Enqueue` is answered by writing "failed to
   enqueue" into the record by id alone. If the insert had committed, the job runs
   all the same; its record may say so afterwards or be overwritten after the run.
   The lost reply is the only cause (`EnqueueErrorsTruthful`).
3. `schedule_edit`. Two PATCH requests that both resume a paused schedule and both
   read it first; if the scheduler claims an occurrence between their writes, the
   second write puts `next_run_at` back to that occurrence. Its job id exists, so
   each later pass rolls back on the primary key until the job is purged or the
   schedule is edited. With one scheduler the cause is always a claim between the
   read and the write of a request that sets `next_run_at` (`EditsKeepClaims`). A
   change of the cron expression is such a request and can do it by itself; the
   comment quoted in the finding leaves edits of the cadence out, so the run uses
   two resumes.
4. `transport_race`. The presence cleanup deletes the stale row of an ended session
   and then writes `transport_type` offline, outside any lifecycle section. An
   agent that reconnects between the two, as after a hub restart, is registered,
   present and recorded as offline until it connects again. It needs no restart:
   the loop may also look while a replaced connection is out of the map and its row
   not yet deleted. The session fence protects the presence row only
   (`PresenceFollowsConnection` holds), and this write is the only one that can
   break the transport type (`OnlineUnlessSwept`).

## 6. Not modelled

The modelled layers are a small part of the repository by lines: most of it are
HTTP endpoints, clients and translators of third-party systems, inventory views,
and a web console, which keep no state of their own beyond rows that are read and
written by one statement. What is left out, and why:

* Components marked `not_modelled` in `PROJECT.json`, with the reason there.
* Audit events, logs, NOTIFY (workers also poll); broadcasts, except the
  announcement of connections.
* Validation, authorization, capacity limits and creation of schedules; a PATCH
  that changes several fields at once; deletion of child action runs by hand.
* Purging of closed jobs in `ScheduleRun`. `JobQueue` has it; at the level of
  `JobLease` a purged job is a closed one.
* A hub that stops between creating a record and enqueueing its job: the record
  stays queued, and nothing in the code looks for it. `EveryRunSettles` is stated
  from the queue row on for that reason.
* The runtime lease. Its one consequence used here is the hypothesis
  `OneScheduler` of three theorems and the one scheduler of the schedule runs. With
  two schedulers `NoOrphanChild` and `OccurrenceEndsWithItsJob` fail, and
  `EditKeepsClaim` also when no claim overtakes a request; everything else is
  proved without it, and workers are anonymous in the job layer.
* The order in which `RecoverStaleClaims` takes expired claims (oldest first, 100
  at a time): `Recover` takes any set of them.
* Dead letters whose payload does not decode or does not match their record, which
  the finalizer passes over.
* Pending enrollments, whose sockets use the same admission counters.
* The two reads of `BrowseLoad` (saved connection and credential profile) are one
  step; the generation is checked after both.
* `executeUpdateViaAgent`, which has the control flow of `executeViaAgent`:
  `AgentCommand` is written from the latter and stands for both.
* What agent messages do, the web-service and docker caches, and the progress log
  of updates; the bytes of transfers and the operations on a session once a caller
  has it.

## 7. Plan

1. `HubRuntimeLease`: loss of the advisory lock while work is in flight, composed
   with `ScheduleRun` to discharge `OneScheduler`.
2. Alert instances and notification delivery: the instance state machine with its
   cursor, delivery records, retries, digests.
3. Power control and the webhook retry loop.
