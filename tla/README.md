# A TLA+ model of the batch scheduler

The repository is a small job scheduler: an HTTP server accepts *batches*
("generate thumbnails for this album"), expands each into *jobs* on resource
*lanes*, and worker processes claim, execute and settle the jobs. Everything the
processes agree on is in one SQL store (SQLite on one host); there is no broker.
These modules model that core, TLC checks it on small instances and TLAPS proves
its main properties for all of them.

## The system

| Component | State it keeps | Operations | How it interacts |
|---|---|---|---|
| Domain (`internal/domain/scheduling`) | none; methods of `Job`, `Batch`, `Lane` | `NewJob`, `Succeed`, `Fail`, `Reclaim`, `Cancel`, `Complete`, `BackoffFor`, validation | called by the use cases inside a transaction |
| SQL store (`adapter/outbound/sqlstore`) | tables `batches`, `jobs`, `job_events` | `Claim`, `Get`/`Update`, `ReclaimExpired`, `CancelByBatch`, `InsertMany`, `ListCompletable`, `Append`, listings, `WithTx`, `Migrate` | `BEGIN IMMEDIATE`, one connection per process, `busy_timeout` 5 s |
| `ProcessJob` | the job in hand, on the stack of one slot | claim, execute, settle success or failure, discard | store twice per job, with an unbounded execution between |
| `ReapExpired`, `CloseCompletedBatches` | none | one round each, with a limit | store, from the housekeeper of every worker process |
| `SubmitBatch`, `CancelBatch`, `QueryBatch` | none | one call per HTTP request | store; the submission looks its key up *before* its transaction |
| Pool (`adapter/inbound/worker`) | one goroutine (slot) per unit of lane capacity; token channel | poll, back off, stop with the context | calls `ProcessJob.Execute` |
| Worker process (`cmd/worker`) | its context, its identity `SCHED_WORKER_ID` | start, signal, wait, exit; crash | all slots and the housekeeper share one context and one lease owner |
| Server (`cmd/server`, `httpapi`) | none beyond requests | routing, identity, error mapping, shutdown | use cases |
| Executors, expander, config, ids, logging | none | external work, parsing | interfaces of the use cases |

What is hard here, and hard to test:

* several processes and slots claim, settle, reap, close and cancel through the
  same rows, and an execution separates the two transactions of one job;
* every use case reads the clock *before* its transaction and the transaction may
  wait (for the process's only connection and for the write lock), so capacity,
  availability and expiry are judged with an old reading;
* workers crash between claim and settlement and restart under the same identity;
  results arrive late; a failed settlement is logged and never repeated;
* the lease owner is the process, not the slot or the attempt;
* a signal cancels the very context with which results are recorded, so that only the
  lease's end brings the job back;
* idempotency rests on partial unique indexes and on keys joined with `:`;
* queries read outside transactions, and listings are paged by offset while rows
  are inserted and changed;
* every process migrates the shared database on every start, one autocommitted
  statement after another;
* the goroutines of a worker wait for one another when it is told to stop.

`PROJECT.json` lists these at their lines under "hazards". What makes each part
correct:

* store and domain: attempts bounded, terminal states final, live leases within
  the lane's capacity, a closed batch has only settled jobs, the trail agrees
  with the tables;
* slots against the store: no job is executed by two slots at once, a claim stays
  good until its deadline, executions stay within the lane's capacity;
* housekeeper: nothing is reclaimed early, a batch is closed once, expired leases
  and settled batches are eventually dealt with;
* submission: one batch per key, one job per derived key, every target served,
  the reply is true;
* queries: what a client is told is true when its call ends, and pages skip nothing;
* processes: none serves on a schema that is not whole or with a configuration that
  cannot work; the pool keeps its slots and its rate, and stops when it is told to.

## Modules

| Module | Models | Source |
|---|---|---|
| `Scheduling` | the job row and the transitions of the domain's methods, as operators from row to row | `job.go`, `batch.go`, `event.go` |
| `SqlStore` | the SQL statements as state functions of `jobs`, `batch`, `trail` | `job_repo.go`, `batch_repo.go`, `event_repo.go`, `migrations/0001_init.sql` |
| `Scheduler` | the running system: slots, housekeepers, processes, server, clock | `process_job.go`, `reap_expired.go`, `close_batches.go`, `cancel_batch.go`, `submit_batch.go`, `pool.go`, `housekeeper.go`, `cmd/worker/main.go` |
| `SchedulerProperties` | its properties, the refinement mapping and the inductive invariants | |
| `Lifecycle` | the abstract specification: the life of jobs and batches without workers, leases or time | the diagram in `job.go`, `batch.go` |
| `Intake` | the abstract specification of submission: what a client is promised, without lookup, expansion or transaction | the replies of `submit_batch.go`, `router.go`, `errors.go` |
| `Submit` | submission step by step: lookup, expansion, transaction, reply, crash | `submit_batch.go`, `InsertMany`, the unique indexes |
| `Forever` | `Scheduler` with a time that does not end, and its fairness, for liveness | `housekeeper.go`, `pool.go`, `cmd/worker/main.go` |
| `Requests` | what the server decides about a request before it touches a table, as operators | `router.go`, `identity.go`, `trigger.go`, `static.go`, `submit_batch.go`, `normalizeLimit` |
| `Api` | a client that submits, cancels, queries and pages while the scheduler goes on; the scheduler is its abstraction `Lifecycle` with the trail and the order of rows | `router.go`, `query_batch.go`, the reads of `batch_repo.go`, `job_repo.go`, `event_repo.go` |
| `Config` | what a process makes of its environment, as operators | `config.go`, `lane.go` |
| `Migration` | the steps of `Migrate`, for several processes on one database | `migrate.go` |
| `WorkerPool` | the goroutines of a worker: slots, token sources, housekeeper | `pool.go`, `housekeeper.go`, the errors of `process_job.go` |
| `Deployment` | both programs from start to end: composes `Config`, `Migration` and `WorkerPool` | `cmd/worker/main.go`, `cmd/server/main.go`, `shutdown.go` |
| `MCScheduler`, `MCForever`, `MCSubmit`, `MCApi`, `MCDeployment` | small instances for TLC | |
| `SchedulerProofs`, `TrailProofs`, `ExclusiveProofs`, `LifecycleProofs`, `SubmitProofs`, `ApiProofs`, `DeploymentProofs`, `ForeverProofs` | theorems and proofs about the module of that name; `TrailProofs`, `ExclusiveProofs` and `LifecycleProofs` are about `Scheduler` | |

### How `Scheduler` corresponds to the code

`jobs[j]` is the row of a job (state, attempt, available_at, lease_owner,
lease_expires_at); columns nothing updates (batch, lane, priority, max_attempts)
are constants. `batch[b]` is the state column of a batch, `trail[x]` the sequence
of events about a job or, with an empty `job_id`, about a batch.

A transaction is one action, because `_txlock=immediate` takes SQLite's write
lock at its start. Everything between transactions is a separate action:

* `Poll` reads the clock, `ClaimJob` / `ClaimNothing` is the claim transaction;
* `ExecutorReturns` ends the execution and reads the clock again (the settling
  functions do that first), `SettleSuccess`, `SettleFailure` and `DiscardResult`
  are the settling transaction with its three outcomes. `HeldBy` is
  `assertHeldBy`: state and owner, nothing else;
* `KeeperTick`, `ReapExpired`, `CloseCompletedBatches` are a housekeeping round;
  the closing round's clock goes only into timestamps and is left out;
* `SlotTxFails`, `KeeperTxFails`: the transaction fails or its context was
  canceled; the claim is given up, the result lost;
* `SubmitBatch`, `CancelBatch` are the server's transactions. A transaction of
  theirs that fails changes nothing, so it is a stuttering step;
* `Crash`, `Signal`, `Exit`, `Restart` are the life of a worker process.
  `Restart` keeps the identity: the process finds leases in its own name.

A lease is owned by an identity, not by a process: `IdOf` is what `SCHED_WORKER_ID`
gives each process, and nothing makes it injective. `config.go` asks for different
ones; the default (host name and process id) has them.

`Tick` advances the clock the processes of the host share; like the ageing of `Forever`
it is a step of the environment and translates no code. An executor returns by
the deadline of its context, which is the lease's expiry, unless `Overrun`; a
transaction commits within `MaxStall` of its clock reading.

Not modelled in `Scheduler`: `created_at` (the last key of the claim order; ties
go either way), error texts and payloads, and the idempotency of submission,
which `Submit` has. `NotBefore` is an input of the submission use case; the HTTP
request has no field for it, so only other callers delay a batch.

### How `Submit` corresponds to the code

A request goes through `FindsNothing` or `FindsDuplicate` (the lookup, outside any
transaction), `Expand`, and `Commit` or `CommitConflicts` (the transaction: batch,
then jobs row by row with `ON CONFLICT DO NOTHING`). `Answer` is the reply
reaching the client; `ServerCrash` cuts the requests under way. Seen by clients this
is `Intake`: a commit is `Accept`, the duplicate found by the lookup is `Repeat`, an
error or the loser of a race is `Refuse`, a crash is `Cut`, every other step stutters. Keys are sequences
of tokens with `":"` among them, so that joining keys keeps what matters of
joining strings. Whether a job with the derived key was canceled or dead makes no
difference to the index, and makes none here.

### How `Forever` extends `Scheduler`

`Scheduler` has a clock that stops at `MaxClock`, which is enough for safety and
useless for liveness. In `Forever` the actions are the same, and once the clock has
reached `MaxClock` time goes on by *ageing*: `Shift` makes every moment the system
remembers (availability, lease, deadline, clock reading) one unit older, as if the
clock had advanced and everything were seen from the new present. A moment at or
before `Floor` is in the past of every reading a transaction may still act on; it
stays where it is, so that only the order of long past moments is forgotten, which
decides nothing but which of several waiting jobs is taken first. `TimeMayPass` is
the guard `Tick` has: executors obey deadlines, transactions wait at most `MaxStall`.

### How `Api` corresponds to the code

`state`, `tries`, `batch` are those of `Lifecycle`, and its moves are taken as they
are: `LifecycleImplemented` says that the scheduler makes no others. `listing` adds
the order of `created_at` (a clock reading from before the transaction, so that a
new batch may come in anywhere), `trail` the events in the order of their ids. Of
the client's calls `SubmitBatch` and `CancelBatch` are one step each - how a
submission races is `Submit`'s subject, and here it is the request that is judged;
`GetBatch` and `GetProgress` are the two reads of `QueryBatch.Get`; `List` and `NextPage`
turn the pages of a listing, by as many rows as have come, until none comes.
Identities, fields and limits are data: `Requests` translates what happens to them,
`splitAndTrim` character by character. An unknown batch has empty listings, with
status 200; only `Get` and cancel answer 404.

### How `Deployment` corresponds to the code

A process is down, booting (configuration loaded, migrating), up, or stopping. The
statements of a migration and its record are steps of their own, and the two
processes interleave them; a signal during the migration cancels its context. In
`WorkerPool` a slot is at a program point of `runSlot` with its backoff, a token
source at one of its two selects, the ticker holds a tick or not (a Go ticker drops
further ones), and a hand-over needs a slot that waits. `ahead[l]` counts how much the
hand-overs have ever been ahead of the ticks. `ClaimReturns` and `RunReturns` are
`ProcessJob.Execute` with every outcome it may have, `ErrorOf` what of it reaches the
pool. A store failure and a canceled context are told apart as `errors.Is` does.
`idleDelay` is the field of `Pool`, with the poll interval that `Load` has let pass;
`nextBackoff` doubles as an `int64` does (`Doubled`, `HalfRange` = 2^63), since an
interval below zero may come out above it.

## What the runs check

Bounds are given by the `.cfg` files: the clock stops at `MaxClock` (nothing else
stops with it; requests, claims, reaps, crashes and restarts go on), a transaction
waits at most `MaxStall`. Attempts, backoffs and leases are 1 to 3 clock units, so
that within `MaxClock` a job is claimed, expires, is reclaimed or fails, waits out
its backoff, is claimed again and exhausts its tries, while a second job competes
with it. Worker processes are symmetric where two are used. `Pool` and `Deployment`
check liveness too, under the fairness explained below.

| Run | Instance | Checks | What it shows |
|---|---|---|---|
| `Serial` | 2 processes with one identity, 1 serial lane, 2 jobs of a batch, one retried, waiting transactions, backoff longer than the wait (1 925 463 states) | `TypeOK`, `LaneCapacity`, `TimedInv`, `ExclusiveExecution`, `ClaimStaysGood`, `ExecutionsWithinCapacity`, `SettlesOwnAttempt` | across processes, crashes, restarts and cancels no job runs twice at once, the lane runs one and no result is recorded for another attempt, though the ownership check tells the processes not apart; the proofs' invariant holds |
| `Pool` | 1 process with 2 slots, time without end, one job retried and more urgent, waiting transactions, backoff longer than the wait, crashes, signals and store failures for ever (108 385 states) | `ExclusiveExecution`, `ClaimStaysGood`, `EveryBatchEnds` | the same where the owner does not tell attempts apart; and every batch that was dispatched is closed in the end, with all of its jobs settled |
| `Batches` | 2 batches on 2 lanes, one delayed; store failures; rounds of 2 | `TerminalFinal`, `ImplementsLifecycle`, `BatchSettled`, `TrailMatchesJobs`, `AttemptBudget` | batches and jobs live the abstract life, the trail agrees with the tables |
| `Overrun` | 2 processes with identities of their own on a serial lane, executors that ignore deadlines, waiting transactions | `NoPrematureReclaim`, `TableInv`, `TrailMatchesJobs`, `BatchClosedOnce`, `SettlesOwnAttempt` | what the tables promise without any timing assumption, `LaneCapacity` among it (`TableInv`); no late result is recorded for another attempt, since owners tell the slots apart; and of two housekeepers and a cancel that meet only one closes the batch |
| `Api` | 2 jobs in one of 2 batches; 80 submissions (every identity and scope, every list of up to 3 characters, each field at its edges); pages of 1 and 2 rows (1 389 647 states) | `DoneMeansSettled`, `CancelReplyIsTrue`, `PagesListEachJobOnce`, `PagesMissNoBatch`, `EventPagesArePrefix`, `UsersScheduleThemselves`, `AcceptedIsWhatWasAsked` | a client that reads without transactions is told nothing false |
| `Deployment` | a worker and a server, 2 migrations of 2 statements and 1, a rate-limited lane of 2 slots or a serial one, poll intervals of 1 and of -3, 0 and 3, which nothing refuses, a greatest backoff of 2, durations of 4 bits, one request at a time (187 405 states) | `RunningOnSchema`, `RunningConfigIsSound`, `SlotsStayUntilSignal`, `RateKept`, `DelaysBounded`, `StopTerminates` | no process serves before its schema is whole, the pool keeps what it promises, and every stop ends |
| `Submit` | 5 racing submissions | `TypeOK`, `OneBatchPerKey`, `OneJobPerKey`, `EveryTargetHasItsJob`, `KeysDoNotInterfere`, `ReplyIsTrue`, `ImplementsIntake` | the unique indexes decide the race the lookup leaves open; nothing is enqueued twice or lost, and a request takes effect as a whole or not at all |

`Submit` and its variants switch deadlock checking off: when all requests are
answered the instance has nothing more to do. The scheduler's runs keep it on.

Four runs show where a document says more than the code keeps; each checks the
one property that states the document's sentence:

| Run | Property | What happens |
|---|---|---|
| `StaleSettle` | `SettlesOwnAttempt` | a settlement that waited past its lease is accepted for a later attempt of the same job in another slot of the same process (owner = process; `README.md:592`). It takes a settlement that waits longer than the backoff: the first backoff is 2 s, `busy_timeout` alone 5 s. `Serial` and `Overrun` show the two conditions under which it cannot happen. |
| `CancelOverlap` | `SerialLaneExclusive` | a canceled execution goes on while its serial lane starts the next job (`lane.go:13`) |
| `SubmitRace` | `RepeatedKeyIsAnswered` | two simultaneous submissions of a key: one gets an internal error (`README.md:433`) |
| `SubmitOrphan` | `NoOrphanBatch` | keys `k` and `k:clip:v` derive one job key; the second batch has a total and no jobs (`submit_batch.go:62`) |

Why the bounds are enough, where it is not plain: in `Api` pages of one and of two
rows make both a listing that ends between pages and one that grows while it is
read; two jobs suffice to order rows, and the batch without jobs is the one
whose jobs another batch's keys suppressed. In `Deployment` two migrations give every
order of statements and records of two processes; one limited lane with two
slots gives the token that two wait for, and the one nobody waits for.

### Fairness

`Forever` assumes of the code what goroutines do, and no more:

* time passes (`WF`), and with it executors return by their deadline - executors are
  told it by their context; one that ignores it is outside (`Overrun`). A
  transaction takes some time at most, but `MaxStall` is at least 1: were
  transactions instantaneous, overlapping ones could keep time from passing;
* a goroutine that can go on does (`WF`): a result is settled or dropped, a
  stopped process exits, and the supervisor starts it again;
* crashes, signals and store failures may come again and again for ever, so that
  nothing that is not instantaneous is continuously enabled. It is assumed that
  each kind of transaction gets through now and then (`SF`): polling and claiming on
  a lane, by any of its slots; the tick, the reaping and the closing of a housekeeper.

`Deployment` assumes `WF` of booting, of every slot and of the server's shutdown, which
has a timeout. Of the housekeeper's `select` it assumes `SF` of the branch of the
context: Go picks at random when a tick is ready as well. Nothing is assumed of
signals, crashes, starts, requests, tickers and tokens.

### Seen on the way, without a run

* `splitAndTrim` keeps the blanks behind a field, in spite of its name.
* The rate of a rate-limited lane holds per process; its capacity holds globally.
* On a fresh database the slower of two processes that migrate at once fails its
  start with a primary key error (`RecordConflicts`) and has to be started again.
* `SCHED_REAP_INTERVAL` of zero or less passes `Load` and panics in the housekeeper.
* `SCHED_POLL_INTERVAL` is not checked either (`config.go:74`). With zero or less a slot
  polls, and retries on a store that is down, without a pause. With more than 30 s an
  idle slot waits longer than any backoff: after the first failure it waits the interval,
  after the next ones 30 s. `DelaysBounded` says what holds for every interval, and that a
  slot waits no less than the interval for those from 1 to 30 s.
* A listing of batches that is filtered by state skips rows while batches leave the
  filter; the unfiltered one does not. A limit of more than 500 is cut silently.
* Server and workers each read `SCHED_LANES`. A lane the server accepts and no worker
  serves leaves its batches open for ever; nothing compares the two.
* An executor that ignores its context keeps a worker from stopping: `wg.Wait` has no
  timeout.

Each property of a passing run has a mutant in `PROJECT.json`: a slip in one
mapped definition (the operators named `Mut...`) that the run detects.

## What is proved

All theorems hold for arbitrary sets of jobs, batches, lanes and workers. What they
assume of the constants is named in the modules, and TLC evaluates it in every run:

| Assumption | Says |
|---|---|
| `NoWorkerAssumption`, `SchedulerAssumption`, `IdentityAssumption` | the types of the constants; `""` is no identity; each process has one, perhaps that of another |
| `ClockAssumption` | of `Forever`: transactions take time (`MaxStall` is at least 1), and its window of time reaches back to the oldest reading a transaction may act on |
| `TopologyAssumption` | finitely many jobs, capacities at least 1 (`NewLane`), a positive lease (`Load`) |
| `AttemptAssumption` | `max_attempts` at least 1 (`withDefaults`), backoffs are naturals |
| `SubmitAssumption` | keys, kinds and targets are sequences of tokens, a kind is not empty (`validate`) |
| `RequestAssumption`, `ApiAssumption` | `""` is no lane, the default and greatest limits are positive and in order; finitely many jobs, and no two of them at one place of the listing (`created_at`, then `id`); a limit asked for is an integer or absent |
| `SubmissionAssumption` | the list of a submission is a sequence of characters, its number of retries an integer |
| `MigrationAssumption` | there is a migration, and each has a statement |
| `DefaultsAssumption`, `DelayAssumption`, `PollAssumption` | the defaults are positive, and the default inference timeout is shorter than the default lease; twice the greatest backoff is a duration; so is the default poll interval. Nothing is assumed of the interval that is set |
| `ProcessAssumption`, `EnvironmentAssumption`, `BoundAssumption` | a worker and a server; an environment gives lanes by name and capacity, and durations; the sets of lanes and slots hold all it can ask for |

**`SchedulerProofs`, without any timing assumption.** `TableInv` is inductive
(`TablesConsistent`); from it follow `TypeCorrect`, `RetriesBounded`,
`CapacityKept`, `ClosedBatchesSettled`, `TerminalStatesFinal` and
`LeasesRespected`. The strengthening: besides the properties themselves a slot at
work has a job (else a settlement would have no row), no clock reading is from the
future (else the capacity counted with it says nothing about now), and a batch
exists exactly when its jobs do (else a submission could reset jobs). The heart of
the capacity proof is that leases are counted at a reading `now <= clock`: leases
live at `clock` are among those live at `now`, so one more fits.

**`ExclusiveProofs`, under `Timely`.** `Timely` says that executors obey their
deadline, and that no transaction waits as long as the shortest backoff, nor
longer than a lease. The invariant `TimedInv` says of each slot at work what the
table says of its attempt: still running with this lease; or reclaimed after the
deadline and available only after the slot must have let go; or canceled. From it:
`NoDoubleExecution`, `ClaimsStayGood`, `ExecutionsKeptWithinCapacity` (executions
inject into live leases). `StaleSettle` shows the assumption is needed, and the
default configuration does not enforce it. None of this uses that processes have
different identities: `TimelyResultsOnly` says that even with one for all of them an
accepted result is recorded for the attempt that produced it. Without `Timely` the
owner has to tell the slots of a lane apart, and then it suffices: `OwnInv`, what is
held in a slot's name is the attempt it runs, is inductive however late anything is,
because only a claim makes a row running and another slot claims under another name
(`HeldIsRun`, `OwnResultsOnly`).

**`ForeverProofs`.** The same for the system whose progress `Pool` checks. `Shift`
leaves states, attempts and owners alone and keeps the order of any two moments; the
moments that transactions and executions under way act on lie behind `Floor` and age
by exactly one while the clock stands still, which for them is the clock moving on by
one. So every invariant above survives it (`ForeverConsistent`, `ForeverExclusive`,
`ForeverClaimsGood`, `ForeverWithinCapacity`, `ForeverTimelyResults`,
`ForeverOwnResults`, `ForeverTrail`), a live lease is respected
(`ForeverLeasesRespected`), and to `Lifecycle` it is a stuttering step
(`ForeverImplementsLifecycle`). `TerminalFinal` has no counterpart there: ageing
rewrites the times of every row, those of settled jobs too.

**`LifecycleProofs`.** `LifecycleImplemented`: `Scheduler` implements `Lifecycle`
under the mapping state and attempt of the row, batch of the table. Submitting is
`Dispatch`, canceling `Cancel`, a claim `Start`, an accepted success `Finish`, an
accepted failure or a reaping round `Miss`, a closing round `Close`, and every other
step stutters. It needs `TableInv` and that an absent job was never tried.

**`TrailProofs`, without any timing assumption.** Each transaction is shown to do one
of a few things to a job (`TrailStep`) or a batch (`BatchTrailStep`), and to record
just that. Given `TableInv`, `TrailMatchesJobs` is then inductive as it stands: the
last event says whether an attempt is open, so the next event comes at the right
parity and the number of claims grows with the attempt (`TrailTellsTheTruth`).
`BatchesCloseOnce` likewise.

**`SubmitProofs`.** `KeysHaveOneBatch` and `KeysHaveOneJob` hold by the unique indexes
alone. `RequestInv` adds that a request under way has stored nothing, so what a reply
counts is what its own commit stored (`RepliesAreTrue`). `TargetsHaveJobs` takes the
least index at which a request names the target: that row is inserted, or was there.
`KeysStayApart`: a derived key begins with the batch key, up to its first colon.
`IntakeImplemented`: `Submit` implements `Intake`, with `RequestInv` saying that what
is under way has had no effect.

**`ApiProofs`.** `RepliesInv`: a closed batch has only settled jobs, canceled jobs
are in canceled batches only, and what has ended stays; so the counts, of disjoint
finite sets, add up to the total whenever they are read (`DoneIsSettled`,
`CancelIsTrue`). `PagesInv`: events seen are a prefix of the trail (`EventPagesAddUp`);
of the batches there at the start, those among the first `n` rows were seen when
`n` rows have been, since insertions only push rows back (`NoBatchIsMissed`).
`UsersServeThemselves` follows a user's scope through `ResolveScope` and `Expand`.
`JobsAreListedOnce`: a job's row in the listing is its rank in an order nothing
changes, and ranks of a finite set of integers run from 1 to its size (`PlacesRun`),
so what was listed when `n` rows have been are the first `n` jobs, each once.
`AcceptedAsAsked`: the scan of `splitAndTrim` is a recursive function of the number of
characters read, and `ScanInv` - what was found so far are the fields closed so far,
in order, and the field that is open begins at `start` - is shown for every number by
taking the least one at which it would fail. At the end of the list that is
`SplitIsFields`: the fields as defined by where they start and end, for every list.

**`DeploymentProofs`.** `SchemaIsWhole`: records are true, and a process migrates in
order, so what comes before the migration in hand is recorded. `RateIsKept`:
hand-overs ahead of the ticks, a tick held and a token offered are at most two
together. `DelaysAreBounded`, for every poll interval that can be set: `PollInv` ties the
pool's to that of the configuration it runs with, and a delay is this interval or came
out of `nextBackoff`, at most `MaxDelay`; doubling leaves the range of a duration only
from delays that an interval within 1 .. `MaxDelay` never leads to. `ConfigIsSound`:
`Load` refuses what is not. `SlotsStay`: while no signal has come the live slots of a
lane are those its capacity asks for.

Every invariant and action property of the passing runs is stated by a theorem, and so
are both refinements. `TimedInv` and what follows from it are proved under `Timely` and checked on instances that
satisfy it. Only model-checked: liveness under fairness (`EveryBatchEnds`,
`StopTerminates`), which is out of the prover's reach.

## What is not modelled

* The wording of requests and replies (`dto.go`), the logging middleware, and internal
  errors: a store that fails under a request answers 500 and changes nothing.
* What executors compute, the inference service and its HTTP client, the demo
  executor, the table from kinds to executors: an execution succeeds, fails or is late.
* Identifiers (taken as unique) and logging.
* The numbers of `BackoffFor`: the backoff is a constant function, and the proofs hold
  for every one.
* Filters of the batch listing; `ListByJob`, which nothing calls; `Job.Claim`, which
  nothing calls since the store claims with an `UPDATE`.
* `job.canceled` and `job.enqueued`: declared in `event.go`, written by nothing, so a
  canceled job's own trail does not say how it ended; `TrailMatchesJobs` exempts it.
* Wall-clock steps: the clock is monotone.
* An unbounded stream of submissions: urgent jobs that never cease starve the others,
  as the claim's order has no ageing.
* The example inference service.

## Plan

Done: all modules above. Left:

1. `Api` composed with the detailed `Submit` in place of the one-step submission.
2. The filters of the batch listing, and the rows a filtered listing skips.
3. Lanes that only some processes serve (`SCHED_LANES` read by each process).

## Running

    tlc -workers 2 -config Serial.cfg MCScheduler
    tlc -workers 2 -config Pool.cfg MCForever
    tlc -workers 2 -config Submit.cfg MCSubmit
    tlc -workers 2 -config Api.cfg MCApi
    tlc -workers 2 -config Deployment.cfg MCDeployment
    tlapm SchedulerProofs.tla      (and the other *Proofs modules)

The configurations `Serial`, `Batches`, `Overrun`, `StaleSettle` and `CancelOverlap`
belong to `MCScheduler`, `Submit`, `SubmitRace` and `SubmitOrphan` to `MCSubmit`.
`Serial`, `Pool` and `Deployment` take a minute or two each, the others less.
