# A verification of SignalFlow

SignalFlow is a Go program that runs scheduled jobs (shell commands, HTTP checks) and notifies
channels (webhook, Slack, Discord, Telegram, email) of their outcome. Several replicas of it run
against one PostgreSQL database. This directory holds TLA+ models of everything in it that keeps
state or shares it, the TLC runs that check them on small instances, and TLAPS proofs of their
safety properties, and of a refinement, for instances of any size.

## The system

| Component | State | Operations | Talks to |
| --- | --- | --- | --- |
| Scheduler (`internal/scheduler`) | position of the dispatch loop, the claims `tick` holds, the channel `jobChan`, the worker goroutines, two contexts | `Run`, `recoverStale`, `tick`, `worker`, `executeJob`, `markFailed` | tables jobs and executions (SQL), executors (calls), dispatcher (calls) |
| jobs table (`repository/postgres/job.go`) | rows: status, schedule, condition, next_run_at | `ClaimDue` (a transaction with `FOR UPDATE SKIP LOCKED`), `Create`, `Update` (the whole row), `Delete`, `List`, counts | the scheduler and the job service write it |
| executions table (`repository/postgres/execution.go`) | rows: job, status, error, started_at | the INSERT in `ClaimDue`, `Update`, `RecoverStaleRunning`, `ListByJob`, counts | cascade from jobs |
| Job service (`internal/service/job.go`), called by the API and the dashboard | copies of rows between a read and a write | `Create`, `Update`, `Delete`, `TriggerRun`, `Pause`, `Resume` | jobs table |
| Dispatcher (`internal/notifier/notifier.go`) | the wait group, the send goroutines | `Dispatch`, `send`, `Wait` | channels and notifications (SQL), notifiers (calls) |
| Notifiers | the `SendMail` goroutine of email | `Send` | services outside |
| Channel service and table (`internal/service/channel.go`) | rows: name, type, config, enabled; copies between a read and a write | `Create`, `Update`, `Delete`, `ToggleChannel` of the dashboard | notifications (cascade) |
| Auth (`internal/service/auth.go`, the middlewares) | users; tokens, which only clients keep | `Register`, `Login`, `Logout`, authentication | users table |
| Dashboard and lists (`service/dashboard.go`, `service/execution.go`) | answers in the making | `Stats`, paged lists | counts and lists of all tables |
| App (`internal/app`, `cmd/signalflow`) | the error group, the pool, the requests in flight | `New`, `Run`, `Close`, `Shutdown`, signals | scheduler, HTTP server |
| Executors | child processes, requests | `Execute` | the operating system |
| Config, migrations, responses, health, templates, deployment | | start-up, rendering | |

What makes it hard:

* **Interleaving.** Claims of several replicas, the write-back of a job row at the end of its
  execution and the edits of its owner touch the same rows. `executeJob`, the job service and the
  channel service write whole rows from copies that may be minutes old.
* **Hand-overs.** A claim goes from the database to a slice, a bounded channel and a worker;
  every hand-over can be cut off by a timeout or by SIGTERM and must leave the row of the
  execution with an outcome.
* **Failure.** Statements fail and are only logged; a Commit may succeed without the program
  knowing; the process may die anywhere and is restarted.
* **Endings.** `Run` drains the pool within a grace period and then waits for the notifications;
  a send may time out, a channel or job may be deleted under it; the HTTP server, its shutdown and
  the scheduler end in any order, and the pool must outlive them.
* **Answers made of several statements.** `Stats` and the lists read without a transaction.

PROJECT.json lists these hazards one by one, at their lines, with the properties that watch them.

## The modules

    Ledger  <-- implemented by --  Scheduler + SchedulerProperties
      |                                |             |
      |                            JobService       App        (both extend SchedulerProperties)
    Dashboard (reads what the ledger allows)
    Dispatcher        Accounts --> Channels

| Module | What it is |
| --- | --- |
| `Ledger` | the abstract specification: what is promised of jobs and executions, and what a reader may conclude from it |
| `Scheduler` | the scheduler, the two tables, replicas that start, stop and die |
| `SchedulerProperties` | its safety, action and liveness properties, the inductive `SafetyInv`, the refinement mapping `L` to the ledger |
| `JobService` | extends `SchedulerProperties` with the requests of the job service |
| `App` | extends `SchedulerProperties` with the process around the scheduler |
| `Dispatcher` | `Dispatch`, `send`, `Wait`, the notifications and channels tables |
| `Accounts`, `Channels` | registration and sessions; the requests on channels under a session |
| `Dashboard` | extends `Ledger` with readers: `Stats` and the paged lists |
| `SchedulerProofs`, `PipelineProofs` | proofs about the scheduler: the invariant and what follows from it at once; then the drain, what is never dropped, and the notifications |
| `LedgerProofs` | proofs that the scheduler implements the ledger, and that who implements it keeps its promises |
| `JobServiceProofs` | proofs about the job service beside the scheduler: its invariant, what a pause means, the ledger again |
| `AppProofs`, `DispatcherProofs`, `ChannelsProofs`, `DashboardProofs` | proofs about those modules |
| `MCScheduler`, `MCJobService`, `MCApp`, `MCDispatcher`, `MCChannels`, `MCDashboard` | the values of the constants for TLC |

### Ledger

An execution appears when its claim commits; it is *held* by one goroutine, then *reporting*
(its worker may still call the dispatcher), then *closed*. Only who holds it settles it or gives it
up; only who settled it reports it, at most once; a closed row is written once more only if it says
running (a recovery). A process that dies closes what it held. Jobs change their status while they
are there and take their executions with them. The mapping (`Stage`, `LedgerEntries`) computes the
stage of an execution from who has it in hand: `pending`, `jobChan`, a worker before or after its
UPDATE.

### Scheduler

One action is one step between two points where somebody else can interfere: a database
statement, a channel operation, the return of an executor, a cancellation.

| Action | Code |
| --- | --- |
| `Start`, `Crash`, `Terminate` | the process comes up, is killed, gets SIGTERM or loses its HTTP server |
| `RecoverStale` | `recoverStale` and `RecoverStaleRunning` |
| `ScanDue`, `AdvanceNextRun` | the SELECT of `ClaimDue` and its loop over the rows |
| `CommitClaim`, `LoseCommit`, `RollbackClaim` | Commit with and without its answer; any other error |
| `Send`, `AbandonOnShutdown`, `Saturate` + `MarkSaturated` | the three cases of the select in `tick` |
| `Receive`, `FinishExecution`, `WriteBackJob`, `Notify` | `worker` and the statements of `executeJob` in their order |
| `ExitLoop`, `WorkerExits`, `GraceExpires`, `Drained`, `Return` | the end of `Run` |

`phase[r]` says where `Run` of replica r stands, `loop[r]` where its `tick` stands; the domain
of `scan[r]` is the set of rows its transaction has locked. `claims[e]` is the `JobClaim` of
execution e: the copy of the job row that `executeJob` writes back, and the slot it was due at
(the old next_run_at, kept to state properties). Uncommitted writes are not visible, so the
transaction keeps them in `scan` and `batch` until the commit. An UPDATE that meets a locked row
is an action that is not enabled while the row is locked.

Abstractions: last_run_at, output, durations, names, config and timeouts are left out, as no
property tells them apart; time is counted in cron minutes. `now` is the database's
clock (`now()` in the SELECT); whatever the program dates with `time.Now()` (`AdvanceNextRun`, the cutoff of
`RecoverStale`, the requests of JobService) takes any of `ReplicaTimes`, the times within `ClockSkew` of it, so a
replica's clock may be ahead, behind or set back. The cron library is a function
`CronNext` of which only "a later time, or the zero time when there is none" is assumed; an
executor may return whatever its code can return (with a cancelled context nothing succeeds).
A job without a condition and a job type without an executor are kept, since the code has
branches for both. The id of an execution is its rank of insertion. The dispatcher is called for
an execution when it is put into `dispatched`; what happens then is the module Dispatcher's.

### JobService

`Create` and `Delete` are one statement and one action each. `Update`, `TriggerRun`, `Pause`,
`Resume` are two: the read with the computation of the new row (`Begin`, which puts the copy
into `requests`), and the write (`Write`), with everybody else's steps in between. `Abandon` is
a client that goes away or a failing UPDATE. The replica's clock (`ReplicaTimes`) is read in the same step as the row.
The user_id, which these operations neither read nor change, is left out. Deleted rows stay
in the model with the status "deleted", so that properties can speak of them.

### App

| Action | Code |
| --- | --- |
| `Boot`, `Connect`, `FailConnect` | `main`, `app.New`, and the three `g.Go` of `app.Run` |
| `Signal`, `CancelScheduler` | `signal.NotifyContext`, the cancellation of `gctx` |
| `Listen`, `ServeReturns`, `FailServe` | the goroutine of `ListenAndServe`, which returns some time after Shutdown has closed the listener, and may return an error at any moment before |
| `BeginShutdown`, `EndShutdown`, `ShutdownTimesOut` | the goroutine of `srv.Shutdown` with `shutdownTimeout` |
| `Accept`, `Answer` | requests and their handlers |
| `ExitWithError`, `CloseApp`, `Exit` | `g.Wait`, `os.Exit(1)`, the deferred `Close` of the pool |
| `Kill` | SIGKILL |

The steps of the scheduler are those of Scheduler; `Start`, `Terminate` and `Crash`, which there may
happen at any time, happen here when the process lets them. Handlers are a number: what they do to
the tables is JobService's and Channels'.

### Dispatcher

`Fetch` is `GetByIDs` and the test of `enabled` on the copies; `CreateNotification` and
`FailCreate` are the two ends of the INSERT; `SendSucceeds`, `SendFails`, `SendTimesOut` the three
ends of `Send`; `UpdateStatus` the UPDATE with the deferred `Done`; `CallWait` and `WaitReturns`
the end of `Run`. `strays` are `SendMail` goroutines that have outlived their `Send`. Only email has
them; the other notifiers cancel their request. The rows of an execution and a channel are a sequence: every INSERT
has a new uuid and adds one, as no UNIQUE column forbids it; that there is one at most (`ServedOnce`) is a consequence
of the loop and not of the table. Dispatch is called at most once for an execution, as
the ledger's `Report` says of the worker that calls it. The branch for
an unregistered type is left out: the CHECK on channels.type names the five types that
`app.New` registers. An edit of a channel is one step that may write any columns, since Dispatch sees
only the committed row; the reads before it are those of Channels. The process is not restarted: no
code reads old notifications, so a second life adds nothing.

### Accounts and Channels

`Register` is the hash, `Insert` and `RefuseAccount` the two ends of the INSERT under the UNIQUE
email; a `Login` gives the client a token with an expiry, which is all the server ever checks.
An `Update` of a channel is a read and a write of the whole row; `Toggle` is a read in the handler,
`ReadAgain` in `Update`, and the write. `overlapped` and `outdated` remember whether another write has
come since the first and since the last read; no guard looks at them. name, type and config, which are
written alike, are one column. A password hash is identified with its password, a token with what it says.

### Dashboard

The tables go on by the steps of Ledger, which every writer implements; the readers take their
answers statement by statement (`Count` for each of the four counts, `CountRows` and `SelectPage`
for a page) and any statement may fail. A list is a set of rows with the times they are sorted by; the
place of a row is its `Rank`, the number of newer rows, and a page is the rows whose ranks lie between OFFSET
and OFFSET + LIMIT. An execution has up to `MaxChannels` notifications, one for each channel of its job, so
`CountSent` may exceed the executions. `born`, `slipped`, `removed` and `cut` count what has happened to the tables meanwhile, to
state by how much an answer may be off. Readers change nothing, so one at a time shows what each can see.

## The runs

| Run | Instance | What it shows |
| --- | --- | --- |
| `sched_pipeline` | one replica, one worker, channel and LIMIT of 2, two minutely jobs with conditions "other" and "always" and a third whose schedule does not parse, no faults | nothing is left after the drain; notifications exactly as the condition asks; no claim dropped; the skipped row, first in every SELECT, keeps no due job from being claimed |
| `sched_cluster` | two replicas, each started and killed once at any step, clocks up to a minute off the database's, two overlapping schedules, stale age 0 | the inductive invariant, isolation of claims, one holder for each execution, next_run_at moves past the slot but for the difference of the clocks, final outcomes also across recoveries, no notification that contradicts its row, and the ledger is implemented |
| `app` | one process that starts twice, every statement may fail, the listener and the connection too, one request, two minutely jobs | the pool outlives its users; whatever ends one goroutine ends the process; what is claimed is released; rows of live claims stay open; the drain ends |
| `job_service` | one job, two requests at a time, a replica that may crash, failing claims and write-backs | the inductive invariant of the service; active jobs stay runnable, the cascade, no paused job in a claim, deleted jobs stay deleted, a pause holds once nothing in flight can undo it; the ledger is implemented; requests are answered |
| `dispatch` | two workers, two executions, two channels, three notifications, all faults, crash | the inductive invariant, `Wait` covers all sends, rows follow their parents, every channel is served, `Wait` ends |
| `web` | two clients, one email, two passwords, one channel, tokens that expire | the inductive invariant; an account stays whose it is; an edit keeps the other columns; a toggle turns over; deleted channels stay deleted |
| `dashboard` | two jobs, two executions, two channels, pages of one row, failing statements | the inductive invariant of an answer in the making; the counts of `Stats` fit together; a client that pages through a list misses no more than the answers' moments explain |

The bounds are constants: `MaxTime` (the clock stops), `MaxExecs` and `MaxEntries` (rows of executions),
`MaxStarts`, `MaxRequests`. They guard only `TimePasses` and `Tick`, `ScanDue`, `Start` and `Boot`, `Accept`, and the
tables of Dashboard. Why they are enough: saturation needs ClaimLimit + 1 claims with one worker and a
channel of two, hence four executions in `sched_pipeline`; a row that is skipped can keep others out only when there are
more due jobs than the LIMIT, hence three jobs there; a stale row is recovered by a replica that starts later, the second
one in `sched_cluster` and the second life of the process in `app`; isolation needs two transactions; a clock that is a
minute off moves a claim by one slot, `ClockSkew` is 1 in `sched_cluster` and 0 elsewhere; a lost update needs two requests that
overlap; the lists need two rows and pages of one. A clock of one minute is enough for
`job_service`, where the hazard is the order of writes and not the time between them. Where a
property concerns more actors than that, the proofs cover every number of them. The constants of
StaleAge are small so that live executions become stale in a replica's eyes, the case the code's
five minutes leave open for long commands. Symmetry is used in `web` (clients, passwords),
`dashboard` (jobs) and `sched_cluster` (replicas), which check no liveness. A run that ends with every process stopped is no
deadlock of the program, hence CHECK_DEADLOCK FALSE; that nothing hangs is what the liveness
properties say.

Every property of a run is also shown to depend on the code: PROJECT.json names for each a
mutated definition (a missing lock, a forgotten `close`, a reset left out, ...) under which TLC
finds it violated. The mutants stand before the definition they replace, marked as such.

### Fairness

Weak fairness for what the Go scheduler and the clock give: time passes, `tick`, workers, the end
of `Run`, handlers, send goroutines, the goroutines of the error group and `main` in a live process
take their next step when they can; a cancellation reaches who waits for it.
Executors and notifiers return because their contexts have a timeout (30 s by default for a job,
15 s for a send). Strong fairness for the UPDATEs that wait for a row lock (`WriteBackJob`,
`WriteOf`): a claim transaction may lock the row again and again, but PostgreSQL queues the waiting
UPDATE, and `SKIP LOCKED` passes over the row meanwhile. Nothing is assumed of starts, crashes,
signals, failing statements, the grace timer, the shutdown timer, requests or the services outside.

## What is proved

With TLAPS, for every number of replicas, workers, jobs, clients, requests, executions and channels,
and every bound. The assumptions are `ConstantsAssumption` (finite sets, well-typed columns),
`CronAssumption` (a later time or the zero time), `ClientsAssumption`, `AppAssumption`,
`DispatcherAssumption`, `AccountsAssumption`, `ChannelsAssumption`, `DashboardAssumption`.

**SchedulerProofs.** `TypeCorrect` (with the capacity of the channel), then, from the inductive
`SafetyInv` (`SafetyInvariant`): `ClaimIsolation` (`ClaimReadsStayCurrent`), `OneHolder`
(`AtMostOneHolder`), `OpenWhileUnsaved` (`UnsavedRowsAreOpen`) and `FinalOutcome`
(`OutcomeIsFinal`). None of them is inductive alone:

* that what a transaction read is current needs that rows are locked only inside it, and that
  a batch holds only locked rows (`ControlOK`);
* that a claim is in one place needs the order in which claims travel: those with workers are
  older than those in the channel, and these than the ones `tick` still holds (`InClaimOrder`).
  `Receive` then takes an execution no other worker has, and a commit's new ids are larger than all;
* between replicas it needs `HeldApart`; that an open row is written by its holder alone
  follows from the two. `OutcomeIsFinal` follows since every writer of an outcome but the recovery
  writes the row of a claim that was `Unsaved`, hence open.

**PipelineProofs.** `DrainLeavesNothing` (`NothingHeldAfterDrain`) from `DrainInv`: a worker exits only
when the loop is over and the channel is empty, and nothing enters the channel after that.
`ClaimsAreKept` (`NeverDropped`, when saves and marks do not fail) and the two halves about notifications:
`NoUnwantedReport` (when saves do not fail, also across crashes and recoveries) and
`WantedReportsAreMade` (without crashes and failing saves). Their invariant says that a settled row is the one its claim's
worker wrote (`RowsSettled`), and that a claim whose worker is done was reported if its condition asks for it
(`ReportsMade`). The hypotheses on `Faults` stand in the statements; without them the properties are false, and
`UnsavedRowsAreOpen` is what remains. Three more are about claims and the clocks. `ClaimsAdvance` (`ClaimAdvances`): where every
schedule that parses has a next time, a claim puts next_run_at past its own moment, which is exactly what
`claim_never_advances` lacks; `SlotsAdvance` (`SlotsMoveOn`): under the same hypothesis the new next_run_at lies past the
slot that was claimed, or short of it by less than `ClockSkew`: a slot is served twice only when the replica's clock
is behind the database's. `StartsFollowIds`: executions of one job are dated in the order of their ids up to
twice `ClockSkew`, whichever replicas claim them. Its invariant (`StartsKnown`): no execution of a job is dated later than
the open transaction that has locked the job, up to that skew; without the row lock TLC refutes it.

**LedgerProofs.** `SchedulerImplementsLedger`: `Spec => LedgerSpec`. Every action is mapped: a commit
is `Claim` of the whole batch, which names each job once and only active ones; a save or a mark is `Settle`
or `GiveUp` of the one entry whose stage changes; `Notify` is `Report`; a crash is `Die`; a recovery is `Presume`;
the rest is not seen. That a save changes the stage of its own entry only needs that nobody else has
it in hand, which is `SafetyInv`; that a start loses nothing needs `DrainInv`. `LedgerKeepsItsWord` puts the refinement to use:
from the ledger's steps alone, and the types of the tables, an execution stays its job's, its stages only go
forward, it is reported at most once and by who settled it, and a closed outcome stays until the job is
deleted (`ReportedIsClosed`, `LedgerGoesOn`). `SchedulerKeepsItsWord` and `ServiceKeepsItsWord` draw that conclusion for the two
specifications that implement it.

**JobServiceProofs.** `ServiceInv` is inductive for the scheduler and the requests together.
It repeats no proof: a step of the scheduler keeps `SafetyInv` by the lemmas of SchedulerProofs, and
a request changes only rows that no transaction has locked. To it come `ActiveIsRunnable`,
`OnlyActiveClaimed` and `ExecutionsFollowJobs`; the strengthening is `CopiesAreRunnable`: every
copy that may be written back later (the row of a claim, the row of a request) is one the table may
hold. The theorems: `ServiceInvariant`, `ActiveStaysRunnable`, `CascadeHolds`, `PausedNotClaimed`,
`IsolationBesideRequests`, and the action property `DeletedStays`.

`PausesRest` (`RestHolds`) is the other side of the run `pause_undone`: a paused job of which no worker has a claim to
write back and no request a copy that says otherwise is left alone by the scheduler and by every edit, until a
`Resume` begins. Whoever could undo the pause must have been in flight when it was written.

`ServiceImplementsLedger`: `ServiceSpec => LedgerSpec`. Beside the requests a job does
not stay active, so the step of the refinement needs `OnlyActiveClaimed`, and the write-backs of workers and
requests become `ChangeStatus`, which needs that no copy of a job exists before the job does (`Created`) and that
a deleted row is not matched by an UPDATE.

**AppProofs.** `AppImplementsScheduler`: `AppSpec => Spec`, with every action of the process a step of the scheduler or
none, so all that is proved of the scheduler holds in the process; `AppImplementsLedger` says so of the ledger. `ProcessIsOrderly` is the inductive
`AppInv`: once `main` goes on, the scheduler has stopped and no handler runs. With the drain's invariant it gives
`PoolIsClosedLast` (`PoolOutlivesUsers`) and `EndIsOrderly` (`LeavesNothing`).

**DispatcherProofs.** `DispatcherInv` is inductive: a channel waits in one Dispatch at most and
nothing was begun for it (`TodoIsNew`), so the goroutine that starts is a new one and the wait group,
a bare number, is the cardinality of the set of goroutines (`WaitGroupCounts`), and the row it adds is the only one
of its execution and channel (`ServedOnce`); a row is pending only for a reason (`PendingHasReason`), and a `SendMail` that
goes on belongs to an email whose goroutine has counted it as failed (`StraysHaveFailed`). At zero there is no goroutine
left, hence `WaitCovers`: the rows have their outcomes, and what still goes on, the case of `wait_misses_email`, is
an email whose row does not say sent. `RowsFollow` and `PendingIsResolved` follow.

**ChannelsProofs.** `CopiesAreFresh`: `ChannelsInv` is inductive, as every write marks the requests it
overtakes. From it `OtherColumnsStay` (`EditsKeepOthers`), `ToggleIsATurn` (`ToggleTurnsOver`) and
`NoneComesBack` (`DeletedForGood`); `AccountsAreKept` (`RegistrationHolds`) rests on the UNIQUE column.

**DashboardProofs.** `AnswersInTheMaking`: `DashboardInv` is inductive for the readers beside any writer the
ledger allows. It rests on two facts about the tables: created_at tells jobs apart (`CreatedInTurn`), and a
row that is gone never comes back, so what is on a list now and was on it before was never off it
(`NoRowComesBack`). The rest is counting. In a list sorted by distinct times a rank is a place
(`RankIsPlace`), no place is taken twice, and when rows go and others come a row moves up by at most the number that went
(`MovesUpLittle`); so the rows that slip past the offset unseen are never more than those removed, plus those a page
kept back. At the end the offset has reached the last total, and only rows inserted since that COUNT can
lie behind it. `CountsFit` (`StatsFit`) and `PagesMissLittle` (`WalkMissesLittle`) follow.

Some theorems have a hypothesis about the surroundings, which stands in the statement: `ClaimsAdvance` and `SlotsAdvance`
(schedules that parse have a next time; `claim_never_advances` shows what happens without it), and three of PipelineProofs
(the `Faults` left out).

Only model-checked: the liveness properties (`DueIsClaimed`, `HeldIsReleased`, `DrainCompletes`, `FailureEndsProcess`,
`RequestsEnd`, `EveryChannelIsServed`, `WaitEnds`), which rest on fairness and ENABLED and are out of
the prover's reach. Every invariant and every action property of a passing run is proved.

## Where code and text disagree

Five runs state what a comment, a test or a doc says and find the code doing something else;
PROJECT.json quotes the lines.

| Run | What happens |
| --- | --- |
| `pause_undone` | an execution's write-back makes a job active that its owner paused meanwhile; for the same reason an execution longer than its job's period puts back the next_run_at it claimed, and that time is claimed again |
| `saturated_at_shutdown` | SIGTERM between the saturation timeout and `markFailed(ctx, ...)`: the claim's row stays running although the process drains |
| `orphan_wedged` | a restart within the stale age skips the rows the crash left, and recovery runs once per start |
| `claim_never_advances` | a schedule without a next time (30 February) gets the zero time as next_run_at and is due at every tick |
| `wait_misses_email` | `Wait` returns while the `SendMail` goroutine of a timed-out email still sends |

Two more are visible in Dashboard and have no run of their own: no list asks `rows.Err` after its loop, so a page that
a failing connection cuts short is answered as complete (`cut` in `WalkMissesLittle`); and `Stats` returns at the first failing
statement, so the counts after it read zero too (`FailCount`), where its comment promises that a
failing count does not stop the others (`service/dashboard.go:35-38`).

## What is not modelled

* The protocols and messages of notifiers, process groups, output limits: data, or behaviour of
  other systems. Executors and notifiers appear as the outcomes they can return.
* Responses, health probes, templates, config, the connection to the database and its retry loop, migrations,
  deployment: sequential code without shared state, start-up or rendering. Hashes and signatures of tokens are
  taken to do what they promise.
* The lists of channels and notifications and the single reads: one SELECT each, no state.
* `Create` and `DeleteOlderThan` of the execution repository, `Update` and `Delete` of the user repository,
  `ListActive` of jobs: nothing in the program calls them.

## What is left

* `Scheduler` and `Dispatcher` in one composition, so that `Return` is `WaitReturns`; the state space of the two is too large for
  TLC at the bounds above, and the interface is one call per execution, which the ledger fixes.
* An abstract specification of the notifications (an outbox: pending, then sent or failed, once) that the dispatcher
  implements, as the ledger is for executions.

## Running it

    tlc -workers 2 -config sched_cluster.cfg MCScheduler
    tlapm SchedulerProofs.tla

Each cfg begins with the scenario it is about; the module it belongs to is in PROJECT.json. The
longest passing runs take about three minutes and have up to three million states; the proofs take about fifteen.
