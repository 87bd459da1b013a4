------------------------------ MODULE Scheduler ------------------------------
(****************************************************************************)
(* The scheduler of SignalFlow (internal/scheduler/scheduler.go) with the   *)
(* two tables it works on (internal/repository/postgres/{job,execution}.go).*)
(* Several replicas of the program run against one database: each claims    *)
(* due jobs in a transaction, feeds them to its worker pool through a       *)
(* bounded channel, and on SIGTERM drains the pool before it returns.       *)
(*                                                                          *)
(* Time is counted in cron minutes.  One action is one step between two     *)
(* points where another goroutine, replica or clock tick can interfere:     *)
(* a database statement, a channel operation, a return of an executor.      *)
(* Local computation is part of the step that follows it.                   *)
(****************************************************************************)
EXTENDS Integers, Sequences, FiniteSets

CONSTANTS
  Replicas,      \* processes of the deployment
  Workers,       \* worker goroutines of one replica (WORKER_COUNT)
  Jobs,          \* ids of jobs rows
  JobType,       \* the type column, which no code updates
  JobSchedule,   \* the schedule each job is created with
  JobCondition,  \* the condition each job is created with
  Schedules,     \* cron expressions
  Corrupt,       \* those of them the parser rejects
  CronNext,      \* sched.Next: the next time of a schedule after a time
  StaleAge,      \* staleRunningAge
  ClockSkew,     \* how far a replica's clock may be from the database's
  Faults,        \* the database statements that may fail, and "crash"
  MaxTime,       \* bound: the clock stops here
  MaxExecs,      \* bound: execution rows ever inserted
  MaxStarts      \* bound: times one replica is started

ZeroTime == 0    \* Go's time.Time{}: sched.Next found no time within 5 years
NoTime   == -1   \* a NULL timestamp
Times    == 1 .. MaxTime

Registered == {"http_check", "command"}
JobTypes   == Registered \cup {"rss_watch"}

\* The condition column: no condition, {"on": ...}, and JSON of another shape.
Conditions == {"none", "failure", "success", "always", "other", "malformed"}

FaultKinds == {"recover", "claim", "commit", "mark", "save", "writeback", "crash"}

ASSUME ConstantsAssumption ==
  /\ Replicas # {} /\ Workers # {} /\ IsFiniteSet(Workers) /\ IsFiniteSet(Jobs)
  /\ JobType \in [Jobs -> JobTypes]
  /\ JobSchedule \in [Jobs -> Schedules]
  /\ JobCondition \in [Jobs -> Conditions]
  /\ Corrupt \subseteq Schedules
  /\ Faults \subseteq FaultKinds
  /\ StaleAge \in Nat /\ ClockSkew \in Nat
  /\ MaxTime \in Nat \ {0} /\ MaxExecs \in Nat /\ MaxStarts \in Nat

\* What the cron library promises: a later time, or the zero time.
ASSUME CronAssumption ==
  /\ CronNext \in [Schedules -> [Times -> Nat]]
  /\ \A s \in Schedules, t \in Times : CronNext[s][t] > t \/ CronNext[s][t] = ZeroTime

ClaimLimit == 2 * Cardinality(Workers)
ChanCap    == 2 * Cardinality(Workers)

-----------------------------------------------------------------------------
VARIABLES
  now,         \* the database's clock, its now()
  jobs,        \* the jobs table
  executions,  \* the executions table; a row's id is its rank of insertion
  claims,      \* claims[e]: the JobClaim of execution e, on its replica's heap
  phase,       \* where Run stands, and whether the process is alive
  ctxDone,     \* the context given to Run is cancelled
  execDone,    \* execCtx is cancelled: the grace period has expired
  loop,        \* where the dispatch loop stands inside tick and ClaimDue
  scan,        \* rows read by ClaimDue's SELECT; its domain is locked
  claimedAt,   \* the `now` of ClaimDue, by the replica's clock
  batch,       \* the scanned jobs to claim, in the order of the SELECT
  pending,     \* the claims tick has not handed over yet
  jobChan,     \* the channel's buffer
  worker,      \* the worker goroutines
  starts,      \* times each replica was started
  dispatched   \* executions whose notification was handed to the dispatcher

dbVars    == <<jobs, executions, claims>>
claimVars == <<scan, claimedAt, batch>>
procVars  == <<phase, ctxDone, execDone, starts>>
vars      == <<now, dbVars, procVars, loop, claimVars, pending, jobChan, worker,
               dispatched>>

JobStatuses  == {"uncreated", "active", "paused", "disabled", "deleted"}
ExecStatuses == {"running", "success", "failure", "error", "deleted"}
Terminal     == {"success", "failure", "error"}
Reasons      == {"none", "executor", "saturated", "shutdown", "stale"}
Phases       == {"down", "starting", "running", "draining", "flushing", "stopped"}
LoopPCs      == {"select", "scanned", "advanced", "dispatching", "marking"}
WorkerPCs    == {"idle", "executing", "cancelled", "writing", "notifying", "exited"}

Timestamps == Nat \cup {NoTime}
JobRows    == [status : JobStatuses, schedule : Schedules,
               condition : Conditions, nextRun : Timestamps]
ExecRows   == [job : Jobs, status : ExecStatuses, error : Reasons, startedAt : Times]
JobClaims  == [job : Jobs, row : JobRows, slot : Timestamps]

\* Every field of the state has its type, and the channel its capacity.
TypeOK ==
  /\ now \in Times
  /\ jobs \in [Jobs -> JobRows]
  /\ executions \in Seq(ExecRows)
  /\ claims \in Seq(JobClaims)
  /\ Len(claims) = Len(executions)
  /\ phase \in [Replicas -> Phases]
  /\ ctxDone \in [Replicas -> BOOLEAN]
  /\ execDone \in [Replicas -> BOOLEAN]
  /\ loop \in [Replicas -> LoopPCs]
  /\ DOMAIN scan = Replicas
  /\ \A r \in Replicas : DOMAIN scan[r] \subseteq Jobs /\ scan[r] \in [DOMAIN scan[r] -> JobRows]
  /\ claimedAt \in [Replicas -> Times]
  /\ batch \in [Replicas -> Seq(Jobs)]
  /\ pending \in [Replicas -> Seq(1 .. Len(executions))]
  /\ jobChan \in [Replicas -> Seq(1 .. Len(executions))]
  /\ \A r \in Replicas : Len(jobChan[r]) <= ChanCap
  /\ worker \in [Replicas -> [Workers ->
        [pc : WorkerPCs, exec : 0 .. Len(executions), status : ExecStatuses]]]
  /\ starts \in [Replicas -> 0 .. MaxStarts]
  /\ dispatched \subseteq 1 .. Len(executions)

-----------------------------------------------------------------------------
(* The tables.                                                              *)

\* What time.Now() may return on some replica: its clock need not be the
\* database's, nor that of another replica, and may be set back.
ReplicaTimes == {t \in Times : now - ClockSkew <= t /\ t <= now + ClockSkew}

\* The row JobService.Create inserts at time t.
NewJob(schedule, condition, t) ==
  [status |-> "active", schedule |-> schedule, condition |-> condition,
   nextRun |-> CronNext[schedule][t]]

\* WHERE status = 'active' AND next_run_at <= now(), false for a NULL.
Due(j) == /\ jobs[j].status = "active"
          /\ jobs[j].nextRun # NoTime
          /\ jobs[j].nextRun <= now

\* FOR UPDATE: the rows the open claim transaction of r has locked.
NoneLockedBy(r) == {}    \* mutant: a plain SELECT
LockedBy(r) == DOMAIN scan[r]
LockedJobs == UNION {LockedBy(r) : r \in Replicas}

\* SKIP LOCKED
Claimable == {j \in Jobs : Due(j)} \ LockedJobs

\* ORDER BY next_run_at ASC LIMIT ClaimLimit, ties in any order
EarliestDue ==
  {S \in SUBSET Claimable :
     /\ Cardinality(S) <= ClaimLimit
     /\ S # Claimable => Cardinality(S) = ClaimLimit
     /\ \A j \in S, k \in Claimable \ S : jobs[j].nextRun <= jobs[k].nextRun}

\* Orderings of the rows S by the next_run_at they were read with.
InDueOrder(S, rows) ==
  {q \in [1 .. Cardinality(S) -> S] :
     /\ \A i, k \in DOMAIN q : i < k =>
          q[i] # q[k] /\ rows[q[i]].nextRun <= rows[q[k]].nextRun}

\* mutant: ... AND status = 'running'
OnlyRunning(row, status, reason) ==
  IF row.status # "running" THEN row
  ELSE [row EXCEPT !.status = status, !.error = reason]

\* UPDATE executions ... WHERE id = e; a deleted row is matched by no id.
WithOutcome(row, status, reason) ==
  IF row.status = "deleted" THEN row
  ELSE [row EXCEPT !.status = status, !.error = reason]

\* An UPDATE of execution e, which is only logged when it fails.
SaveOutcome(e, status, reason, fault) ==
  \/ executions' = [executions EXCEPT ![e] = WithOutcome(@, status, reason)]
  \/ fault \in Faults /\ UNCHANGED executions

-----------------------------------------------------------------------------
(* The process: start, SIGTERM, crash.                                      *)

IdleWorker == [pc |-> "idle", exec |-> 0, status |-> "running"]
EmptyScan  == [j \in {} |-> NewJob(JobSchedule[j], JobCondition[j], 1)]

\* A fresh deployment: no execution, no process.
Fresh ==
  /\ now = 1
  /\ executions = <<>>
  /\ claims = <<>>
  /\ phase = [r \in Replicas |-> "down"]
  /\ ctxDone = [r \in Replicas |-> FALSE]
  /\ execDone = [r \in Replicas |-> FALSE]
  /\ loop = [r \in Replicas |-> "select"]
  /\ scan = [r \in Replicas |-> EmptyScan]
  /\ claimedAt = [r \in Replicas |-> 1]
  /\ batch = [r \in Replicas |-> <<>>]
  /\ pending = [r \in Replicas |-> <<>>]
  /\ jobChan = [r \in Replicas |-> <<>>]
  /\ worker = [r \in Replicas |-> [w \in Workers |-> IdleWorker]]
  /\ starts = [r \in Replicas |-> 0]
  /\ dispatched = {}

Init ==
  /\ jobs = [j \in Jobs |-> NewJob(JobSchedule[j], JobCondition[j], 1)]
  /\ Fresh

TimePasses ==
  /\ now < MaxTime
  /\ now' = now + 1
  /\ UNCHANGED <<dbVars, procVars, loop, claimVars, pending, jobChan, worker, dispatched>>

\* The heap of a process that does not run: nothing is held, nothing is locked.
ResetProcess(r) ==
  /\ ctxDone' = [ctxDone EXCEPT ![r] = FALSE]
  /\ execDone' = [execDone EXCEPT ![r] = FALSE]
  /\ loop' = [loop EXCEPT ![r] = "select"]
  /\ scan' = [scan EXCEPT ![r] = EmptyScan]
  /\ claimedAt' = [claimedAt EXCEPT ![r] = 1]
  /\ batch' = [batch EXCEPT ![r] = <<>>]
  /\ pending' = [pending EXCEPT ![r] = <<>>]
  /\ jobChan' = [jobChan EXCEPT ![r] = <<>>]
  /\ worker' = [worker EXCEPT ![r] = [w \in Workers |-> IdleWorker]]

\* The process comes up and app.Run starts the scheduler.
Start(r) ==
  /\ phase[r] \in {"down", "stopped"}
  /\ starts[r] < MaxStarts
  /\ phase' = [phase EXCEPT ![r] = "starting"]
  /\ starts' = [starts EXCEPT ![r] = @ + 1]
  /\ ResetProcess(r)
  /\ UNCHANGED <<now, dbVars, dispatched>>

\* The process dies; the database rolls its open transaction back.
Crash(r) ==
  /\ "crash" \in Faults
  /\ phase[r] \notin {"down", "stopped"}
  /\ phase' = [phase EXCEPT ![r] = "down"]
  /\ ResetProcess(r)
  /\ UNCHANGED <<now, dbVars, starts, dispatched>>

\* SIGTERM, SIGINT or a failing HTTP server cancels the context of Run.
Terminate(r) ==
  /\ phase[r] \in {"starting", "running"}
  /\ ~ctxDone[r]
  /\ ctxDone' = [ctxDone EXCEPT ![r] = TRUE]
  /\ UNCHANGED <<now, dbVars, phase, execDone, starts, loop, claimVars, pending,
                 jobChan, worker, dispatched>>

AnyOld(row, t) == row.startedAt < t - StaleAge    \* mutant: status not tested

\* Rows still running at time t and started before the cutoff.
Stale(row, t) == row.status = "running" /\ row.startedAt < t - StaleAge

\* recoverStale, once at the start of Run; on an error Run goes on without it.
RecoverStale(r) ==
  /\ phase[r] = "starting"
  /\ phase' = [phase EXCEPT ![r] = "running"]
  /\ \/ /\ ~ctxDone[r]
        /\ \E t \in ReplicaTimes :
             executions' = [e \in DOMAIN executions |->
               IF Stale(executions[e], t) THEN WithOutcome(executions[e], "error", "stale")
               ELSE executions[e]]
     \/ /\ ctxDone[r] \/ "recover" \in Faults
        /\ UNCHANGED executions
  /\ UNCHANGED <<now, jobs, claims, ctxDone, execDone, starts, loop, claimVars,
                 pending, jobChan, worker, dispatched>>

-----------------------------------------------------------------------------
(* tick: the claim transaction, then the hand-over to the workers.          *)

\* What the cron parser accepts.
Parses(schedule) == schedule \notin Corrupt

\* The bound: room for the rows that the claims of the locked jobs and S insert.
Fits(S) ==
  Len(executions) + Cardinality({j \in LockedJobs \cup S : Parses(jobs[j].schedule)})
    <= MaxExecs

\* A tick's SELECT finds due jobs and locks them.  A tick that finds none, or
\* whose context is already cancelled, changes nothing.
ScanDue(r) ==
  /\ phase[r] = "running"
  /\ loop[r] = "select"
  /\ ~ctxDone[r]
  /\ \E S \in EarliestDue \ {{}} :
       /\ Fits(S)
       /\ scan' = [scan EXCEPT ![r] = [j \in S |-> jobs[j]]]
  /\ loop' = [loop EXCEPT ![r] = "scanned"]
  /\ UNCHANGED <<now, dbVars, procVars, claimedAt, batch, pending, jobChan, worker,
                 dispatched>>

Parsing(r) == {j \in DOMAIN scan[r] : Parses(scan[r][j].schedule)}
\* mutant: return, not continue
AllOrNone(r) == IF Parsing(r) = DOMAIN scan[r] THEN DOMAIN scan[r] ELSE {}

\* A row whose schedule does not parse is skipped and stays as it is.
Advanced(r) == Parsing(r)

\* The loop over the rows: next_run_at of each is computed with the replica's clock,
\* which is read once here.  The UPDATEs and INSERTs stay invisible until the commit.
AdvanceNextRun(r) ==
  /\ loop[r] = "scanned"
  /\ \E q \in InDueOrder(Advanced(r), scan[r]) : batch' = [batch EXCEPT ![r] = q]
  /\ \E t \in ReplicaTimes : claimedAt' = [claimedAt EXCEPT ![r] = t]
  /\ loop' = [loop EXCEPT ![r] = "advanced"]
  /\ UNCHANGED <<now, dbVars, procVars, scan, pending, jobChan, worker, dispatched>>

ClaimTime(r, j) == claimedAt[r]    \* mutant: the time of the claim
NextRun(r, j) == CronNext[scan[r][j].schedule][claimedAt[r]]

\* The row of j as the transaction leaves it, which is also the claim's copy.
AdvancedRow(r, j) == [scan[r][j] EXCEPT !.nextRun = NextRun(r, j)]

Claimed(r) == {batch[r][i] : i \in DOMAIN batch[r]}

\* The transaction's writes become visible: next_run_at advanced, one running
\* row inserted for each claimed job.
CommitWrites(r) ==
  /\ jobs' = [j \in Jobs |->
       IF j \in Claimed(r)
       THEN [jobs[j] EXCEPT !.nextRun = NextRun(r, j)]
       ELSE jobs[j]]
  /\ executions' = executions \o [i \in 1 .. Len(batch[r]) |->
       [job |-> batch[r][i], status |-> "running", error |-> "none",
        startedAt |-> claimedAt[r]]]
  /\ claims' = claims \o [i \in 1 .. Len(batch[r]) |->
       [job |-> batch[r][i], row |-> AdvancedRow(r, batch[r][i]),
        slot |-> scan[r][batch[r][i]].nextRun]]

LeavesOpen(r) == UNCHANGED claimVars    \* mutant: neither Commit nor Rollback
EndTransaction(r) ==
  /\ scan' = [scan EXCEPT ![r] = EmptyScan]
  /\ batch' = [batch EXCEPT ![r] = <<>>]
  /\ UNCHANGED claimedAt

\* Where tick stands with the claims q still to hand over.
LoopWith(q) == IF q = <<>> THEN "select" ELSE "dispatching"

\* ids of the rows this transaction inserts
NewIds(r) == [i \in 1 .. Len(batch[r]) |-> Len(executions) + i]

CommitClaim(r) ==
  /\ loop[r] = "advanced"
  /\ CommitWrites(r)
  /\ EndTransaction(r)
  /\ pending' = [pending EXCEPT ![r] = NewIds(r)]
  /\ loop' = [loop EXCEPT ![r] = LoopWith(NewIds(r))]
  /\ UNCHANGED <<now, procVars, jobChan, worker, dispatched>>

\* The database commits but Commit returns an error (context cancelled or
\* connection lost before the answer): ClaimDue returns no claims.
LoseCommit(r) ==
  /\ loop[r] = "advanced"
  /\ ctxDone[r] \/ "commit" \in Faults
  /\ CommitWrites(r)
  /\ EndTransaction(r)
  /\ loop' = [loop EXCEPT ![r] = "select"]
  /\ UNCHANGED <<now, procVars, pending, jobChan, worker, dispatched>>

\* A statement of the transaction fails, or its context is cancelled.
RollbackClaim(r) ==
  /\ loop[r] \in {"scanned", "advanced"}
  /\ ctxDone[r] \/ "claim" \in Faults
  /\ EndTransaction(r)
  /\ loop' = [loop EXCEPT ![r] = "select"]
  /\ UNCHANGED <<now, dbVars, procVars, pending, jobChan, worker, dispatched>>

HasRoomPlusOne(r) == Len(jobChan[r]) <= ChanCap    \* mutant: off by one
HasRoom(r) == Len(jobChan[r]) < ChanCap

StillPending(r) == pending[r]    \* mutant: the loop does not advance
Rest(r) == Tail(pending[r])

\* s.jobChan <- claim
Send(r) ==
  /\ loop[r] = "dispatching"
  /\ HasRoom(r)
  /\ jobChan' = [jobChan EXCEPT ![r] = Append(@, Head(pending[r]))]
  /\ pending' = [pending EXCEPT ![r] = Rest(r)]
  /\ loop' = [loop EXCEPT ![r] = LoopWith(Rest(r))]
  /\ UNCHANGED <<now, dbVars, procVars, claimVars, worker, dispatched>>

SaveUnderDoneCtx(r) == UNCHANGED executions    \* mutant: ctx, not Background
SaveAbandoned(r) == SaveOutcome(Head(pending[r]), "error", "shutdown", "mark")

\* <-ctx.Done(): the claim is marked failed under a fresh context.
AbandonOnShutdown(r) ==
  /\ loop[r] = "dispatching"
  /\ ctxDone[r]
  /\ SaveAbandoned(r)
  /\ pending' = [pending EXCEPT ![r] = Rest(r)]
  /\ loop' = [loop EXCEPT ![r] = LoopWith(Rest(r))]
  /\ UNCHANGED <<now, jobs, claims, procVars, claimVars, jobChan, worker, dispatched>>

\* <-time.After(dispatchTimeout) is chosen while the channel stays full.
Saturate(r) ==
  /\ loop[r] = "dispatching"
  /\ ~HasRoom(r)
  /\ ~ctxDone[r]
  /\ loop' = [loop EXCEPT ![r] = "marking"]
  /\ UNCHANGED <<now, dbVars, procVars, claimVars, pending, jobChan, worker, dispatched>>

\* markFailed under the context of Run, which may be cancelled by now.
MarkSaturated(r) ==
  /\ loop[r] = "marking"
  /\ \/ ~ctxDone[r] /\ SaveOutcome(Head(pending[r]), "error", "saturated", "mark")
     \/ ctxDone[r] /\ UNCHANGED executions
  /\ pending' = [pending EXCEPT ![r] = Rest(r)]
  /\ loop' = [loop EXCEPT ![r] = LoopWith(Rest(r))]
  /\ UNCHANGED <<now, jobs, claims, procVars, claimVars, jobChan, worker, dispatched>>

-----------------------------------------------------------------------------
(* The workers.                                                             *)

SetWorker(r, w, rec) == worker' = [worker EXCEPT ![r][w] = rec]

\* for claim := range s.jobChan
Receive(r, w) ==
  /\ worker[r][w].pc = "idle"
  /\ jobChan[r] # <<>>
  /\ SetWorker(r, w, [pc |-> IF execDone[r] THEN "cancelled" ELSE "executing",
                      exec |-> Head(jobChan[r]), status |-> "running"])
  /\ jobChan' = [jobChan EXCEPT ![r] = Tail(@)]
  /\ UNCHANGED <<now, dbVars, procVars, loop, claimVars, pending, dispatched>>

\* With a cancelled context nothing succeeds: the shell is not started, the
\* request is not sent.
Possible(pc) == IF pc = "cancelled" THEN {"failure", "error"} ELSE Terminal

\* error: a config that does not decode; failure: the shell does not start, is
\* killed with its process group, or exits with another status than 0.
CommandResults(pc) == Possible(pc)

\* error: a config or URL that does not parse; failure: no answer in time, or
\* another status than the expected one.
HTTPCheckResults(pc) == Possible(pc)

\* What Execute can return; no executor is registered for rss_watch.
Outcomes(j, pc) ==
  CASE JobType[j] = "command"    -> CommandResults(pc)
    [] JobType[j] = "http_check" -> HTTPCheckResults(pc)
    [] OTHER                     -> {"error"}

\* Execute returns and the execution row is written.
FinishExecution(r, w) ==
  LET e == worker[r][w].exec IN
  /\ worker[r][w].pc \in {"executing", "cancelled"}
  /\ \E status \in Outcomes(claims[e].job, worker[r][w].pc) :
       /\ SaveOutcome(e, status, "executor", "save")
       /\ SetWorker(r, w, [pc |-> "writing", exec |-> e, status |-> status])
  /\ UNCHANGED <<now, jobs, claims, procVars, loop, claimVars, pending, jobChan, dispatched>>

\* jobRepo.Update writes every column of the row as it was claimed, once no
\* claim transaction locks the row.
WriteBackJob(r, w) ==
  LET c == claims[worker[r][w].exec] IN
  /\ worker[r][w].pc = "writing"
  /\ c.job \notin LockedJobs
  /\ \/ jobs' = [jobs EXCEPT ![c.job] = IF @.status = "deleted" THEN @ ELSE c.row]
     \/ "writeback" \in Faults /\ UNCHANGED jobs
  /\ SetWorker(r, w, [worker[r][w] EXCEPT !.pc = "notifying"])
  /\ UNCHANGED <<now, executions, claims, procVars, loop, claimVars, pending, jobChan,
                 dispatched>>

IsFailure(status) == status \in {"failure", "error"}

\* mutant: an unknown condition always notifies
NotifyOnOther(condition, status) ==
  \/ condition \in {"none", "failure"} /\ IsFailure(status)
  \/ condition = "success" /\ status = "success"
  \/ condition \in {"always", "other"}

ShouldNotify(condition, status) ==
  \/ condition \in {"none", "failure", "other"} /\ IsFailure(status)
  \/ condition = "success" /\ status = "success"
  \/ condition = "always"

\* The end of executeJob: Dispatch is called or not, the worker is free again.
Notify(r, w) ==
  LET e == worker[r][w].exec IN
  /\ worker[r][w].pc = "notifying"
  /\ dispatched' = IF ShouldNotify(claims[e].row.condition, worker[r][w].status)
                   THEN dispatched \cup {e} ELSE dispatched
  /\ SetWorker(r, w, IdleWorker)
  /\ UNCHANGED <<now, dbVars, procVars, loop, claimVars, pending, jobChan>>

-----------------------------------------------------------------------------
(* The end of Run.                                                          *)

\* The loop sees ctx.Done(), leaves and closes the channel.
ExitLoop(r) ==
  /\ phase[r] = "running"
  /\ loop[r] = "select"
  /\ ctxDone[r]
  /\ phase' = [phase EXCEPT ![r] = "draining"]
  /\ UNCHANGED <<now, dbVars, ctxDone, execDone, starts, loop, claimVars, pending,
                 jobChan, worker, dispatched>>

NeverClosed(r)   == FALSE                    \* mutant: close is forgotten
ClosedAtOnce(r)  == phase[r] = "draining"    \* mutant: the buffer is thrown away
ChannelEnded(r)  == phase[r] = "draining" /\ jobChan[r] = <<>>

\* The channel is closed and empty: the range loop of the worker ends.
WorkerExits(r, w) ==
  /\ ChannelEnded(r)
  /\ worker[r][w].pc = "idle"
  /\ SetWorker(r, w, [IdleWorker EXCEPT !.pc = "exited"])
  /\ UNCHANGED <<now, dbVars, procVars, loop, claimVars, pending, jobChan, dispatched>>

AllExited(r) == \A w \in Workers : worker[r][w].pc = "exited"

\* time.After(drainGracePeriod): execCancel
GraceExpires(r) ==
  /\ phase[r] = "draining"
  /\ ~execDone[r]
  /\ ~AllExited(r)
  /\ execDone' = [execDone EXCEPT ![r] = TRUE]
  /\ UNCHANGED <<now, dbVars, phase, ctxDone, starts, loop, claimVars, pending,
                 jobChan, worker, dispatched>>

\* <-done, then dispatcher.Wait
Drained(r) ==
  /\ phase[r] = "draining"
  /\ AllExited(r)
  /\ phase' = [phase EXCEPT ![r] = "flushing"]
  /\ UNCHANGED <<now, dbVars, ctxDone, execDone, starts, loop, claimVars, pending,
                 jobChan, worker, dispatched>>

\* Wait returns, then Run.
Return(r) ==
  /\ phase[r] = "flushing"
  /\ phase' = [phase EXCEPT ![r] = "stopped"]
  /\ UNCHANGED <<now, dbVars, ctxDone, execDone, starts, loop, claimVars, pending,
                 jobChan, worker, dispatched>>

-----------------------------------------------------------------------------
Tick(r) ==
  \/ ScanDue(r) \/ AdvanceNextRun(r) \/ CommitClaim(r) \/ LoseCommit(r)
  \/ RollbackClaim(r) \/ Send(r) \/ AbandonOnShutdown(r) \/ Saturate(r)
  \/ MarkSaturated(r)

Work(r, w) ==
  Receive(r, w) \/ FinishExecution(r, w) \/ WriteBackJob(r, w) \/ Notify(r, w)
  \/ WorkerExits(r, w)

Shutdown(r) == ExitLoop(r) \/ Drained(r) \/ Return(r)

Next ==
  \/ TimePasses
  \/ \E r \in Replicas :
       \/ Start(r) \/ Crash(r) \/ Terminate(r) \/ RecoverStale(r) \/ GraceExpires(r)
       \/ Tick(r) \/ Shutdown(r)
       \/ \E w \in Workers : Work(r, w)

Spec == Init /\ [][Next]_vars

\* The goroutines of a live process run, the ticker ticks, the clock advances,
\* every executor returns (its context has a timeout).  An UPDATE that waits for
\* a row lock is served when the lock is released, also when the row is locked
\* again and again: PostgreSQL queues it, and SKIP LOCKED passes over the row.
\* Nothing is assumed of starts, crashes, signals, failing statements and the
\* grace timer.
Fairness ==
  /\ WF_vars(TimePasses)
  /\ \A r \in Replicas :
       /\ WF_vars(RecoverStale(r)) /\ WF_vars(Tick(r)) /\ WF_vars(Shutdown(r))
       /\ \A w \in Workers : WF_vars(Work(r, w)) /\ SF_vars(WriteBackJob(r, w))

FairSpec == Spec /\ Fairness
=============================================================================
