------------------------------ MODULE JobService ------------------------------
(****************************************************************************)
(* The job service of SignalFlow (internal/service/job.go) beside the       *)
(* scheduler that works on the same rows.  The requests of the API and of   *)
(* the dashboard create, edit, trigger, pause, resume and delete jobs.      *)
(*                                                                          *)
(* An edit is a read of the row, a computation on the copy and a write of   *)
(* the whole copy: two steps, with whatever the scheduler and the other     *)
(* requests do in between.                                                  *)
(****************************************************************************)
EXTENDS SchedulerProperties

CONSTANTS
  Clients,        \* requests in flight at a time
  NewConditions   \* the conditions an update may ask for

ASSUME ClientsAssumption == NewConditions \subseteq Conditions

VARIABLE requests    \* edits between their read and their write

svcVars == <<vars, requests>>

Existing == {"active", "paused", "disabled"}
Exists(j) == jobs[j].status \in Existing

Operations == {"update", "trigger", "pause", "resume"}
Requests == [client : Clients, op : Operations, job : Jobs, row : JobRows]

\* Besides the scheduler's types: a client has one request at a time.
ServiceTypeOK ==
  /\ TypeOK
  /\ requests \subseteq Requests
  /\ \A p, q \in requests : p.client = q.client => p = q

ServiceInit ==
  /\ jobs = [j \in Jobs |->
       [NewJob(JobSchedule[j], JobCondition[j], 1) EXCEPT !.status = "uncreated"]]
  /\ Fresh
  /\ requests = {}

-----------------------------------------------------------------------------
(* One statement: INSERT, DELETE.                                           *)

\* Create refuses a schedule that does not parse.
AcceptAll(schedule) == TRUE    \* mutant: no validation
Accepted(schedule) == Parses(schedule)

Create(j) ==
  /\ jobs[j].status = "uncreated"
  /\ Accepted(JobSchedule[j])
  /\ \E t \in ReplicaTimes :
       jobs' = [jobs EXCEPT ![j] = NewJob(JobSchedule[j], JobCondition[j], t)]
  /\ UNCHANGED <<now, executions, claims, procVars, loop, claimVars, pending, jobChan,
                 worker, dispatched, requests>>

\* ON DELETE CASCADE: the executions go with their job.
NoCascade(j) == UNCHANGED executions    \* mutant: no foreign key
Cascade(j) ==
  executions' = [e \in DOMAIN executions |->
    IF executions[e].job = j THEN [executions[e] EXCEPT !.status = "deleted"]
    ELSE executions[e]]

\* The DELETE waits for the row lock of a claim.
Delete(j) ==
  /\ Exists(j)
  /\ j \notin LockedJobs
  /\ jobs' = [jobs EXCEPT ![j].status = "deleted"]
  /\ Cascade(j)
  /\ UNCHANGED <<now, claims, procVars, loop, claimVars, pending, jobChan, worker,
                 dispatched, requests>>

-----------------------------------------------------------------------------
(* Read, modify, write.                                                     *)

\* GetByID finds the row; the request goes on with `row`, its edited copy.  The
\* clock is read right after the row, in the same step.
Begin(c, op, j, row) ==
  /\ Exists(j)
  /\ \A q \in requests : q.client # c
  /\ requests' = requests \cup {[client |-> c, op |-> op, job |-> j, row |-> row]}
  /\ UNCHANGED vars

\* A new schedule, a new condition, both, or only columns that are left out here.
Rescheduled(row, t) ==
  {[row EXCEPT !.schedule = s, !.nextRun = CronNext[s][t]] :
     s \in {x \in Schedules : Accepted(x)}}
Edited(row, t) ==
  {[r EXCEPT !.condition = k] : r \in {row} \cup Rescheduled(row, t),
                                k \in {row.condition} \cup NewConditions}

Update(c, j) ==
  \E t \in ReplicaTimes : \E row \in Edited(jobs[j], t) : Begin(c, "update", j, row)

\* mutant: resumes, too
Awakened(row, t) == [row EXCEPT !.status = "active", !.nextRun = t]
Triggered(row, t) == [row EXCEPT !.nextRun = t]
TriggerRun(c, j) ==
  \E t \in ReplicaTimes : Begin(c, "trigger", j, Triggered(jobs[j], t))

Pause(c, j) == Begin(c, "pause", j, [jobs[j] EXCEPT !.status = "paused", !.nextRun = NoTime])

\* Resume refuses a stored schedule that does not parse.
Reactivated(row, t) == [row EXCEPT !.status = "active"]    \* mutant: next run not computed
Resumed(row, t) ==
  [row EXCEPT !.status = "active", !.nextRun = CronNext[row.schedule][t]]
Resume(c, j) ==
  /\ Parses(jobs[j].schedule)
  /\ \E t \in ReplicaTimes : Begin(c, "resume", j, Resumed(jobs[j], t))

\* The UPDATE, once no claim transaction locks the row; a deleted row is matched
\* by no id.
WriteAnyway(j) == TRUE    \* mutant: the write does not wait
Unlocked(j) == j \notin LockedJobs

BroughtBack(old, row) == row    \* mutant: INSERT ... ON CONFLICT
Written(old, row) == IF old.status = "deleted" THEN old ELSE row

Write(q) ==
  /\ Unlocked(q.job)
  /\ jobs' = [jobs EXCEPT ![q.job] = Written(@, q.row)]
  /\ requests' = requests \ {q}
  /\ UNCHANGED <<now, executions, claims, procVars, loop, claimVars, pending, jobChan,
                 worker, dispatched>>

\* The client goes away or the UPDATE fails.
Abandon(q) ==
  /\ requests' = requests \ {q}
  /\ UNCHANGED vars

WriteOf(c) == \E q \in requests : q.client = c /\ Write(q)

-----------------------------------------------------------------------------
ServiceNext ==
  \/ Next /\ UNCHANGED requests
  \/ \E j \in Jobs : Create(j) \/ Delete(j)
  \/ \E c \in Clients, j \in Jobs :
       Update(c, j) \/ TriggerRun(c, j) \/ Pause(c, j) \/ Resume(c, j)
  \/ \E c \in Clients : WriteOf(c)
  \/ \E q \in requests : Abandon(q)

ServiceSpec == ServiceInit /\ [][ServiceNext]_svcVars

\* A handler goroutine runs on, and its UPDATE gets the row lock it waits for,
\* as those of the workers do.
ServiceFairSpec == ServiceSpec /\ Fairness /\ \A c \in Clients : SF_svcVars(WriteOf(c))

-----------------------------------------------------------------------------
(* What the owner of a job may rely on.                                     *)

\* A row the scheduler can claim some day, if it is to.
Runnable(row) == row.status = "active" => row.nextRun # NoTime /\ Parses(row.schedule)

\* An active job has a next run and a schedule that parses, whatever stale copies
\* the workers and the requests write over each other: no job is active and never
\* runs again (Create, Update, Pause, Resume, ClaimDue, executeJob).
ActiveIsRunnable == \A j \in Jobs : Runnable(jobs[j])

\* No execution outlives its job and none is lost before it: outcomes and
\* recoveries that come late do not bring a row back, and a claim transaction
\* inserts none for a job that is gone (Delete against ClaimDue and executeJob).
ExecutionsFollowJobs ==
  \A e \in DOMAIN executions :
    executions[e].status = "deleted" <=> jobs[executions[e].job].status = "deleted"

\* A claim is the claim of a job whose owner had it active: no paused or deleted
\* row is ever inside a claim transaction.
OnlyActiveClaimed ==
  \A r \in Replicas : \A j \in DOMAIN scan[r] : jobs[j].status = "active"

\* Every copy of a row that may still be written back is one the table may hold:
\* that of a claim is active, that of a request is of a job, and both are runnable.
CopiesAreRunnable ==
  /\ \A e \in DOMAIN claims : claims[e].row.status = "active" /\ Runnable(claims[e].row)
  /\ \A q \in requests : q.row.status \in Existing /\ Runnable(q.row)

\* The inductive invariant behind the service's safety properties.  In the
\* presence of requests the scheduler keeps its own.
ServiceInv ==
  /\ SafetyInv /\ ServiceTypeOK
  /\ ActiveIsRunnable /\ CopiesAreRunnable
  /\ OnlyActiveClaimed /\ ExecutionsFollowJobs

\* A deleted job stays deleted.
DeletedForGood ==
  [][\A j \in Jobs : jobs[j].status = "deleted" => jobs'[j] = jobs[j]]_svcVars

\* Claims that a worker of r may still write back.
Unwritten(r) ==
  Unsaved(r) \cup {worker[r][w].exec : w \in {v \in Workers : worker[r][v].pc = "writing"}}

\* The owner has paused j, and nobody holds a copy of the row that says otherwise.
AtRest(j) ==
  /\ jobs[j].status = "paused"
  /\ \A r \in Replicas : \A e \in Unwritten(r) : claims[e].job # j
  /\ \A q \in requests : q.job = j => q.row.status = "paused"

\* A pause that nothing in flight undoes holds: no trigger, no edit, no late claim
\* and no write-back makes the job run again until a Resume begins or it is deleted
\* (Pause, TriggerRun and Update against ClaimDue and executeJob).
RestHolds ==
  [][\A j \in Jobs : AtRest(j) =>
       \/ AtRest(j)' \/ jobs'[j].status = "deleted"
       \/ \E q \in requests' : q.op = "resume" /\ q.job = j]_svcVars

\* A request that has read the row is answered (Update, TriggerRun, Pause and
\* Resume against the row locks of ClaimDue).
RequestsEnd ==
  \A c \in Clients : (\E q \in requests : q.client = c) ~> (\A q \in requests : q.client # c)

\* A paused job is claimed again only after its owner resumes it: nothing but the
\* write of a Resume makes it active (Pause against the other requests and against
\* the write-back of an execution that was in progress when the owner paused).
PauseHolds ==
  [][\A j \in Jobs :
       jobs[j].status = "paused" /\ jobs'[j].status = "active"
         => \E q \in requests \ requests' : q.op = "resume" /\ q.job = j]_svcVars
=============================================================================
