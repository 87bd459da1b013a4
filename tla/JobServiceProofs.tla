--------------------------- MODULE JobServiceProofs ---------------------------
(****************************************************************************)
(* The safety of the job service beside the scheduler, for every number of  *)
(* clients, replicas, workers and jobs.  The requests take steps between    *)
(* those of the scheduler; what SchedulerProofs proves of one step of the   *)
(* scheduler holds from every state they leave behind.  A pause holds when  *)
(* nothing in flight undoes it, and scheduler and requests together still   *)
(* implement the ledger.                                                    *)
(****************************************************************************)
EXTENDS JobService, LedgerProofs

-----------------------------------------------------------------------------
(* What a step of the scheduler does to the tables.                         *)

\* No row comes or goes, none moves to another job, none is deleted or restored.
RowsKept ==
  /\ DOMAIN executions' = DOMAIN executions
  /\ \A e \in DOMAIN executions :
       /\ executions'[e].job = executions[e].job
       /\ executions'[e].status = "deleted" <=> executions[e].status = "deleted"

LEMMA OutcomeKeepsRow ==
  ASSUME NEW row \in ExecRows, NEW status \in Terminal, NEW reason
  PROVE  /\ WithOutcome(row, status, reason).job = row.job
         /\ WithOutcome(row, status, reason).status = "deleted" <=> row.status = "deleted"
  BY DEF WithOutcome, ExecRows, Terminal

LEMMA SaveKeepsRows ==
  ASSUME TypeOK, NEW e \in DOMAIN executions, NEW status \in Terminal, NEW reason,
         NEW fault, SaveOutcome(e, status, reason, fault)
  PROVE  RowsKept
  <1> DEFINE row == WithOutcome(executions[e], status, reason)
  <1>1. executions[e] \in ExecRows
    BY DEF TypeOK
  <1>2. row.job = executions[e].job /\ (row.status = "deleted" <=> executions[e].status = "deleted")
    BY <1>1, OutcomeKeepsRow
  <1>3. executions' = executions \/ executions' = [executions EXCEPT ![e] = row]
    BY DEF SaveOutcome
  <1> HIDE DEF row
  <1>4. QED
    BY <1>2, <1>3 DEF RowsKept

LEMMA RecoverKeepsRows ==
  ASSUME TypeOK, NEW r \in Replicas, RecoverStale(r)
  PROVE  RowsKept
  <1>1. CASE UNCHANGED executions
    BY <1>1 DEF RowsKept
  <1>2. ASSUME NEW t \in ReplicaTimes,
               executions' = [e \in DOMAIN executions |->
                 IF Stale(executions[e], t) THEN WithOutcome(executions[e], "error", "stale")
                 ELSE executions[e]]
        PROVE  RowsKept
    <2>2. \A e \in DOMAIN executions :
            LET row == WithOutcome(executions[e], "error", "stale")
            IN  row.job = executions[e].job /\ (row.status = "deleted" <=> executions[e].status = "deleted")
      <3>1. \A e \in DOMAIN executions : executions[e] \in ExecRows
        BY DEF TypeOK
      <3>2. "error" \in Terminal
        BY DEF Terminal
      <3>3. QED
        BY <3>1, <3>2, OutcomeKeepsRow
    <2>3. QED
      BY <1>2, <2>2 DEF RowsKept
  <1>3. QED
    BY <1>1, <1>2 DEF RecoverStale

\* A step of the scheduler commits a claim, writes a claimed row back, or leaves
\* the jobs, the claims and the executions' jobs alone.
LEMMA StepOnTables ==
  ASSUME TypeOK, ControlOK, [Next]_vars
  PROVE  \/ \E r \in Replicas : CommitWrites(r)
         \/ \E r \in Replicas, w \in Workers : WriteBackJob(r, w)
         \/ UNCHANGED <<jobs, claims>> /\ RowsKept
  <1> DEFINE Quiet == UNCHANGED <<jobs, claims>> /\ RowsKept
  <1>1. UNCHANGED dbVars => Quiet
    BY DEF dbVars, RowsKept
  <1>2. CASE TimePasses \/ UNCHANGED vars
    BY <1>1, <1>2 DEF TimePasses, vars
  <1>3. ASSUME NEW r \in Replicas,
               \/ Start(r) \/ Crash(r) \/ Terminate(r) \/ RecoverStale(r) \/ GraceExpires(r)
               \/ Shutdown(r)
        PROVE  Quiet
    <2>1. CASE RecoverStale(r)
      BY <2>1, RecoverKeepsRows DEF RecoverStale
    <2>2. CASE Start(r) \/ Crash(r) \/ Terminate(r) \/ GraceExpires(r) \/ Shutdown(r)
      BY <1>1, <2>2 DEF Start, Crash, Terminate, GraceExpires, Shutdown, ExitLoop, Drained, Return
    <2>3. QED
      BY <1>3, <2>1, <2>2
  <1>4. ASSUME NEW r \in Replicas, Tick(r)
        PROVE  CommitWrites(r) \/ Quiet
    <2>1. CASE CommitClaim(r) \/ LoseCommit(r)
      BY <2>1 DEF CommitClaim, LoseCommit
    <2>2. CASE AbandonOnShutdown(r) \/ MarkSaturated(r)
      <3>1. Head(pending[r]) \in DOMAIN executions
        BY <2>2, HandedOver DEF AbandonOnShutdown, MarkSaturated
      <3>2. "error" \in Terminal
        BY DEF Terminal
      <3>3. \/ UNCHANGED executions
            \/ \E reason \in {"shutdown", "saturated"} :
                 SaveOutcome(Head(pending[r]), "error", reason, "mark")
        BY <2>2 DEF AbandonOnShutdown, SaveAbandoned, MarkSaturated
      <3>4. RowsKept
        <4>1. CASE UNCHANGED executions
          BY <4>1 DEF RowsKept
        <4>2. QED
          BY <3>1, <3>2, <3>3, <4>1, SaveKeepsRows
      <3>5. QED
        BY <2>2, <3>4 DEF AbandonOnShutdown, MarkSaturated
    <2>3. CASE ScanDue(r) \/ AdvanceNextRun(r) \/ RollbackClaim(r) \/ Send(r) \/ Saturate(r)
      BY <1>1, <2>3 DEF ScanDue, AdvanceNextRun, RollbackClaim, Send, Saturate
    <2>4. QED
      BY <1>4, <2>1, <2>2, <2>3 DEF Tick
  <1>5. ASSUME NEW r \in Replicas, NEW w \in Workers, Work(r, w)
        PROVE  WriteBackJob(r, w) \/ Quiet
    <2>1. CASE FinishExecution(r, w)
      <3> DEFINE e == worker[r][w].exec
      <3>1. e \in DOMAIN executions
        BY <2>1, BusyHasClaim DEF FinishExecution, Busy
      <3>2. PICK status : /\ status \in Outcomes(claims[e].job, worker[r][w].pc)
                          /\ SaveOutcome(e, status, "executor", "save")
        BY <2>1 DEF FinishExecution
      <3>3. status \in Terminal
        BY <3>2, OutcomesAreTerminal
      <3> HIDE DEF e
      <3>4. RowsKept
        BY <3>1, <3>2, <3>3, SaveKeepsRows
      <3>5. QED
        BY <2>1, <3>4 DEF FinishExecution
    <2>2. CASE Receive(r, w) \/ Notify(r, w) \/ WorkerExits(r, w)
      BY <1>1, <2>2 DEF Receive, Notify, WorkerExits
    <2>3. QED
      BY <1>5, <2>1, <2>2 DEF Work
  <1>6. QED
    BY <1>2, <1>3, <1>4, <1>5 DEF Next

\* What a committing transaction adds: running rows and claims of the jobs it
\* locked, each claim with the row as it leaves it.
LEMMA CommittedTables ==
  ASSUME TypeOK, ControlOK, NEW r \in Replicas, CommitWrites(r)
  PROVE  /\ \A j \in Jobs :
              \/ jobs'[j] = jobs[j]
              \/ /\ j \in DOMAIN scan[r]
                 /\ jobs'[j] = [jobs[j] EXCEPT !.nextRun =
                       CronNext[scan[r][j].schedule][claimedAt[r]]]
         /\ \A e \in DOMAIN executions' :
              \/ e \in DOMAIN executions /\ executions'[e] = executions[e]
              \/ executions'[e].job \in DOMAIN scan[r] /\ executions'[e].status = "running"
         /\ \A e \in DOMAIN claims' :
              \/ e \in DOMAIN claims /\ claims'[e] = claims[e]
              \/ \E j \in DOMAIN scan[r] : claims'[e].row = AdvancedRow(r, j)
  <1> DEFINE n == Len(executions)
             k == Len(batch[r])
             exec(i) == [job |-> batch[r][i], status |-> "running", error |-> "none",
                         startedAt |-> claimedAt[r]]
             claim(i) == [job |-> batch[r][i], row |-> AdvancedRow(r, batch[r][i]),
                          slot |-> scan[r][batch[r][i]].nextRun]
             execs == [i \in 1 .. k |-> exec(i)]
             cls == [i \in 1 .. k |-> claim(i)]
  <1>1. /\ executions \in Seq(ExecRows) /\ claims \in Seq(JobClaims)
        /\ n \in Nat /\ k \in Nat /\ Len(claims) = n
        /\ DOMAIN executions = 1 .. n /\ DOMAIN claims = 1 .. n /\ DOMAIN batch[r] = 1 .. k
    BY LenProperties DEF TypeOK
  <1>2. \A i \in 1 .. k : batch[r][i] \in Jobs /\ batch[r][i] \in DOMAIN scan[r]
    BY <1>1 DEF ControlOK, TypeOK
  <1>3. Claimed(r) \subseteq DOMAIN scan[r]
    BY <1>1, <1>2 DEF Claimed
  <1>4. \A j \in Jobs :
          \/ jobs'[j] = jobs[j]
          \/ /\ j \in DOMAIN scan[r]
             /\ jobs'[j] = [jobs[j] EXCEPT !.nextRun =
                   CronNext[scan[r][j].schedule][claimedAt[r]]]
    BY <1>3 DEF CommitWrites, NextRun
  <1>5. /\ \A i \in 1 .. k : execs[i].job \in DOMAIN scan[r] /\ execs[i].status = "running"
        /\ \A i \in 1 .. k : \E j \in DOMAIN scan[r] : cls[i].row = AdvancedRow(r, j)
    BY <1>2
  <1>6. executions' = executions \o execs /\ claims' = claims \o cls
    BY DEF CommitWrites
  <1>7. DOMAIN execs = 1 .. k /\ DOMAIN cls = 1 .. k
    OBVIOUS
  <1>8. Len(execs) = k /\ Len(cls) = k
    BY <1>1, <1>7
  <1> HIDE DEF execs, cls, n, k
  <1>9. /\ DOMAIN executions' = 1 .. n + k
        /\ \A e \in 1 .. n + k :
             executions'[e] = IF e <= n THEN executions[e] ELSE execs[e - n]
    BY <1>1, <1>6, <1>8 DEF n
  <1>10. /\ DOMAIN claims' = 1 .. n + k
         /\ \A e \in 1 .. n + k : claims'[e] = IF e <= n THEN claims[e] ELSE cls[e - n]
    <2>1. /\ DOMAIN (claims \o cls) = 1 .. Len(claims) + Len(cls)
          /\ \A e \in 1 .. Len(claims) + Len(cls) :
               (claims \o cls)[e] = IF e <= Len(claims) THEN claims[e] ELSE cls[e - Len(claims)]
      OBVIOUS
    <2>2. QED
      BY <1>1, <1>6, <1>8, <2>1
  <1>11. \A e \in 1 .. n + k : e <= n \/ e - n \in 1 .. k
    BY <1>1
  <1>12. \A e \in DOMAIN executions' :
           \/ e \in DOMAIN executions /\ executions'[e] = executions[e]
           \/ executions'[e].job \in DOMAIN scan[r] /\ executions'[e].status = "running"
    BY <1>1, <1>5, <1>9, <1>11
  <1>13. \A e \in DOMAIN claims' :
           \/ e \in DOMAIN claims /\ claims'[e] = claims[e]
           \/ \E j \in DOMAIN scan[r] : claims'[e].row = AdvancedRow(r, j)
    BY <1>1, <1>5, <1>10, <1>11
  <1>14. QED
    BY <1>4, <1>12, <1>13

\* Replicas end their transactions or keep them, unless they read new rows.
LEMMA StepOnScan ==
  ASSUME TypeOK, [Next]_vars, NEW s \in Replicas
  PROVE  ScanDue(s) \/ scan'[s] = scan[s] \/ DOMAIN scan'[s] = {}
  <1> DEFINE Kept == scan'[s] = scan[s] \/ DOMAIN scan'[s] = {}
  <1>1. ASSUME NEW r \in Replicas, scan' = [scan EXCEPT ![r] = EmptyScan]
        PROVE  Kept
    BY <1>1, EmptyScanType DEF TypeOK
  <1>2. CASE UNCHANGED scan
    BY <1>2
  <1>3. ASSUME NEW r \in Replicas,
               \/ Start(r) \/ Crash(r) \/ Terminate(r) \/ RecoverStale(r) \/ GraceExpires(r)
               \/ Shutdown(r)
        PROVE  Kept
    BY <1>1, <1>2, <1>3 DEF Start, Crash, ResetProcess, Terminate, RecoverStale, GraceExpires,
                            Shutdown, ExitLoop, Drained, Return, claimVars
  <1>4. ASSUME NEW r \in Replicas, Tick(r), ~ScanDue(s)
        PROVE  Kept
    <2>1. CASE ScanDue(r)
      BY <1>4, <2>1 DEF ScanDue, TypeOK
    <2>2. CASE CommitClaim(r) \/ LoseCommit(r) \/ RollbackClaim(r)
      BY <1>1, <2>2 DEF CommitClaim, LoseCommit, RollbackClaim, EndTransaction
    <2>3. CASE \/ AdvanceNextRun(r) \/ Send(r) \/ AbandonOnShutdown(r) \/ Saturate(r)
               \/ MarkSaturated(r)
      BY <1>2, <2>3 DEF AdvanceNextRun, Send, AbandonOnShutdown, Saturate, MarkSaturated, claimVars
    <2>4. QED
      BY <1>4, <2>1, <2>2, <2>3 DEF Tick
  <1>5. ASSUME NEW r \in Replicas, NEW w \in Workers, Work(r, w)
        PROVE  Kept
    BY <1>2, <1>5 DEF Work, Receive, FinishExecution, WriteBackJob, Notify, WorkerExits, claimVars
  <1>6. CASE TimePasses \/ UNCHANGED vars
    BY <1>2, <1>6 DEF TimePasses, vars, claimVars
  <1>7. QED
    BY <1>3, <1>4, <1>5, <1>6 DEF Next

-----------------------------------------------------------------------------
(* Steps of the scheduler keep the service's invariant.                     *)

\* The rows of a claim transaction are those of active jobs as it reads them, and
\* nobody can change them afterwards.
LEMMA SchedulerKeepsActive ==
  ASSUME TypeOK, ControlOK, ClaimReadsStayCurrent, OnlyActiveClaimed, [Next]_vars
  PROVE  OnlyActiveClaimed'
  <1>1. ClaimReadsStayCurrent'
    BY StepKeepsReads
  <1>2. SUFFICES ASSUME NEW r \in Replicas, NEW j \in DOMAIN scan'[r]
                 PROVE  jobs'[j].status = "active"
    BY DEF OnlyActiveClaimed
  <1>3. jobs'[j] = scan'[r][j]
    BY <1>1 DEF ClaimReadsStayCurrent
  <1>4. CASE ScanDue(r)
    <2>1. PICK S \in EarliestDue : scan' = [scan EXCEPT ![r] = [k \in S |-> jobs[k]]]
      BY <1>4 DEF ScanDue
    <2>2. scan'[r] = [k \in S |-> jobs[k]]
      BY <2>1 DEF TypeOK
    <2>3. j \in S /\ Due(j)
      BY <2>1, <2>2 DEF EarliestDue, Claimable
    <2>4. QED
      BY <1>3, <2>2, <2>3 DEF Due
  <1>5. CASE scan'[r] = scan[r]
    BY <1>3, <1>5 DEF ClaimReadsStayCurrent, OnlyActiveClaimed
  <1>6. QED
    BY <1>2, <1>4, <1>5, StepOnScan

LEMMA RowsHaveJobs ==
  ASSUME TypeOK
  PROVE  \A e \in DOMAIN executions : executions[e].job \in Jobs
  <1>1. \A e \in DOMAIN executions : executions[e] \in ExecRows
    BY DEF TypeOK
  <1>2. QED
    BY <1>1 DEF ExecRows

\* Jobs that are written keep their existence and become runnable rows.
JobsKept ==
  \A j \in Jobs :
    /\ jobs'[j].status = "deleted" <=> jobs[j].status = "deleted"
    /\ Runnable(jobs[j]) => Runnable(jobs'[j])

LEMMA CommitKeepsJobs ==
  ASSUME ServiceInv, NEW r \in Replicas, CommitWrites(r)
  PROVE  /\ JobsKept /\ ExecutionsFollowJobs'
         /\ \A e \in DOMAIN claims' : claims'[e].row.status = "active" /\ Runnable(claims'[e].row)
  <1> DEFINE next(j) == CronNext[scan[r][j].schedule][claimedAt[r]]
  <1>1. /\ TypeOK /\ ControlOK /\ ClaimReadsStayCurrent /\ OnlyActiveClaimed /\ ActiveIsRunnable
        /\ ExecutionsFollowJobs /\ CopiesAreRunnable
    BY DEF ServiceInv, SafetyInv
  <1>2. \A j \in DOMAIN scan[r] :
          /\ j \in Jobs /\ jobs[j] \in JobRows /\ jobs[j] = scan[r][j]
          /\ jobs[j].status = "active" /\ Runnable(jobs[j])
    BY <1>1 DEF TypeOK, ClaimReadsStayCurrent, OnlyActiveClaimed, ActiveIsRunnable
  <1>3. \A j \in DOMAIN scan[r] : next(j) \in Nat /\ next(j) # NoTime
    <2>1. TAKE j \in DOMAIN scan[r]
    <2>2. scan[r][j].schedule \in Schedules /\ claimedAt[r] \in Times
      BY <1>1, <1>2 DEF TypeOK, JobRows
    <2>3. next(j) \in Nat
      BY <2>2, CronAssumption
    <2>4. QED
      BY <2>3 DEF NoTime
  <1>4. \A j \in DOMAIN scan[r] :
          /\ [jobs[j] EXCEPT !.nextRun = next(j)].status = "active"
          /\ Runnable([jobs[j] EXCEPT !.nextRun = next(j)])
    BY <1>2, <1>3 DEF Runnable, JobRows
  <1> HIDE DEF next
  <1>5. /\ \A j \in Jobs :
             \/ jobs'[j] = jobs[j]
             \/ j \in DOMAIN scan[r] /\ jobs'[j] = [jobs[j] EXCEPT !.nextRun = next(j)]
        /\ \A e \in DOMAIN executions' :
             \/ e \in DOMAIN executions /\ executions'[e] = executions[e]
             \/ executions'[e].job \in DOMAIN scan[r] /\ executions'[e].status = "running"
        /\ \A e \in DOMAIN claims' :
             \/ e \in DOMAIN claims /\ claims'[e] = claims[e]
             \/ \E j \in DOMAIN scan[r] : claims'[e].row = AdvancedRow(r, j)
    BY <1>1, CommittedTables DEF next
  <1>6. JobsKept
    <2>1. SUFFICES ASSUME NEW j \in Jobs
                   PROVE  /\ jobs'[j].status = "deleted" <=> jobs[j].status = "deleted"
                          /\ Runnable(jobs[j]) => Runnable(jobs'[j])
      BY DEF JobsKept
    <2>2. CASE jobs'[j] = jobs[j]
      BY <2>2
    <2>3. CASE j \in DOMAIN scan[r] /\ jobs'[j] = [jobs[j] EXCEPT !.nextRun = next(j)]
      <3>1. jobs[j].status = "active" /\ jobs'[j].status = "active" /\ Runnable(jobs'[j])
        BY <1>2, <1>4, <2>3
      <3>2. QED
        BY <3>1
    <2>4. QED
      BY <1>5, <2>2, <2>3
  <1>7. ExecutionsFollowJobs'
    <2>1. \A e \in DOMAIN executions : executions[e].job \in Jobs
      BY <1>1, RowsHaveJobs
    <2>2. QED
      BY <1>1, <1>2, <1>5, <1>6, <2>1 DEF ExecutionsFollowJobs, JobsKept
  <1>8. \A j \in DOMAIN scan[r] :
          AdvancedRow(r, j).status = "active" /\ Runnable(AdvancedRow(r, j))
    BY <1>2, <1>4 DEF AdvancedRow, NextRun, next
  <1>9. \A e \in DOMAIN claims' : claims'[e].row.status = "active" /\ Runnable(claims'[e].row)
    BY <1>1, <1>5, <1>8 DEF CopiesAreRunnable
  <1>10. QED
    BY <1>6, <1>7, <1>9

LEMMA WriteBackKeepsJobs ==
  ASSUME ServiceInv, NEW r \in Replicas, NEW w \in Workers, WriteBackJob(r, w)
  PROVE  JobsKept /\ UNCHANGED <<executions, claims>>
  <1> DEFINE c == claims[worker[r][w].exec]
  <1>1. TypeOK /\ ControlOK /\ CopiesAreRunnable
    BY DEF ServiceInv, SafetyInv
  <1>2. /\ worker[r][w].exec \in DOMAIN claims /\ c \in JobClaims
    <2>1. worker[r][w].exec \in 1 .. Len(executions) /\ c \in JobClaims
      BY <1>1, BusyHasClaim DEF WriteBackJob, Busy
    <2>2. DOMAIN claims = 1 .. Len(executions)
      BY <1>1, LenProperties DEF TypeOK
    <2>3. QED
      BY <2>1, <2>2
  <1>3. c.job \in Jobs /\ c.row.status = "active" /\ Runnable(c.row)
    BY <1>1, <1>2 DEF CopiesAreRunnable, JobClaims
  <1>4. /\ \/ jobs' = [jobs EXCEPT ![c.job] = IF @.status = "deleted" THEN @ ELSE c.row]
           \/ UNCHANGED jobs
        /\ UNCHANGED <<executions, claims>>
    BY DEF WriteBackJob
  <1> HIDE DEF c
  <1>5. JobsKept
    BY <1>1, <1>3, <1>4 DEF JobsKept, TypeOK
  <1>6. QED
    BY <1>4, <1>5

LEMMA FollowUnchanged ==
  ASSUME TypeOK, ExecutionsFollowJobs, RowsKept, JobsKept
  PROVE  ExecutionsFollowJobs'
  <1>1. \A e \in DOMAIN executions : executions[e].job \in Jobs
    BY RowsHaveJobs
  <1>2. QED
    BY <1>1 DEF ExecutionsFollowJobs, RowsKept, JobsKept

LEMMA SchedulerKeepsService ==
  ASSUME ServiceInv, [Next]_vars, UNCHANGED requests
  PROVE  ServiceInv'
  <1>1. /\ SafetyInv /\ TypeOK /\ ControlOK /\ ClaimReadsStayCurrent /\ InClaimOrder /\ HeldApart
        /\ UnsavedRowsAreOpen /\ ServiceTypeOK /\ ActiveIsRunnable /\ CopiesAreRunnable
        /\ OnlyActiveClaimed /\ ExecutionsFollowJobs
    BY DEF ServiceInv, SafetyInv
  <1>2. SafetyInv'
    BY <1>1, StepTyped, StepKeepsReads, StepKeepsOrder, StepKeepsOpen DEF SafetyInv
  <1>3. ServiceTypeOK'
    BY <1>1, <1>2 DEF ServiceTypeOK, SafetyInv
  <1>4. OnlyActiveClaimed'
    BY <1>1, SchedulerKeepsActive
  <1>5. /\ JobsKept /\ ExecutionsFollowJobs'
        /\ \A e \in DOMAIN claims' : claims'[e].row.status = "active" /\ Runnable(claims'[e].row)
    <2>1. CASE \E r \in Replicas : CommitWrites(r)
      BY <2>1, CommitKeepsJobs
    <2>2. ASSUME JobsKept, RowsKept, UNCHANGED claims
          PROVE  /\ JobsKept /\ ExecutionsFollowJobs'
                 /\ \A e \in DOMAIN claims' :
                      claims'[e].row.status = "active" /\ Runnable(claims'[e].row)
      BY <1>1, <2>2, FollowUnchanged DEF CopiesAreRunnable
    <2>3. CASE \E r \in Replicas, w \in Workers : WriteBackJob(r, w)
      BY <2>2, <2>3, WriteBackKeepsJobs DEF RowsKept
    <2>4. CASE UNCHANGED <<jobs, claims>> /\ RowsKept
      BY <2>2, <2>4 DEF JobsKept
    <2>5. QED
      BY <1>1, <2>1, <2>3, <2>4, StepOnTables
  <1>6. ActiveIsRunnable'
    BY <1>1, <1>5 DEF ActiveIsRunnable, JobsKept
  <1>7. CopiesAreRunnable'
    BY <1>1, <1>5 DEF CopiesAreRunnable
  <1>8. QED
    BY <1>2, <1>3, <1>4, <1>5, <1>6, <1>7 DEF ServiceInv

-----------------------------------------------------------------------------
(* Steps of the requests keep it too.                                       *)

\* A request changes rows of the tables that no transaction has locked, and
\* nothing of the processes.
LEMMA TablesKeepSafety ==
  ASSUME SafetyInv, jobs' \in [Jobs -> JobRows],
         executions' \in Seq(ExecRows), Len(executions') = Len(executions),
         \A r \in Replicas : \A j \in DOMAIN scan[r] : jobs'[j] = jobs[j],
         \A e \in DOMAIN executions :
           executions'[e] = executions[e] \/ executions'[e].status = "deleted",
         UNCHANGED <<now, claims, procVars, loop, claimVars, pending, jobChan, worker, dispatched>>
  PROVE  SafetyInv'
  <1>1. /\ TypeOK /\ ControlOK /\ ClaimReadsStayCurrent /\ InClaimOrder /\ HeldApart
        /\ UnsavedRowsAreOpen
    BY DEF SafetyInv
  <1>2. TypeOK'
    BY <1>1 DEF TypeOK, procVars, claimVars
  <1>3. DOMAIN executions' = DOMAIN executions
    BY <1>1, SameLengthTyped
  <1>4. ControlOK'
    BY <1>1, <1>3 DEF ControlOK, Busy, claimVars
  <1>5. ClaimReadsStayCurrent'
    BY <1>1 DEF ClaimReadsStayCurrent, claimVars
  <1>6. InClaimOrder'
    BY <1>1 DEF InClaimOrder, Ordered, Busy
  <1>7. \A r \in Replicas : Held(r)' = Held(r) /\ Unsaved(r)' = Unsaved(r)
    BY DEF Held, Unsaved, Elements, BusyWith, RunningWith, Busy, Running
  <1>8. HeldApart'
    BY <1>1, <1>7 DEF HeldApart
  <1>9. UnsavedRowsAreOpen'
    <2>1. \A r \in Replicas : Unsaved(r) \subseteq DOMAIN executions
      BY <1>1, UnsavedHeld, HeldHasRow, LenProperties DEF TypeOK
    <2>2. QED
      BY <1>1, <1>7, <2>1 DEF UnsavedRowsAreOpen
  <1>10. QED
    BY <1>2, <1>4, <1>5, <1>6, <1>8, <1>9 DEF SafetyInv

LEMMA ActiveUnchanged ==
  ASSUME OnlyActiveClaimed, UNCHANGED scan,
         \A r \in Replicas : \A j \in DOMAIN scan[r] : jobs'[j] = jobs[j]
  PROVE  OnlyActiveClaimed'
  BY DEF OnlyActiveClaimed

LEMMA CreateKeepsService ==
  ASSUME ServiceInv, NEW j \in Jobs, Create(j)
  PROVE  ServiceInv'
  <1>0. PICK t \in ReplicaTimes :
          jobs' = [jobs EXCEPT ![j] = NewJob(JobSchedule[j], JobCondition[j], t)]
    BY DEF Create
  <1> DEFINE row == NewJob(JobSchedule[j], JobCondition[j], t)
  <1>1. /\ SafetyInv /\ TypeOK /\ ServiceTypeOK /\ ActiveIsRunnable /\ CopiesAreRunnable
        /\ OnlyActiveClaimed /\ ExecutionsFollowJobs
    BY DEF ServiceInv, SafetyInv
  <1>2. row \in JobRows /\ row.status = "active" /\ Runnable(row)
    <2>1. JobSchedule[j] \in Schedules /\ JobCondition[j] \in Conditions /\ t \in Times
      BY ConstantsAssumption DEF ReplicaTimes
    <2>2. CronNext[JobSchedule[j]][t] \in Nat
      BY <2>1, CronAssumption
    <2>3. Parses(JobSchedule[j])
      BY DEF Create, Accepted
    <2>4. QED
      BY <2>1, <2>2, <2>3 DEF NewJob, JobRows, JobStatuses, Timestamps, Runnable, NoTime
  <1>3. jobs[j].status = "uncreated" /\ jobs' = [jobs EXCEPT ![j] = row]
    BY <1>0 DEF Create
  <1> HIDE DEF row
  <1>4. /\ jobs' \in [Jobs -> JobRows] /\ jobs'[j] = row
        /\ \A k \in Jobs : k # j => jobs'[k] = jobs[k]
    BY <1>1, <1>2, <1>3 DEF TypeOK
  <1>5. \A r \in Replicas : \A k \in DOMAIN scan[r] : jobs'[k] = jobs[k]
    BY <1>1, <1>3, <1>4 DEF OnlyActiveClaimed, TypeOK
  <1>6. UNCHANGED <<now, executions, claims, procVars, loop, claimVars, pending, jobChan, worker,
                    dispatched, requests>>
    BY DEF Create
  <1>7. SafetyInv'
    BY <1>1, <1>4, <1>5, <1>6, TablesKeepSafety DEF TypeOK
  <1>8. ServiceTypeOK'
    BY <1>1, <1>6, <1>7 DEF ServiceTypeOK, SafetyInv
  <1>9. ActiveIsRunnable' /\ CopiesAreRunnable'
    BY <1>1, <1>2, <1>4, <1>6 DEF ActiveIsRunnable, CopiesAreRunnable
  <1>10. JobsKept
    BY <1>2, <1>3, <1>4 DEF JobsKept
  <1>11. RowsKept
    BY <1>6 DEF RowsKept
  <1>12. OnlyActiveClaimed' /\ ExecutionsFollowJobs'
    BY <1>1, <1>5, <1>6, <1>10, <1>11, ActiveUnchanged, FollowUnchanged DEF claimVars
  <1>13. QED
    BY <1>7, <1>8, <1>9, <1>12 DEF ServiceInv

LEMMA DeleteKeepsService ==
  ASSUME ServiceInv, NEW j \in Jobs, Delete(j)
  PROVE  ServiceInv'
  <1>1. /\ SafetyInv /\ TypeOK /\ ServiceTypeOK /\ ActiveIsRunnable /\ CopiesAreRunnable
        /\ OnlyActiveClaimed /\ ExecutionsFollowJobs
    BY DEF ServiceInv, SafetyInv
  <1>2. UNCHANGED <<now, claims, procVars, loop, claimVars, pending, jobChan, worker, dispatched,
                    requests>>
    BY DEF Delete
  <1>3. /\ jobs' \in [Jobs -> JobRows] /\ jobs'[j].status = "deleted"
        /\ \A k \in Jobs : k # j => jobs'[k] = jobs[k]
    <2> DEFINE gone == [jobs[j] EXCEPT !.status = "deleted"]
    <2>1. jobs \in [Jobs -> JobRows] /\ jobs[j] \in JobRows
      BY <1>1 DEF TypeOK
    <2>2. gone \in JobRows /\ gone.status = "deleted"
      BY <2>1 DEF JobRows, JobStatuses
    <2>3. jobs' = [jobs EXCEPT ![j] = gone]
      BY DEF Delete
    <2> HIDE DEF gone
    <2>4. QED
      BY <2>1, <2>2, <2>3
  <1>4. \A r \in Replicas : j \notin DOMAIN scan[r]
    BY DEF Delete, LockedJobs, LockedBy
  <1>5. \A r \in Replicas : \A k \in DOMAIN scan[r] : jobs'[k] = jobs[k]
    BY <1>1, <1>3, <1>4 DEF TypeOK
  <1>6. /\ executions' \in Seq(ExecRows) /\ Len(executions') = Len(executions)
        /\ DOMAIN executions' = DOMAIN executions
        /\ \A e \in DOMAIN executions :
             IF executions[e].job = j
             THEN executions'[e].status = "deleted" /\ executions'[e].job = j
             ELSE executions'[e] = executions[e]
    <2> DEFINE n == Len(executions)
               row(e) == IF executions[e].job = j
                         THEN [executions[e] EXCEPT !.status = "deleted"] ELSE executions[e]
    <2>1. executions \in Seq(ExecRows) /\ n \in Nat /\ DOMAIN executions = 1 .. n
      BY <1>1, LenProperties DEF TypeOK
    <2>2. executions' = [e \in 1 .. n |-> row(e)]
      BY <2>1 DEF Delete, Cascade
    <2>3. \A e \in 1 .. n : executions[e] \in ExecRows
      BY <2>1
    <2>4. \A e \in 1 .. n :
            /\ row(e) \in ExecRows
            /\ IF executions[e].job = j THEN row(e).status = "deleted" /\ row(e).job = j
               ELSE row(e) = executions[e]
      BY <2>3 DEF ExecRows, ExecStatuses
    <2> HIDE DEF row
    <2>5. QED
      BY <2>1, <2>2, <2>4
  <1>7. SafetyInv'
    BY <1>1, <1>2, <1>3, <1>5, <1>6, TablesKeepSafety
  <1>8. ServiceTypeOK'
    BY <1>1, <1>2, <1>7 DEF ServiceTypeOK, SafetyInv
  <1>9. ActiveIsRunnable' /\ CopiesAreRunnable'
    BY <1>1, <1>2, <1>3 DEF ActiveIsRunnable, CopiesAreRunnable, Runnable
  <1>10. ExecutionsFollowJobs'
    BY <1>1, <1>3, <1>6, RowsHaveJobs DEF ExecutionsFollowJobs
  <1>11. OnlyActiveClaimed'
    BY <1>1, <1>2, <1>5, ActiveUnchanged DEF claimVars
  <1>12. QED
    BY <1>7, <1>8, <1>9, <1>10, <1>11 DEF ServiceInv

LEMMA WriteKeepsService ==
  ASSUME ServiceInv, NEW q \in requests, Write(q)
  PROVE  ServiceInv'
  <1>1. /\ SafetyInv /\ TypeOK /\ ServiceTypeOK /\ ActiveIsRunnable /\ CopiesAreRunnable
        /\ OnlyActiveClaimed /\ ExecutionsFollowJobs
    BY DEF ServiceInv, SafetyInv
  <1> DEFINE j == q.job
             new == Written(jobs[j], q.row)
  <1>2. /\ j \in Jobs /\ q.row \in JobRows /\ q.row.status \in Existing /\ Runnable(q.row)
        /\ jobs \in [Jobs -> JobRows]
    BY <1>1 DEF ServiceTypeOK, Requests, CopiesAreRunnable, TypeOK
  <1>3. /\ new \in JobRows /\ (new.status = "deleted" <=> jobs[j].status = "deleted")
        /\ Runnable(jobs[j]) => Runnable(new)
    BY <1>2 DEF Written, Existing
  <1>4. /\ jobs' = [jobs EXCEPT ![j] = new] /\ requests' = requests \ {q}
        /\ UNCHANGED <<now, executions, claims, procVars, loop, claimVars, pending, jobChan,
                       worker, dispatched>>
    BY DEF Write
  <1>5. \A r \in Replicas : j \notin DOMAIN scan[r]
    BY DEF Write, Unlocked, LockedJobs, LockedBy
  <1> HIDE DEF new, j
  <1>6. /\ jobs' \in [Jobs -> JobRows] /\ jobs'[j] = new
        /\ \A k \in Jobs : k # j => jobs'[k] = jobs[k]
    BY <1>2, <1>3, <1>4
  <1>7. \A r \in Replicas : \A k \in DOMAIN scan[r] : jobs'[k] = jobs[k]
    BY <1>1, <1>5, <1>6 DEF TypeOK
  <1>8. SafetyInv'
    BY <1>1, <1>4, <1>6, <1>7, TablesKeepSafety DEF TypeOK
  <1>9. ServiceTypeOK'
    BY <1>1, <1>4, <1>8 DEF ServiceTypeOK, SafetyInv
  <1>10. JobsKept /\ RowsKept
    BY <1>3, <1>4, <1>6 DEF JobsKept, RowsKept
  <1>11. ActiveIsRunnable' /\ CopiesAreRunnable'
    BY <1>1, <1>4, <1>10 DEF ActiveIsRunnable, CopiesAreRunnable, JobsKept
  <1>12. OnlyActiveClaimed' /\ ExecutionsFollowJobs'
    BY <1>1, <1>4, <1>7, <1>10, ActiveUnchanged, FollowUnchanged DEF claimVars
  <1>13. QED
    BY <1>8, <1>9, <1>11, <1>12 DEF ServiceInv

LEMMA BeginKeepsService ==
  ASSUME ServiceInv, NEW c \in Clients, NEW op \in Operations, NEW j \in Jobs, NEW row \in JobRows,
         row.status \in Existing, Runnable(row), Begin(c, op, j, row)
  PROVE  ServiceInv'
  <1> DEFINE q == [client |-> c, op |-> op, job |-> j, row |-> row]
  <1>1. q \in Requests /\ q.row = row /\ q.client = c
    BY DEF Requests
  <1>2. /\ requests' = requests \cup {q} /\ UNCHANGED vars
        /\ \A p \in requests : p.client # c
    BY DEF Begin
  <1> HIDE DEF q
  <1>3. SafetyInv /\ ServiceTypeOK /\ CopiesAreRunnable
    BY DEF ServiceInv
  <1>4. SafetyInv'
    BY <1>2, <1>3, StepTyped, StepKeepsReads, StepKeepsOrder, StepKeepsOpen DEF SafetyInv
  <1>5. ServiceTypeOK'
    BY <1>1, <1>2, <1>3, <1>4 DEF ServiceTypeOK, SafetyInv
  <1>6. CopiesAreRunnable'
    BY <1>1, <1>2, <1>3 DEF CopiesAreRunnable, vars, dbVars
  <1>7. ActiveIsRunnable' /\ OnlyActiveClaimed' /\ ExecutionsFollowJobs'
    BY <1>2 DEF ServiceInv, ActiveIsRunnable, OnlyActiveClaimed, ExecutionsFollowJobs, vars, dbVars,
                claimVars
  <1>8. QED
    BY <1>4, <1>5, <1>6, <1>7 DEF ServiceInv

\* Every row a request computes from a row it may have read.
LEMMA EditsAreRunnable ==
  ASSUME NEW row \in JobRows, row.status \in Existing, Runnable(row)
  PROVE  /\ \A t \in ReplicaTimes : \A r \in Edited(row, t) :
              r \in JobRows /\ r.status \in Existing /\ Runnable(r)
         /\ \A t \in ReplicaTimes : LET r == Triggered(row, t)
                                    IN  r \in JobRows /\ r.status \in Existing /\ Runnable(r)
         /\ LET r == [row EXCEPT !.status = "paused", !.nextRun = NoTime]
            IN  r \in JobRows /\ r.status \in Existing /\ Runnable(r)
         /\ Parses(row.schedule) =>
              \A t \in ReplicaTimes : LET r == Resumed(row, t)
                                      IN  r \in JobRows /\ r.status \in Existing /\ Runnable(r)
  <1>1. \A s \in Schedules, t \in ReplicaTimes :
          t \in Times /\ CronNext[s][t] \in Nat /\ CronNext[s][t] # NoTime
    BY CronAssumption DEF ReplicaTimes, NoTime
  <1>2. \A t \in ReplicaTimes : \A r \in Rescheduled(row, t) :
          r \in JobRows /\ r.status \in Existing /\ Runnable(r)
    <2> TAKE t \in ReplicaTimes
    <2>1. TAKE r \in Rescheduled(row, t)
    <2>2. PICK s \in Schedules :
            Accepted(s) /\ r = [row EXCEPT !.schedule = s, !.nextRun = CronNext[s][t]]
      BY <2>1 DEF Rescheduled
    <2>3. CronNext[s][t] \in Nat /\ CronNext[s][t] # NoTime
      BY <1>1
    <2>4. QED
      BY <2>2, <2>3 DEF Accepted, JobRows, Timestamps, Runnable
  <1>3. \A r \in JobRows, k \in Conditions :
          /\ [r EXCEPT !.condition = k] \in JobRows
          /\ [r EXCEPT !.condition = k].status = r.status
          /\ Runnable(r) => Runnable([r EXCEPT !.condition = k])
    BY DEF JobRows, Runnable
  <1>4. \A t \in ReplicaTimes : \A r \in Edited(row, t) :
          r \in JobRows /\ r.status \in Existing /\ Runnable(r)
    <2>1. row.condition \in Conditions /\ NewConditions \subseteq Conditions
      BY ClientsAssumption DEF JobRows
    <2> TAKE t \in ReplicaTimes
    <2>2. TAKE new \in Edited(row, t)
    <2>3. PICK r \in {row} \cup Rescheduled(row, t), k \in {row.condition} \cup NewConditions :
            new = [r EXCEPT !.condition = k]
      BY <2>2 DEF Edited
    <2>4. r \in JobRows /\ r.status \in Existing /\ Runnable(r) /\ k \in Conditions
      BY <1>2, <2>1, <2>3
    <2>5. QED
      BY <1>3, <2>3, <2>4
  <1>5. \A t \in ReplicaTimes : LET r == Triggered(row, t)
                                IN  r \in JobRows /\ r.status \in Existing /\ Runnable(r)
    BY <1>1 DEF Triggered, JobRows, Timestamps, Times, Runnable, NoTime
  <1>6. LET r == [row EXCEPT !.status = "paused", !.nextRun = NoTime]
        IN  r \in JobRows /\ r.status \in Existing /\ Runnable(r)
    BY DEF JobRows, JobStatuses, Timestamps, Runnable, Existing
  <1>7. Parses(row.schedule) =>
          \A t \in ReplicaTimes : LET r == Resumed(row, t)
                                  IN  r \in JobRows /\ r.status \in Existing /\ Runnable(r)
    BY <1>1 DEF Resumed, JobRows, JobStatuses, Timestamps, Runnable, Existing
  <1>8. QED
    BY <1>4, <1>5, <1>6, <1>7

LEMMA RequestsKeepService ==
  ASSUME ServiceInv, NEW c \in Clients, NEW j \in Jobs,
         Update(c, j) \/ TriggerRun(c, j) \/ Pause(c, j) \/ Resume(c, j)
  PROVE  ServiceInv'
  <1>1. \E op \in Operations : \E row : Begin(c, op, j, row)
    BY DEF Operations, Update, TriggerRun, Pause, Resume
  <1>2. jobs[j] \in JobRows /\ jobs[j].status \in Existing /\ Runnable(jobs[j])
    BY <1>1 DEF ServiceInv, SafetyInv, TypeOK, ActiveIsRunnable, Begin, Exists
  <1>3. \E op \in Operations, row \in JobRows :
          row.status \in Existing /\ Runnable(row) /\ Begin(c, op, j, row)
    <2> DEFINE old == jobs[j]
    <2>1. CASE Update(c, j)
      BY <1>2, <2>1, EditsAreRunnable DEF Update, Operations
    <2>2. CASE TriggerRun(c, j)
      BY <1>2, <2>2, EditsAreRunnable DEF TriggerRun, Operations
    <2>3. CASE Pause(c, j)
      BY <1>2, <2>3, EditsAreRunnable DEF Pause, Operations
    <2>4. CASE Resume(c, j)
      BY <1>2, <2>4, EditsAreRunnable DEF Resume, Operations
    <2>5. QED
      BY <2>1, <2>2, <2>3, <2>4
  <1>4. QED
    BY <1>3, BeginKeepsService

LEMMA AbandonKeepsService ==
  ASSUME ServiceInv, NEW q \in requests, Abandon(q)
  PROVE  ServiceInv'
  <1>1. requests' = requests \ {q} /\ UNCHANGED vars
    BY DEF Abandon
  <1>2. SafetyInv'
    BY <1>1, StepTyped, StepKeepsReads, StepKeepsOrder, StepKeepsOpen DEF ServiceInv, SafetyInv
  <1>3. ServiceTypeOK'
    BY <1>1, <1>2 DEF ServiceInv, ServiceTypeOK, SafetyInv
  <1>4. CopiesAreRunnable' /\ ActiveIsRunnable' /\ OnlyActiveClaimed' /\ ExecutionsFollowJobs'
    BY <1>1 DEF ServiceInv, CopiesAreRunnable, ActiveIsRunnable, OnlyActiveClaimed,
                ExecutionsFollowJobs, vars, dbVars, claimVars
  <1>5. QED
    BY <1>2, <1>3, <1>4 DEF ServiceInv

-----------------------------------------------------------------------------
(* The theorems.                                                            *)

LEMMA ServiceInitSafe == ServiceInit => ServiceInv
  <1>1. SUFFICES ASSUME ServiceInit PROVE ServiceInv
    OBVIOUS
  <1>2. /\ Fresh /\ requests = {}
        /\ jobs \in [Jobs -> JobRows] /\ \A j \in Jobs : jobs[j].status = "uncreated"
    <2>1. \A j \in Jobs : LET row == NewJob(JobSchedule[j], JobCondition[j], 1)
                         IN  /\ [row EXCEPT !.status = "uncreated"] \in JobRows
                             /\ [row EXCEPT !.status = "uncreated"].status = "uncreated"
      BY NewJobType DEF JobRows, JobStatuses
    <2>2. QED
      BY <1>1, <2>1 DEF ServiceInit
  <1>3. SafetyInv
    BY <1>2, FreshSafe
  <1>4. executions = <<>> /\ claims = <<>> /\ \A r \in Replicas : DOMAIN scan[r] = {}
    BY <1>2, EmptyScanType DEF Fresh
  <1>5. ServiceTypeOK
    BY <1>2, <1>3 DEF ServiceTypeOK, SafetyInv
  <1>6. ActiveIsRunnable /\ CopiesAreRunnable /\ OnlyActiveClaimed /\ ExecutionsFollowJobs
    BY <1>2, <1>4 DEF ActiveIsRunnable, Runnable, CopiesAreRunnable, OnlyActiveClaimed,
                      ExecutionsFollowJobs
  <1>7. QED
    BY <1>3, <1>5, <1>6 DEF ServiceInv

LEMMA ServiceStep == ServiceInv /\ [ServiceNext]_svcVars => ServiceInv'
  <1>1. SUFFICES ASSUME ServiceInv, [ServiceNext]_svcVars PROVE ServiceInv'
    OBVIOUS
  <1>2. CASE (Next /\ UNCHANGED requests) \/ UNCHANGED svcVars
    BY <1>1, <1>2, SchedulerKeepsService DEF svcVars
  <1>3. CASE \E j \in Jobs : Create(j) \/ Delete(j)
    BY <1>1, <1>3, CreateKeepsService, DeleteKeepsService
  <1>4. CASE \E c \in Clients, j \in Jobs :
               Update(c, j) \/ TriggerRun(c, j) \/ Pause(c, j) \/ Resume(c, j)
    BY <1>1, <1>4, RequestsKeepService
  <1>5. CASE \E c \in Clients : WriteOf(c)
    BY <1>1, <1>5, WriteKeepsService DEF WriteOf
  <1>6. CASE \E q \in requests : Abandon(q)
    BY <1>1, <1>6, AbandonKeepsService
  <1>7. QED
    BY <1>1, <1>2, <1>3, <1>4, <1>5, <1>6 DEF ServiceNext

\* Whatever the requests and the replicas do, the invariant behind the properties
\* below holds: the scheduler keeps its own beside requests, copies stay runnable.
THEOREM ServiceInvariant == ServiceSpec => []ServiceInv
  <1>1. QED
    BY ServiceInitSafe, ServiceStep, PTL DEF ServiceSpec

\* An active job has a next run and a schedule that parses, whatever stale copies
\* workers and requests write over each other.
THEOREM ActiveStaysRunnable == ServiceSpec => []ActiveIsRunnable
  <1>1. ServiceInv => ActiveIsRunnable
    BY DEF ServiceInv
  <1>2. QED
    BY <1>1, ServiceInvariant, PTL

\* The rows of executions are there exactly as long as their job is.
THEOREM CascadeHolds == ServiceSpec => []ExecutionsFollowJobs
  <1>1. ServiceInv => ExecutionsFollowJobs
    BY DEF ServiceInv
  <1>2. QED
    BY <1>1, ServiceInvariant, PTL

\* A claim transaction never has a paused or deleted job.
THEOREM PausedNotClaimed == ServiceSpec => []OnlyActiveClaimed
  <1>1. ServiceInv => OnlyActiveClaimed
    BY DEF ServiceInv
  <1>2. QED
    BY <1>1, ServiceInvariant, PTL

\* Requests do not disturb the isolation of claim transactions, nor make a claim
\* run twice.
THEOREM IsolationBesideRequests ==
  ServiceSpec => [](ClaimReadsStayCurrent /\ AtMostOneHolder)
  <1>1. ServiceInv => ClaimReadsStayCurrent /\ AtMostOneHolder
    BY OrderGivesOneHolder DEF ServiceInv, SafetyInv
  <1>2. QED
    BY <1>1, ServiceInvariant, PTL

\* No late write of a worker, a request or a claim brings a deleted job back.
THEOREM DeletedStays == ServiceSpec => DeletedForGood
  <1> DEFINE Stays == \A j \in Jobs : jobs[j].status = "deleted" => jobs'[j] = jobs[j]
  <1>1. ServiceInv /\ [ServiceNext]_svcVars => Stays
    <2>1. SUFFICES ASSUME ServiceInv, [ServiceNext]_svcVars, NEW j \in Jobs,
                          jobs[j].status = "deleted"
                   PROVE  jobs'[j] = jobs[j]
      OBVIOUS
    <2>2. /\ TypeOK /\ ControlOK /\ OnlyActiveClaimed /\ jobs \in [Jobs -> JobRows]
      BY <2>1 DEF ServiceInv, SafetyInv, TypeOK
    <2>3. CASE [Next]_vars
      <3>1. ASSUME NEW r \in Replicas, CommitWrites(r)
            PROVE  jobs'[j] = jobs[j]
        <4>1. j \notin DOMAIN scan[r]
          BY <2>1, <2>2 DEF OnlyActiveClaimed
        <4>2. QED
          BY <2>2, <3>1, <4>1, CommittedTables
      <3>2. ASSUME NEW r \in Replicas, NEW w \in Workers, WriteBackJob(r, w)
            PROVE  jobs'[j] = jobs[j]
        BY <2>1, <2>2, <3>2 DEF WriteBackJob
      <3>3. QED
        BY <2>2, <2>3, <3>1, <3>2, StepOnTables
    <2>4. CASE \E k \in Jobs : Create(k) \/ Delete(k)
      BY <2>1, <2>2, <2>4 DEF Create, Delete, Exists, Existing
    <2>5. CASE \E c \in Clients, k \in Jobs :
                 Update(c, k) \/ TriggerRun(c, k) \/ Pause(c, k) \/ Resume(c, k)
      BY <2>5 DEF Update, TriggerRun, Pause, Resume, Begin, vars, dbVars
    <2>6. CASE \E c \in Clients : WriteOf(c)
      BY <2>1, <2>2, <2>6 DEF WriteOf, Write, Written
    <2>7. CASE \E q \in requests : Abandon(q)
      BY <2>7 DEF Abandon, vars, dbVars
    <2>8. QED
      BY <2>1, <2>3, <2>4, <2>5, <2>6, <2>7 DEF ServiceNext, svcVars
  <1>2. QED
    BY <1>1, ServiceInvariant, PTL DEF ServiceSpec, DeletedForGood

-----------------------------------------------------------------------------
(* A pause that nothing in flight undoes.                                   *)

LEMMA UnwrittenSame ==
  ASSUME NEW r \in Replicas, Unsaved(r)' \subseteq Unsaved(r),
         \A w \in Workers : worker'[r][w].pc = "writing" =>
           worker[r][w].pc = "writing" /\ worker'[r][w].exec = worker[r][w].exec
  PROVE  Unwritten(r)' \subseteq Unwritten(r)
  BY DEF Unwritten

\* A replica gets a claim to write back by committing one, and in no other way.
LEMMA UnwrittenSteps ==
  ASSUME SafetyInv, [Next]_vars, NEW r \in Replicas
  PROVE  \/ Unwritten(r)' \subseteq Unwritten(r)
         \/ CommitClaim(r) /\ Unwritten(r)' \subseteq Unwritten(r) \cup Elements(NewIds(r))
  <1>1. TypeOK /\ ControlOK /\ InClaimOrder /\ HeldApart
    BY DEF SafetyInv
  <1> DEFINE Goal == Unwritten(r)' \subseteq Unwritten(r)
  <1>2. ASSUME pending'[r] = pending[r], jobChan'[r] = jobChan[r], worker'[r] = worker[r]
        PROVE  Goal
    BY <1>2, UnsavedSame, UnwrittenSame DEF Running
  <1>3. ASSUME UNCHANGED <<pending, jobChan, worker>> PROVE Goal
    BY <1>2, <1>3
  <1>4. ASSUME NEW s \in Replicas, ResetProcess(s) PROVE Goal
    <2>1. CASE s = r
      <3>1. pending'[r] = <<>> /\ jobChan'[r] = <<>> /\ \A w \in Workers : worker'[r][w] = IdleWorker
        BY <1>1, <1>4, <2>1 DEF ResetProcess, TypeOK
      <3>2. QED
        BY <3>1 DEF Unwritten, Unsaved, Elements, RunningWith, Running, IdleWorker
    <2>2. CASE s # r
      BY <1>1, <1>2, <1>4, <2>2 DEF ResetProcess, TypeOK
    <2>3. QED
      BY <2>1, <2>2
  <1>5. CASE TimePasses \/ UNCHANGED vars
    BY <1>3, <1>5 DEF TimePasses, vars
  <1>6. ASSUME NEW s \in Replicas,
               \/ Start(s) \/ Crash(s) \/ Terminate(s) \/ RecoverStale(s) \/ GraceExpires(s)
               \/ Shutdown(s)
        PROVE  Goal
    <2>1. CASE Start(s) \/ Crash(s)
      BY <1>4, <2>1 DEF Start, Crash
    <2>2. CASE Terminate(s) \/ RecoverStale(s) \/ GraceExpires(s) \/ Shutdown(s)
      <3>1. UNCHANGED <<pending, jobChan, worker>>
        BY <2>2 DEF Terminate, RecoverStale, GraceExpires, Shutdown, ExitLoop, Drained, Return
      <3>2. QED
        BY <1>3, <3>1
    <2>3. QED
      BY <1>6, <2>1, <2>2
  <1>7. ASSUME NEW s \in Replicas, Tick(s)
        PROVE  Goal \/ (CommitClaim(r) /\ Unwritten(r)' \subseteq Unwritten(r) \cup Elements(NewIds(r)))
    <2>1. CASE ScanDue(s) \/ AdvanceNextRun(s) \/ LoseCommit(s) \/ RollbackClaim(s) \/ Saturate(s)
      BY <1>3, <2>1 DEF ScanDue, AdvanceNextRun, LoseCommit, RollbackClaim, Saturate
    <2>2. CASE Send(s)
      BY <1>1, <2>2, SendShrinks, UnwrittenSame DEF Send
    <2>3. CASE AbandonOnShutdown(s) \/ MarkSaturated(s)
      BY <1>1, <2>3, MarkedIsLetGo, UnwrittenSame DEF AbandonOnShutdown, MarkSaturated
    <2>4. CASE CommitClaim(s)
      <3>1. CASE s = r
        <4>1. pending'[r] = NewIds(r) /\ UNCHANGED <<jobChan, worker>>
          BY <1>1, <2>4, <3>1 DEF CommitClaim, TypeOK
        <4> HIDE DEF NewIds
        <4>2. QED
          BY <2>4, <3>1, <4>1 DEF Unwritten, Unsaved, RunningWith, Running, Elements, NewIds
      <3>2. CASE s # r
        BY <1>1, <1>2, <2>4, <3>2 DEF CommitClaim, TypeOK
      <3>3. QED
        BY <3>1, <3>2
    <2>5. QED
      BY <1>7, <2>1, <2>2, <2>3, <2>4 DEF Tick
  <1>8. ASSUME NEW s \in Replicas, NEW w \in Workers, Work(s, w) PROVE Goal
    <2>1. /\ \A v \in Workers : v # w => worker'[s][v] = worker[s][v]
          /\ \A u \in Replicas : u # s =>
               pending'[u] = pending[u] /\ jobChan'[u] = jobChan[u] /\ worker'[u] = worker[u]
      BY <1>1, <1>8, WorkFrame
    <2>2. CASE s # r
      BY <1>2, <2>1, <2>2
    <2>3. CASE s = r /\ FinishExecution(r, w)
      <3>1. Unsaved(r)' \subseteq Unsaved(r) /\ worker[r][w].exec \in Unsaved(r)
        BY <1>1, <2>3, FinishedIsLetGo
      <3>2. worker'[r][w].exec = worker[r][w].exec
        BY <1>1, <2>3, SetWorkerFrame DEF FinishExecution
      <3>3. QED
        BY <2>1, <2>3, <3>1, <3>2 DEF Unwritten
    <2>4. CASE s = r /\ Receive(r, w)
      <3>1. Unsaved(r)' \subseteq Unsaved(r)
        BY <1>1, <2>4, ReceiveShrinks
      <3>2. worker'[r][w].pc # "writing"
        BY <1>1, <2>4, SetWorkerFrame DEF Receive
      <3>3. QED
        BY <2>1, <2>4, <3>1, <3>2, UnwrittenSame
    <2>5. CASE s = r /\ (WriteBackJob(r, w) \/ Notify(r, w) \/ WorkerExits(r, w))
      <3>1. worker'[r][w].pc \in {"notifying", "idle", "exited"}
        <4>1. worker[r][w] \in [pc : WorkerPCs, exec : 0 .. Len(executions), status : ExecStatuses]
          BY <1>1 DEF TypeOK
        <4>2. \E rec : /\ SetWorker(r, w, rec) /\ rec.pc \in {"notifying", "idle", "exited"}
          <5>1. CASE WriteBackJob(r, w)
            <6> DEFINE rec == [worker[r][w] EXCEPT !.pc = "notifying"]
            <6>1. SetWorker(r, w, rec)
              BY <5>1 DEF WriteBackJob
            <6>2. rec.pc = "notifying"
              BY <4>1
            <6> HIDE DEF rec
            <6>3. QED
              BY <6>1, <6>2
          <5>2. CASE Notify(r, w) \/ WorkerExits(r, w)
            BY <5>2 DEF Notify, WorkerExits, IdleWorker
          <5>3. QED
            BY <2>5, <5>1, <5>2
        <4>3. QED
          BY <1>1, <4>2, SetWorkerFrame
      <3>2. UNCHANGED <<pending, jobChan>>
        BY <2>5 DEF WriteBackJob, Notify, WorkerExits
      <3>3. Unsaved(r)' \subseteq Unsaved(r)
        BY <2>1, <2>5, <3>1, <3>2, UnsavedSame DEF Running
      <3>4. QED
        BY <2>1, <2>5, <3>1, <3>3, UnwrittenSame
    <2>6. QED
      BY <1>8, <2>2, <2>3, <2>4, <2>5 DEF Work
  <1>9. QED
    BY <1>5, <1>6, <1>7, <1>8 DEF Next

\* What a claim waits for is in the list of claims.
LEMMA UnwrittenHasClaim ==
  ASSUME TypeOK, ControlOK, NEW r \in Replicas
  PROVE  Unwritten(r) \subseteq DOMAIN claims
  <1>1. Unsaved(r) \subseteq 1 .. Len(executions)
    BY UnsavedHeld, HeldHasRow
  <1>2. \A w \in Workers : worker[r][w].pc = "writing" => worker[r][w].exec \in 1 .. Len(executions)
    BY BusyHasClaim DEF Busy
  <1>3. DOMAIN claims = 1 .. Len(executions)
    BY LenProperties DEF TypeOK
  <1>4. QED
    BY <1>1, <1>2, <1>3 DEF Unwritten

\* The scheduler leaves a job at rest where it is.
LEMMA SchedulerLetsRest ==
  ASSUME ServiceInv, [Next]_vars, UNCHANGED requests, NEW j \in Jobs, AtRest(j)
  PROVE  AtRest(j)'
  <1>1. TypeOK /\ ControlOK /\ OnlyActiveClaimed /\ SafetyInv
    BY DEF ServiceInv, SafetyInv
  <1>2. \A r \in Replicas : j \notin DOMAIN scan[r]
    BY <1>1 DEF AtRest, OnlyActiveClaimed
  <1>3. jobs'[j].status = "paused"
    <2>1. ASSUME NEW r \in Replicas, CommitWrites(r) PROVE jobs'[j] = jobs[j]
      BY <1>1, <1>2, <2>1, CommittedTables
    <2>2. ASSUME NEW r \in Replicas, NEW w \in Workers, WriteBackJob(r, w)
          PROVE  jobs'[j] = jobs[j]
      <3>1. claims[worker[r][w].exec].job # j
        BY <2>2 DEF AtRest, Unwritten, WriteBackJob
      <3>2. QED
        BY <1>1, <2>2, <3>1 DEF WriteBackJob, TypeOK
    <2>3. QED
      BY <1>1, <2>1, <2>2, StepOnTables DEF AtRest
  <1>4. ASSUME NEW r \in Replicas, NEW e \in Unwritten(r)'
        PROVE  claims'[e].job # j
    <2>1. CASE e \in Unwritten(r)
      BY <1>1, <2>1, UnwrittenHasClaim, ClaimsStay DEF AtRest
    <2>2. CASE CommitClaim(r) /\ e \in Elements(NewIds(r))
      <3>1. PICK i \in 1 .. Len(batch[r]) : e = Len(executions) + i
        BY <2>2 DEF Elements, NewIds
      <3>2. CommitWrites(r)
        BY <2>2 DEF CommitClaim
      <3>3. claims'[e].job = batch[r][i]
        BY <1>1, <3>1, <3>2, CommittedRows
      <3>4. batch[r][i] \in DOMAIN scan[r]
        BY <1>1, LenProperties DEF ControlOK, TypeOK
      <3>5. QED
        BY <1>2, <3>3, <3>4
    <2>3. QED
      BY <1>1, <1>4, <2>1, <2>2, UnwrittenSteps
  <1>5. QED
    BY <1>3, <1>4 DEF AtRest

\* The copy of an edit of a paused job is paused, unless the edit is a Resume.
LEMMA EditsKeepStatus ==
  ASSUME NEW row \in JobRows, row.status = "paused", NEW t
  PROVE  /\ \A new \in Edited(row, t) : new.status = "paused"
         /\ Triggered(row, t).status = "paused"
  <1>1. \A new \in {row} \cup Rescheduled(row, t) :
          new \in [status : {"paused"}, schedule : Schedules, condition : Conditions,
                   nextRun : Timestamps \cup {CronNext[s][t] : s \in Schedules}]
    BY DEF Rescheduled, JobRows
  <1>2. \A new \in Edited(row, t) : new.status = "paused"
    BY <1>1 DEF Edited
  <1>3. QED
    BY <1>2 DEF Triggered, JobRows

\* What PauseHolds asks for and the program does not do, it does once nothing is in
\* flight: the copies that workers and requests took before the pause are the only
\* way past it.
THEOREM PausesRest == ServiceSpec => RestHolds
  <1> DEFINE Onward(j) == \/ AtRest(j)' \/ jobs'[j].status = "deleted"
                          \/ \E q \in requests' : q.op = "resume" /\ q.job = j
  <1>1. ServiceInv /\ [ServiceNext]_svcVars => \A j \in Jobs : AtRest(j) => Onward(j)
    <2>1. SUFFICES ASSUME ServiceInv, [ServiceNext]_svcVars, NEW j \in Jobs, AtRest(j)
                   PROVE  Onward(j)
      OBVIOUS
    <2>2. TypeOK /\ ServiceTypeOK
      BY <2>1 DEF ServiceInv, SafetyInv
    <2>3. CASE (Next /\ UNCHANGED requests) \/ UNCHANGED svcVars
      BY <2>1, <2>3, SchedulerLetsRest DEF svcVars
    <2>4. ASSUME UNCHANGED <<claims, pending, jobChan, worker>>, jobs'[j].status = "paused",
                 \A q \in requests' : q.job = j => q.row.status = "paused"
          PROVE  AtRest(j)'
      BY <2>1, <2>4 DEF AtRest, Unwritten, Unsaved, RunningWith, Running, Elements
    <2>5. CASE \E k \in Jobs : Create(k) \/ Delete(k)
      <3>1. PICK k \in Jobs : Create(k) \/ Delete(k)
        BY <2>5
      <3>2. CASE k = j
        BY <2>1, <2>2, <3>1, <3>2 DEF Create, Delete, AtRest, TypeOK, JobRows
      <3>3. CASE k # j
        BY <2>1, <2>2, <2>4, <3>1, <3>3 DEF Create, Delete, AtRest, TypeOK
      <3>4. QED
        BY <3>2, <3>3
    <2>6. ASSUME NEW c \in Clients, NEW k \in Jobs,
                 Update(c, k) \/ TriggerRun(c, k) \/ Pause(c, k) \/ Resume(c, k)
          PROVE  Onward(j)
      <3>1. PICK op, row : /\ Begin(c, op, k, row)
                           /\ k = j => op = "resume" \/ row.status = "paused"
        <4>1. jobs[j] \in JobRows /\ jobs[j].status = "paused"
          BY <2>1, <2>2 DEF AtRest, TypeOK
        <4>2. CASE Update(c, k)
          BY <4>1, <4>2, EditsKeepStatus DEF Update
        <4>3. CASE TriggerRun(c, k)
          BY <4>1, <4>3, EditsKeepStatus DEF TriggerRun
        <4>4. CASE Pause(c, k)
          <5> DEFINE new == [jobs[k] EXCEPT !.status = "paused", !.nextRun = NoTime]
          <5>1. Begin(c, "pause", k, new)
            BY <4>4 DEF Pause
          <5>2. k = j => new.status = "paused"
            BY <4>1 DEF JobRows
          <5> HIDE DEF new
          <5>3. QED
            BY <5>1, <5>2
        <4>5. CASE Resume(c, k)
          BY <4>5 DEF Resume
        <4>6. QED
          BY <2>6, <4>2, <4>3, <4>4, <4>5
      <3>2. requests' = requests \cup {[client |-> c, op |-> op, job |-> k, row |-> row]}
        BY <3>1 DEF Begin
      <3>3. UNCHANGED <<jobs, claims, pending, jobChan, worker>>
        BY <3>1 DEF Begin, vars, dbVars
      <3>4. CASE k = j /\ op = "resume"
        <4> DEFINE q == [client |-> c, op |-> op, job |-> k, row |-> row]
        <4>1. q \in requests' /\ q.op = "resume" /\ q.job = j
          BY <3>2, <3>4
        <4>2. QED
          BY <4>1
      <3>5. CASE ~(k = j /\ op = "resume")
        <4>1. \A q \in requests' : q.job = j => q.row.status = "paused"
          BY <2>1, <3>1, <3>2, <3>5 DEF AtRest
        <4>2. QED
          BY <2>1, <2>4, <3>3, <4>1 DEF AtRest
      <3>6. QED
        BY <3>4, <3>5
    <2>7. CASE \E c \in Clients : WriteOf(c)
      <3>1. PICK q \in requests : Write(q)
        BY <2>7 DEF WriteOf
      <3>2. /\ jobs' = [jobs EXCEPT ![q.job] = Written(@, q.row)] /\ requests' = requests \ {q}
            /\ UNCHANGED <<claims, pending, jobChan, worker>>
        BY <3>1 DEF Write
      <3>3. q.job \in Jobs /\ q.row.status \in Existing
        BY <2>1, <2>2 DEF ServiceTypeOK, Requests, ServiceInv, CopiesAreRunnable
      <3>4. jobs'[j].status = "paused"
        BY <2>1, <2>2, <3>2, <3>3 DEF AtRest, Written, TypeOK
      <3>5. QED
        BY <2>1, <2>4, <3>2, <3>4 DEF AtRest
    <2>8. CASE \E q \in requests : Abandon(q)
      BY <2>1, <2>4, <2>8 DEF Abandon, AtRest, vars, dbVars
    <2>9. QED
      BY <2>1, <2>3, <2>5, <2>6, <2>7, <2>8 DEF ServiceNext
  <1>2. ServiceInv /\ [ServiceNext]_svcVars =>
          [\A j \in Jobs : AtRest(j) =>
             \/ AtRest(j)' \/ jobs'[j].status = "deleted"
             \/ \E q \in requests' : q.op = "resume" /\ q.job = j]_svcVars
    BY <1>1
  <1>3. QED
    BY <1>2, ServiceInvariant, PTL DEF ServiceSpec, RestHolds

-----------------------------------------------------------------------------
(* The scheduler together with the job service implements the ledger: the   *)
(* owners' requests, which read a row and write it back later, and the      *)
(* workers, which write theirs back, change no more than the status of a    *)
(* job that is there, and the scheduler's steps stay those of the ledger.   *)

\* Who has a claim or a request has it of a job that was created.
Created ==
  /\ \A e \in DOMAIN claims : jobs[claims[e].job].status # "uncreated"
  /\ \A q \in requests : jobs[q.job].status # "uncreated"

Implements == ServiceInv /\ DrainInv /\ BatchesDistinct /\ Created

CreatedStays ==
  \A j \in Jobs : jobs[j].status # "uncreated" => jobs'[j].status # "uncreated"

LEMMA CommitStatuses ==
  ASSUME TypeOK, NEW r \in Replicas, CommitWrites(r)
  PROVE  StatusesKept
  <1> SUFFICES ASSUME NEW j \in Jobs PROVE jobs'[j].status = jobs[j].status
    BY DEF StatusesKept
  <1>1. jobs[j] \in JobRows
    BY DEF TypeOK
  <1>2. jobs'[j] = jobs[j] \/ \E t : jobs'[j] = [jobs[j] EXCEPT !.nextRun = t]
    BY DEF CommitWrites
  <1>3. QED
    BY <1>1, <1>2 DEF JobRows

\* A worker writes the copy of a claim over the row of its job, or nothing.
LEMMA WriteBackStatus ==
  ASSUME Implements, NEW r \in Replicas, NEW w \in Workers, WriteBackJob(r, w)
  PROVE  \E j \in Jobs :
           /\ jobs[j].status # "uncreated"
           /\ \A k \in Jobs : k # j => jobs'[k] = jobs[k]
           /\ \/ jobs'[j] = jobs[j]
              \/ jobs[j].status # "deleted" /\ jobs'[j].status = "active"
  <1> DEFINE c == claims[worker[r][w].exec]
  <1>1. TypeOK /\ ControlOK /\ CopiesAreRunnable /\ Created
    BY DEF Implements, ServiceInv, SafetyInv
  <1>2. worker[r][w].exec \in DOMAIN claims /\ c \in JobClaims
    <2>1. worker[r][w].exec \in 1 .. Len(executions) /\ c \in JobClaims
      BY <1>1, BusyHasClaim DEF WriteBackJob, Busy
    <2>2. DOMAIN claims = 1 .. Len(executions)
      BY <1>1, LenProperties DEF TypeOK
    <2>3. QED
      BY <2>1, <2>2
  <1>3. c.job \in Jobs /\ c.row.status = "active" /\ jobs[c.job].status # "uncreated"
    BY <1>1, <1>2 DEF CopiesAreRunnable, JobClaims, Created
  <1>4. \/ jobs' = [jobs EXCEPT ![c.job] = IF @.status = "deleted" THEN @ ELSE c.row]
        \/ UNCHANGED jobs
    BY DEF WriteBackJob
  <1> HIDE DEF c
  <1>5. QED
    BY <1>1, <1>3, <1>4 DEF TypeOK

\* A request writes its copy over the row of its job, unless that is gone.
LEMMA WriteStatus ==
  ASSUME Implements, NEW q \in requests, Write(q)
  PROVE  /\ q.job \in Jobs /\ jobs[q.job].status # "uncreated"
         /\ \A k \in Jobs : k # q.job => jobs'[k] = jobs[k]
         /\ \/ jobs'[q.job] = jobs[q.job]
            \/ jobs[q.job].status # "deleted" /\ jobs'[q.job].status \in Existing
  <1>1. /\ TypeOK /\ q \in Requests /\ q.row.status \in Existing /\ jobs[q.job].status # "uncreated"
    BY DEF Implements, ServiceInv, ServiceTypeOK, CopiesAreRunnable, Created
  <1>2. q.job \in Jobs
    BY <1>1 DEF Requests
  <1>3. jobs' = [jobs EXCEPT ![q.job] = Written(jobs[q.job], q.row)]
    BY DEF Write
  <1>4. QED
    BY <1>1, <1>2, <1>3 DEF Written, TypeOK

LEMMA CreatedNeverEnds ==
  ASSUME Implements, [ServiceNext]_svcVars
  PROVE  CreatedStays
  <1>1. TypeOK /\ ControlOK
    BY DEF Implements, ServiceInv, SafetyInv
  <1>2. CASE UNCHANGED jobs
    BY <1>2 DEF CreatedStays
  <1>3. CASE [Next]_vars
    <2>1. ASSUME NEW r \in Replicas, CommitWrites(r) PROVE CreatedStays
      BY <1>1, <2>1, CommitStatuses DEF StatusesKept, CreatedStays
    <2>2. ASSUME NEW r \in Replicas, NEW w \in Workers, WriteBackJob(r, w) PROVE CreatedStays
      BY <2>2, WriteBackStatus DEF CreatedStays
    <2>3. QED
      BY <1>1, <1>2, <1>3, <2>1, <2>2, StepOnTables
  <1>4. ASSUME NEW j \in Jobs, Create(j) PROVE CreatedStays
    BY <1>1, <1>4 DEF Create, NewJob, TypeOK, CreatedStays
  <1>5. ASSUME NEW j \in Jobs, Delete(j) PROVE CreatedStays
    <2>1. [jobs[j] EXCEPT !.status = "deleted"].status = "deleted"
      BY <1>1 DEF TypeOK, JobRows
    <2>2. jobs' = [jobs EXCEPT ![j] = [jobs[j] EXCEPT !.status = "deleted"]]
      BY <1>5 DEF Delete
    <2>3. QED
      BY <1>1, <2>1, <2>2 DEF TypeOK, CreatedStays
  <1>6. ASSUME NEW q \in requests, Write(q) PROVE CreatedStays
    BY <1>6, WriteStatus DEF CreatedStays, Existing
  <1>7. CASE \E c \in Clients, k \in Jobs :
               Update(c, k) \/ TriggerRun(c, k) \/ Pause(c, k) \/ Resume(c, k)
    BY <1>2, <1>7 DEF Update, TriggerRun, Pause, Resume, Begin, vars, dbVars
  <1>8. CASE \E q \in requests : Abandon(q)
    BY <1>2, <1>8 DEF Abandon, vars, dbVars
  <1>9. QED
    BY <1>2, <1>3, <1>4, <1>5, <1>6, <1>7, <1>8 DEF ServiceNext, WriteOf, svcVars, vars, dbVars

-----------------------------------------------------------------------------
(* The invariant.                                                           *)

\* Requests and owners leave the loops, the workers and the claims alone.
LEMMA RequestsKeepDrain ==
  ASSUME DrainInv, BatchesDistinct,
         UNCHANGED <<claims, procVars, loop, claimVars, pending, jobChan, worker>>
  PROVE  DrainInv' /\ BatchesDistinct'
  <1>1. ASSUME NEW r \in Replicas PROVE DrainOK(r)'
    BY DrainSame DEF DrainInv, procVars
  <1>2. QED
    BY <1>1 DEF DrainInv, BatchesDistinct, Distinct, claimVars

\* New claims are of active jobs, new requests of jobs that exist.
LEMMA CreatedStep ==
  ASSUME Implements, [ServiceNext]_svcVars
  PROVE  Created'
  <1>1. TypeOK /\ ControlOK /\ OnlyActiveClaimed /\ ServiceTypeOK /\ Created
    BY DEF Implements, ServiceInv, SafetyInv
  <1>2. CreatedStays
    BY CreatedNeverEnds
  <1>3. \A e \in DOMAIN claims : claims[e].job \in Jobs
    <2>1. claims \in Seq(JobClaims)
      BY <1>1 DEF TypeOK
    <2>2. \A e \in DOMAIN claims : claims[e] \in JobClaims
      BY <2>1, LenProperties
    <2>3. QED
      BY <2>2 DEF JobClaims
  <1>4. \A q \in requests : q.job \in Jobs
    BY <1>1 DEF ServiceTypeOK, Requests
  <1>5. CASE requests' \subseteq requests /\ UNCHANGED claims
    BY <1>1, <1>2, <1>3, <1>4, <1>5 DEF Created, CreatedStays
  <1>6. CASE [Next]_vars /\ UNCHANGED requests
    <2>1. ASSUME NEW r \in Replicas, CommitWrites(r), NEW e \in DOMAIN claims'
          PROVE  jobs'[claims'[e].job].status # "uncreated"
      <3>1. CASE e \in DOMAIN claims
        <4>1. claims'[e] = claims[e]
          BY <1>1, <2>1, <3>1, CommittedRows
        <4>2. QED
          BY <1>1, <1>2, <1>3, <3>1, <4>1 DEF Created, CreatedStays
      <3>2. CASE e \notin DOMAIN claims
        <4> DEFINE n == Len(executions)
                   k == Len(batch[r])
        <4>1. /\ n \in Nat /\ k \in Nat /\ DOMAIN claims' = 1 .. n + k
              /\ \A i \in 1 .. k : claims'[n + i].job = batch[r][i]
          BY <1>1, <2>1, CommittedRows
        <4>2. DOMAIN claims = 1 .. n /\ DOMAIN batch[r] = 1 .. k
          BY <1>1, LenProperties DEF TypeOK
        <4>3. \A i \in 1 .. k : batch[r][i] \in Jobs /\ batch[r][i] \in DOMAIN scan[r]
          BY <1>1, <4>2 DEF ControlOK, TypeOK
        <4> HIDE DEF n, k
        <4>4. e - n \in 1 .. k /\ n + (e - n) = e
          BY <2>1, <3>2, <4>1, <4>2
        <4>5. claims'[e].job = batch[r][e - n]
          BY <4>1, <4>4
        <4>6. jobs[batch[r][e - n]].status = "active" /\ batch[r][e - n] \in Jobs
          BY <1>1, <4>3, <4>4 DEF OnlyActiveClaimed
        <4>7. QED
          BY <1>2, <4>5, <4>6 DEF CreatedStays
      <3>3. QED
        BY <3>1, <3>2
    <2>2. \A q \in requests' : jobs'[q.job].status # "uncreated"
      BY <1>1, <1>2, <1>4, <1>6 DEF Created, CreatedStays
    <2>3. ASSUME NEW r \in Replicas, NEW w \in Workers, WriteBackJob(r, w)
          PROVE  UNCHANGED claims
      BY <2>3 DEF WriteBackJob
    <2>4. QED
      BY <1>1, <1>5, <1>6, <2>1, <2>2, <2>3, StepOnTables DEF Created
  <1>7. ASSUME NEW c \in Clients, NEW op \in Operations, NEW j \in Jobs, NEW row, Begin(c, op, j, row)
        PROVE  Created'
    <2>1. /\ requests' = requests \cup {[client |-> c, op |-> op, job |-> j, row |-> row]}
          /\ UNCHANGED <<jobs, claims>> /\ jobs[j].status # "uncreated"
      BY <1>7 DEF Begin, vars, dbVars, Exists, Existing
    <2>2. QED
      BY <1>1, <2>1 DEF Created
  <1>8. CASE \E c \in Clients, j \in Jobs :
               Update(c, j) \/ TriggerRun(c, j) \/ Pause(c, j) \/ Resume(c, j)
    BY <1>7, <1>8 DEF Update, TriggerRun, Pause, Resume, Operations
  <1>9. CASE (\E j \in Jobs : Create(j) \/ Delete(j)) \/ (\E q \in requests : Write(q) \/ Abandon(q))
    BY <1>5, <1>9 DEF Create, Delete, Write, Abandon, vars, dbVars
  <1>10. QED
    BY <1>6, <1>8, <1>9 DEF ServiceNext, WriteOf, svcVars

LEMMA ImplementsStep == Implements /\ [ServiceNext]_svcVars => Implements'
  <1>1. SUFFICES ASSUME Implements, [ServiceNext]_svcVars PROVE Implements'
    OBVIOUS
  <1>2. ServiceInv'
    BY <1>1, ServiceStep DEF Implements
  <1>3. DrainInv' /\ BatchesDistinct'
    <2>1. TypeOK /\ DrainInv /\ BatchesDistinct
      BY <1>1 DEF Implements, ServiceInv, SafetyInv
    <2>2. CASE [Next]_vars
      BY <2>1, <2>2, DrainStep, BatchesStayDistinct DEF BatchesDistinct, Distinct
    <2>3. CASE UNCHANGED <<claims, procVars, loop, claimVars, pending, jobChan, worker>>
      BY <2>1, <2>3, RequestsKeepDrain
    <2>4. CASE \E j \in Jobs : Create(j) \/ Delete(j)
      BY <2>3, <2>4 DEF Create, Delete
    <2>5. CASE \E q \in requests : Write(q) \/ Abandon(q)
      BY <2>2, <2>3, <2>5 DEF Write, Abandon
    <2>6. CASE \E c \in Clients, j \in Jobs :
                 Update(c, j) \/ TriggerRun(c, j) \/ Pause(c, j) \/ Resume(c, j)
      BY <2>2, <2>6 DEF Update, TriggerRun, Pause, Resume, Begin
    <2>7. QED
      BY <1>1, <2>2, <2>4, <2>5, <2>6 DEF ServiceNext, WriteOf, svcVars
  <1>4. QED
    BY <1>1, <1>2, <1>3, CreatedStep DEF Implements

LEMMA ImplementsInit == ServiceInit => Implements
  <1>1. SUFFICES ASSUME ServiceInit PROVE Implements
    OBVIOUS
  <1>2. Fresh /\ requests = {}
    BY <1>1 DEF ServiceInit
  <1>3. ServiceInv /\ DrainInv
    BY <1>1, <1>2, ServiceInitSafe, DrainInit
  <1>4. BatchesDistinct /\ Created
    BY <1>2 DEF Fresh, BatchesDistinct, Distinct, Created
  <1>5. QED
    BY <1>3, <1>4 DEF Implements

-----------------------------------------------------------------------------
(* The steps.                                                               *)

\* The status of one job changes, and nothing the ledger sees of an execution.
LEMMA OneStatus ==
  ASSUME TypeOK, NEW j \in Jobs, \A k \in Jobs : k # j => jobs'[k] = jobs[k],
         \/ jobs'[j] = jobs[j]
         \/ jobs[j].status \in L!Live /\ jobs'[j].status \in L!Live,
         UNCHANGED <<executions, dispatched>>, \A e \in DOMAIN executions : Stage(e)' = Stage(e)
  PROVE  L!ChangeStatus(j) \/ UNCHANGED L!ledgerVars
  <1> DEFINE old == [k \in Jobs |-> jobs[k].status]
             new == [k \in Jobs |-> jobs'[k].status]
  <1>1. CASE jobs'[j] = jobs[j]
    BY <1>1, Unseen DEF StatusesKept
  <1>2. CASE jobs[j].status \in L!Live /\ jobs'[j].status \in L!Live
    <2>1. new = [old EXCEPT ![j] = jobs'[j].status] /\ old[j] \in L!Live
      BY <1>2
    <2>2. LedgerEntries' = LedgerEntries
      BY EntriesKept
    <2> HIDE DEF old, new
    <2>3. QED
      BY <1>2, <2>1, <2>2 DEF L!ChangeStatus, old, new
  <1>3. QED
    BY <1>1, <1>2

\* The owners' statements leave every claim where it is.
LEMMA RequestStages ==
  ASSUME UNCHANGED <<pending, jobChan, worker>>
  PROVE  \A e : Stage(e)' = Stage(e)
  BY DEF Stage, Unsaved, Elements, RunningWith, Running, BusyWith, Busy

LEMMA CreateIsCreate ==
  ASSUME TypeOK, NEW j \in Jobs, Create(j)
  PROVE  L!Create(j)
  <1>1. /\ UNCHANGED <<executions, dispatched, pending, jobChan, worker>>
        /\ jobs[j].status = "uncreated"
        /\ \A k \in Jobs : k # j => jobs'[k] = jobs[k]
        /\ jobs'[j].status = "active"
    BY DEF Create, NewJob, TypeOK
  <1>2. LedgerEntries' = LedgerEntries
    BY <1>1, RequestStages, EntriesKept
  <1>3. [k \in Jobs |-> jobs'[k].status] = [[k \in Jobs |-> jobs[k].status] EXCEPT ![j] = "active"]
    BY <1>1
  <1>4. QED
    BY <1>1, <1>2, <1>3 DEF L!Create

LEMMA DeleteIsDelete ==
  ASSUME TypeOK, NEW j \in Jobs, Delete(j)
  PROVE  L!Delete(j)
  <1> DEFINE next == [e \in DOMAIN LedgerEntries |->
                       IF LedgerEntries[e].job = j THEN [LedgerEntries[e] EXCEPT !.outcome = "deleted"]
                       ELSE LedgerEntries[e]]
  <1>1. /\ UNCHANGED <<dispatched, pending, jobChan, worker>>
        /\ jobs[j].status \in L!Live
        /\ \A k \in Jobs : k # j => jobs'[k] = jobs[k]
        /\ Cascade(j)
    BY DEF Delete, Exists, Existing, TypeOK, L!Live
  <1>2. jobs'[j].status = "deleted"
    <2>1. [jobs[j] EXCEPT !.status = "deleted"].status = "deleted"
      BY DEF TypeOK, JobRows
    <2>2. jobs' = [jobs EXCEPT ![j] = [jobs[j] EXCEPT !.status = "deleted"]]
      BY DEF Delete
    <2>3. QED
      BY <2>1, <2>2 DEF TypeOK
  <1>3. \A e : Stage(e)' = Stage(e)
    BY <1>1, RequestStages
  <1>4. DOMAIN executions' = DOMAIN executions
    BY <1>1 DEF Cascade
  <1>5. ASSUME NEW e \in DOMAIN executions PROVE LedgerEntries'[e] = next[e]
    <2>1. executions[e] \in ExecRows
      BY LenProperties DEF TypeOK
    <2>2. executions'[e].job = executions[e].job
      BY <1>1, <2>1 DEF Cascade, ExecRows
    <2>3. executions'[e].status = IF executions[e].job = j THEN "deleted" ELSE executions[e].status
      BY <1>1, <2>1 DEF Cascade, ExecRows
    <2>4. LedgerEntries'[e] =
            [job |-> executions'[e].job, outcome |-> executions'[e].status, stage |-> Stage(e)']
      BY <1>4, EntryIs
    <2>5. LedgerEntries[e] =
            [job |-> executions[e].job, outcome |-> executions[e].status, stage |-> Stage(e)]
      BY EntryIs
    <2>6. next[e] = IF LedgerEntries[e].job = j THEN [LedgerEntries[e] EXCEPT !.outcome = "deleted"]
                    ELSE LedgerEntries[e]
      BY EntryIs
    <2> HIDE DEF next
    <2>7. QED
      BY <1>3, <2>2, <2>3, <2>4, <2>5, <2>6
  <1>6. LedgerEntries' = next
    <2>1. LedgerEntries' = [e \in DOMAIN executions |-> LedgerEntries'[e]]
      BY <1>4 DEF LedgerEntries
    <2>2. next = [e \in DOMAIN executions |-> next[e]]
      BY EntryIs
    <2> HIDE DEF next
    <2>3. QED
      BY <1>5, <2>1, <2>2
  <1>7. [k \in Jobs |-> jobs'[k].status] = [[k \in Jobs |-> jobs[k].status] EXCEPT ![j] = "deleted"]
    BY <1>1, <1>2
  <1>8. QED
    BY <1>1, <1>6, <1>7 DEF L!Delete

LEMMA ServiceLedgerStep ==
  ASSUME Implements, [ServiceNext]_svcVars
  PROVE  L!LedgerNext \/ UNCHANGED L!ledgerVars
  <1>1. /\ SafetyInv /\ TypeOK /\ ControlOK /\ DrainInv /\ BatchesDistinct /\ LockedActive
    BY DEF Implements, ServiceInv, SafetyInv, OnlyActiveClaimed, LockedActive
  <1>2. CASE [Next]_vars
    <2>1. ASSUME NEW r \in Replicas, NEW w \in Workers, WriteBackJob(r, w)
          PROVE  L!LedgerNext \/ UNCHANGED L!ledgerVars
      <3>1. PICK j \in Jobs :
              /\ jobs[j].status # "uncreated"
              /\ \A k \in Jobs : k # j => jobs'[k] = jobs[k]
              /\ \/ jobs'[j] = jobs[j]
                 \/ jobs[j].status # "deleted" /\ jobs'[j].status = "active"
        BY <2>1, WriteBackStatus
      <3>2. jobs[j].status \in JobStatuses
        BY <1>1 DEF TypeOK, JobRows
      <3>3. \/ jobs'[j] = jobs[j]
            \/ jobs[j].status \in L!Live /\ jobs'[j].status \in L!Live
        BY <3>1, <3>2 DEF JobStatuses, L!Live
      <3>4. L!ChangeStatus(j) \/ UNCHANGED L!ledgerVars
        BY <1>1, <2>1, <3>1, <3>3, WriteBackStages, OneStatus
      <3>5. QED
        BY <3>4 DEF L!LedgerNext
    <2>2. CASE StatusesKept
      BY <1>1, <1>2, <2>2, LedgerStep
    <2>3. ASSUME NEW r \in Replicas, CommitWrites(r) PROVE StatusesKept
      BY <1>1, <2>3, CommitStatuses
    <2>4. UNCHANGED jobs => StatusesKept
      BY DEF StatusesKept
    <2>5. QED
      BY <1>1, <1>2, <2>1, <2>2, <2>3, <2>4, StepOnTables
  <1>3. CASE \E j \in Jobs : Create(j) \/ Delete(j)
    BY <1>1, <1>3, CreateIsCreate, DeleteIsDelete DEF L!LedgerNext
  <1>4. ASSUME NEW q \in requests, Write(q) PROVE L!LedgerNext \/ UNCHANGED L!ledgerVars
    <2>1. /\ q.job \in Jobs /\ jobs[q.job].status # "uncreated"
          /\ \A k \in Jobs : k # q.job => jobs'[k] = jobs[k]
          /\ \/ jobs'[q.job] = jobs[q.job]
             \/ jobs[q.job].status # "deleted" /\ jobs'[q.job].status \in Existing
      BY <1>4, WriteStatus
    <2>2. jobs[q.job].status \in JobStatuses
      BY <1>1, <2>1 DEF TypeOK, JobRows
    <2>3. \/ jobs'[q.job] = jobs[q.job]
          \/ jobs[q.job].status \in L!Live /\ jobs'[q.job].status \in L!Live
      BY <2>1, <2>2 DEF JobStatuses, Existing, L!Live
    <2>4. UNCHANGED <<executions, dispatched, pending, jobChan, worker>>
      BY <1>4 DEF Write
    <2>5. L!ChangeStatus(q.job) \/ UNCHANGED L!ledgerVars
      BY <1>1, <2>1, <2>3, <2>4, RequestStages, OneStatus
    <2>6. QED
      BY <2>1, <2>5 DEF L!LedgerNext
  <1>5. UNCHANGED vars => [Next]_vars
    OBVIOUS
  <1>6. CASE \/ \E c \in Clients, j \in Jobs :
                  Update(c, j) \/ TriggerRun(c, j) \/ Pause(c, j) \/ Resume(c, j)
             \/ \E q \in requests : Abandon(q)
    BY <1>2, <1>5, <1>6 DEF Update, TriggerRun, Pause, Resume, Begin, Abandon
  <1>7. QED
    BY <1>2, <1>3, <1>4, <1>6 DEF ServiceNext, WriteOf, svcVars

\* The scheduler beside the job service implements the ledger: whatever the owners'
\* requests, the claims and the workers write over each other, a job changes its
\* status only while it is there, a deletion takes its executions with it, and an
\* execution is held once, settled by its holder and reported at most once (Create,
\* Update, TriggerRun, Pause, Resume, Delete beside Run, ClaimDue and executeJob).
THEOREM ServiceImplementsLedger == ServiceSpec => LedgerSpec
  <1>1. ServiceInit => L!LedgerInit
    <2> SUFFICES ASSUME ServiceInit PROVE L!LedgerInit
      OBVIOUS
    <2>1. [j \in Jobs |-> jobs[j].status] \in [Jobs -> {"uncreated", "active"}]
      <3>1. \A j \in Jobs : jobs[j].status = "uncreated"
        BY DEF ServiceInit, NewJob
      <3>2. QED
        BY <3>1
    <2>2. LedgerEntries = <<>> /\ dispatched = {}
      <3>1. executions = <<>> /\ dispatched = {}
        BY DEF ServiceInit, Fresh
      <3>2. DOMAIN executions = {}
        BY <3>1
      <3>3. LedgerEntries = [e \in {} |-> 1]
        BY <3>2 DEF LedgerEntries
      <3>4. QED
        BY <3>1, <3>3
    <2>3. QED
      BY <2>1, <2>2 DEF L!LedgerInit
  <1>2. Implements /\ [ServiceNext]_svcVars => [L!LedgerNext]_(L!ledgerVars)
    BY ServiceLedgerStep
  <1>3. QED
    BY <1>1, <1>2, ImplementsInit, ImplementsStep, PTL DEF ServiceSpec, LedgerSpec, L!Spec

\* Beside the owners' requests an execution is still reported once, by who settled it,
\* and its outcome stays until its job is deleted (executeJob beside Update, Pause,
\* Resume, TriggerRun and Delete of the job service).
THEOREM ServiceKeepsItsWord == ServiceSpec => []L!ReportedIsClosed /\ L!LedgerGoesOn
  <1>1. ServiceInv => TypeOK
    BY DEF ServiceInv, SafetyInv
  <1>2. QED
    BY <1>1, ServiceImplementsLedger, ServiceInvariant, LedgerKeepsItsWord, PTL
=============================================================================
