--------------------------- MODULE SchedulerProofs ---------------------------
(****************************************************************************)
(* The safety of the scheduler for every number of replicas, workers and    *)
(* jobs, every schedule and every combination of failing statements.        *)
(****************************************************************************)
EXTENDS SchedulerProperties, FiniteSetTheorems, SequenceTheorems, TLAPS

-----------------------------------------------------------------------------
(* The constants and the helpers.                                           *)

LEMMA ChanCapNat == ChanCap \in Nat
  <1>1. Cardinality(Workers) \in Nat
    BY ConstantsAssumption, FS_CardinalityType
  <1>2. QED
    BY <1>1 DEF ChanCap

LEMMA TimesOne == 1 \in Times
  BY ConstantsAssumption DEF Times

LEMMA NewJobType ==
  \A j \in Jobs : NewJob(JobSchedule[j], JobCondition[j], 1) \in JobRows
  <1>1. SUFFICES ASSUME NEW j \in Jobs
                 PROVE  NewJob(JobSchedule[j], JobCondition[j], 1) \in JobRows
    OBVIOUS
  <1>2. JobSchedule[j] \in Schedules /\ JobCondition[j] \in Conditions
    BY ConstantsAssumption
  <1>3. CronNext[JobSchedule[j]][1] \in Nat
    BY <1>2, TimesOne, CronAssumption
  <1>4. QED
    BY <1>2, <1>3 DEF NewJob, JobRows, JobStatuses, Timestamps

LEMMA EmptyScanType == DOMAIN EmptyScan = {} /\ EmptyScan \in [{} -> JobRows]
  BY DEF EmptyScan

\* Whatever an executor does, the outcome it gives is terminal.
LEMMA OutcomesAreTerminal ==
  ASSUME NEW j, NEW pc, NEW status \in Outcomes(j, pc)
  PROVE  status \in Terminal
  <1>1. Possible(pc) \subseteq Terminal
    BY DEF Possible, Terminal
  <1>2. CASE JobType[j] = "command"
    BY <1>1, <1>2 DEF Outcomes, CommandResults
  <1>3. CASE JobType[j] = "http_check"
    BY <1>1, <1>3 DEF Outcomes, HTTPCheckResults
  <1>4. CASE JobType[j] # "command" /\ JobType[j] # "http_check"
    BY <1>4 DEF Outcomes, Terminal
  <1>5. QED
    BY <1>2, <1>3, <1>4

\* Appending k rows to a table.
LEMMA Extension ==
  ASSUME NEW S, NEW old \in Seq(S), NEW k \in Nat, NEW new \in [1 .. k -> S]
  PROVE  /\ old \o new \in Seq(S)
         /\ Len(old \o new) = Len(old) + k
         /\ DOMAIN (old \o new) = 1 .. Len(old) + k
         /\ \A e \in 1 .. Len(old) : (old \o new)[e] = old[e]
         /\ \A e \in 1 .. Len(old) + k : e > Len(old) => (old \o new)[e] = new[e - Len(old)]
  <1>1. new \in Seq(S) /\ Len(new) = k
    <2>1. new \in Seq(S)
      BY SeqDef
    <2>2. DOMAIN new = 1 .. Len(new) /\ Len(new) \in Nat
      BY <2>1, LenProperties
    <2>3. QED
      BY <2>1, <2>2
  <1>2. Len(old) \in Nat
    BY LenProperties
  <1> DEFINE all == old \o new
  <1>3. /\ all \in Seq(S) /\ Len(all) = Len(old) + k
        /\ \A e \in 1 .. Len(old) + k :
             all[e] = IF e <= Len(old) THEN old[e] ELSE new[e - Len(old)]
    BY <1>1, ConcatProperties
  <1> HIDE DEF all
  <1>4. DOMAIN all = 1 .. Len(old) + k
    BY <1>3, LenProperties
  <1>5. QED
    BY <1>2, <1>3, <1>4 DEF all

\* An UPDATE of the outcome of an execution leaves a row of the same job.
LEMMA WithOutcomeType ==
  ASSUME NEW row \in ExecRows, NEW status \in ExecStatuses, NEW reason \in Reasons
  PROVE  /\ WithOutcome(row, status, reason) \in ExecRows
         /\ row.status = "deleted" => WithOutcome(row, status, reason) = row
         /\ row.status # "deleted" =>
              /\ WithOutcome(row, status, reason).status = status
              /\ WithOutcome(row, status, reason).error = reason
  BY DEF WithOutcome, ExecRows

-----------------------------------------------------------------------------
(* Type correctness.                                                        *)

LEMMA FreshTyped ==
  ASSUME Fresh, jobs \in [Jobs -> JobRows]
  PROVE  TypeOK /\ ControlOK
  <1>1. worker \in [Replicas -> [Workers ->
          [pc : WorkerPCs, exec : 0 .. Len(executions), status : ExecStatuses]]]
    BY DEF Fresh, IdleWorker, WorkerPCs, ExecStatuses
  <1>2. \A r \in Replicas : Len(jobChan[r]) <= ChanCap
    BY ChanCapNat DEF Fresh
  <1>3. TypeOK
    BY <1>1, <1>2, TimesOne, EmptyScanType, ConstantsAssumption
    DEF Fresh, TypeOK, Phases, LoopPCs
  <1>4. ControlOK
    BY EmptyScanType DEF Fresh, ControlOK, Busy, IdleWorker
  <1>5. QED
    BY <1>3, <1>4

LEMMA InitTyped == Init => TypeOK /\ ControlOK
  <1>1. Init => Fresh /\ jobs \in [Jobs -> JobRows]
    BY NewJobType DEF Init
  <1>2. QED
    BY <1>1, FreshTyped

LEMMA TimePassesTyped ==
  ASSUME TypeOK, ControlOK, TimePasses
  PROVE  TypeOK' /\ ControlOK'
  <1>1. now' \in Times
    BY ConstantsAssumption DEF TypeOK, TimePasses, Times
  <1>2. QED
    BY <1>1 DEF TypeOK, ControlOK, TimePasses, Busy, dbVars, procVars, claimVars

LEMMA ResetTyped ==
  ASSUME TypeOK, ControlOK, NEW r \in Replicas, ResetProcess(r),
         phase' \in [Replicas -> Phases], starts' \in [Replicas -> 0 .. MaxStarts],
         UNCHANGED <<now, dbVars, dispatched>>
  PROVE  TypeOK' /\ ControlOK'
  <1>1. worker' \in [Replicas -> [Workers ->
          [pc : WorkerPCs, exec : 0 .. Len(executions), status : ExecStatuses]]]
    BY DEF TypeOK, ResetProcess, IdleWorker, WorkerPCs, ExecStatuses, dbVars
  <1>2. /\ DOMAIN scan' = Replicas
        /\ \A s \in Replicas :
             DOMAIN scan'[s] \subseteq Jobs /\ scan'[s] \in [DOMAIN scan'[s] -> JobRows]
    BY EmptyScanType DEF TypeOK, ResetProcess
  <1>3. TypeOK'
    BY <1>1, <1>2, ChanCapNat, TimesOne
    DEF TypeOK, ResetProcess, dbVars, LoopPCs
  <1>4. ControlOK'
    BY EmptyScanType
    DEF TypeOK, ControlOK, ResetProcess, Busy, IdleWorker, dbVars
  <1>5. QED
    BY <1>3, <1>4

LEMMA ProcessTyped ==
  ASSUME TypeOK, ControlOK, NEW r \in Replicas,
         Start(r) \/ Crash(r) \/ Terminate(r) \/ ExitLoop(r) \/ GraceExpires(r)
           \/ Drained(r) \/ Return(r)
  PROVE  TypeOK' /\ ControlOK'
  <1>1. CASE Start(r)
    <2>0. /\ phase \in [Replicas -> Phases] /\ starts \in [Replicas -> 0 .. MaxStarts]
          /\ MaxStarts \in Nat
      BY ConstantsAssumption DEF TypeOK
    <2>1. phase' \in [Replicas -> Phases] /\ starts' \in [Replicas -> 0 .. MaxStarts]
      BY <1>1, <2>0 DEF Start, Phases
    <2>2. QED
      BY <1>1, <2>1, ResetTyped DEF Start
  <1>2. CASE Crash(r)
    <2>1. phase' \in [Replicas -> Phases] /\ starts' \in [Replicas -> 0 .. MaxStarts]
      BY <1>2 DEF TypeOK, Crash, Phases
    <2>2. QED
      BY <1>2, <2>1, ResetTyped DEF Crash
  <1>3. CASE Terminate(r) \/ ExitLoop(r) \/ GraceExpires(r) \/ Drained(r) \/ Return(r)
    <2>1. /\ phase' \in [Replicas -> Phases] /\ ctxDone' \in [Replicas -> BOOLEAN]
          /\ execDone' \in [Replicas -> BOOLEAN]
      BY <1>3 DEF TypeOK, Terminate, ExitLoop, GraceExpires, Drained, Return, Phases
    <2>2. UNCHANGED <<now, dbVars, starts, loop, claimVars, pending, jobChan, worker, dispatched>>
      BY <1>3 DEF Terminate, ExitLoop, GraceExpires, Drained, Return
    <2>3. QED
      BY <2>1, <2>2 DEF TypeOK, ControlOK, Busy, dbVars, claimVars
  <1>4. QED
    BY <1>1, <1>2, <1>3

\* A step that rewrites rows of executions, adds none, and leaves the other
\* variables of the invariant alone or well typed.
LEMMA SameLengthTyped ==
  ASSUME TypeOK, executions' \in Seq(ExecRows), Len(executions') = Len(executions)
  PROVE  DOMAIN executions' = DOMAIN executions
  BY LenProperties DEF TypeOK

LEMMA RecoverStaleTyped ==
  ASSUME TypeOK, ControlOK, NEW r \in Replicas, RecoverStale(r)
  PROVE  TypeOK' /\ ControlOK'
  <1>1. executions' \in Seq(ExecRows) /\ Len(executions') = Len(executions)
    <2>1. CASE UNCHANGED executions
      BY <2>1 DEF TypeOK
    <2>2. ASSUME NEW t \in ReplicaTimes,
                 executions' = [e \in DOMAIN executions |->
                   IF Stale(executions[e], t) THEN WithOutcome(executions[e], "error", "stale")
                   ELSE executions[e]]
          PROVE  executions' \in Seq(ExecRows) /\ Len(executions') = Len(executions)
      <3> DEFINE n == Len(executions)
                 row(e) == IF Stale(executions[e], t)
                           THEN WithOutcome(executions[e], "error", "stale")
                           ELSE executions[e]
      <3>1. executions \in Seq(ExecRows) /\ n \in Nat /\ DOMAIN executions = 1 .. n
        BY LenProperties DEF TypeOK
      <3>2. executions' = [e \in 1 .. n |-> row(e)]
        BY <2>2, <3>1
      <3>3. \A e \in 1 .. n : row(e) \in ExecRows
        <4>1. TAKE e \in 1 .. n
        <4>2. executions[e] \in ExecRows
          BY <3>1
        <4>3. WithOutcome(executions[e], "error", "stale") \in ExecRows
          BY <4>2, WithOutcomeType DEF ExecStatuses, Reasons
        <4>4. QED
          BY <4>2, <4>3
      <3> HIDE DEF row
      <3>4. QED
        BY <3>1, <3>2, <3>3
    <2>3. QED
      BY <2>1, <2>2 DEF RecoverStale
  <1>2. DOMAIN executions' = DOMAIN executions
    BY <1>1, SameLengthTyped
  <1>3. phase' \in [Replicas -> Phases]
    BY DEF TypeOK, RecoverStale, Phases
  <1>4. QED
    BY <1>1, <1>2, <1>3
    DEF TypeOK, ControlOK, RecoverStale, Busy, claimVars

LEMMA SaveOutcomeTyped ==
  ASSUME TypeOK, NEW e \in DOMAIN executions, NEW status \in ExecStatuses,
         NEW reason \in Reasons, NEW fault, SaveOutcome(e, status, reason, fault)
  PROVE  /\ executions' \in Seq(ExecRows)
         /\ Len(executions') = Len(executions)
         /\ DOMAIN executions' = DOMAIN executions
         /\ \A d \in DOMAIN executions : d # e => executions'[d] = executions[d]
         /\ \/ executions'[e] = executions[e]
            \/ executions'[e].status = status /\ executions'[e].error = reason
  <1> DEFINE row == WithOutcome(executions[e], status, reason)
  <1>1. executions \in Seq(ExecRows) /\ executions[e] \in ExecRows
    BY DEF TypeOK
  <1>2. /\ row \in ExecRows
        /\ row = executions[e] \/ (row.status = status /\ row.error = reason)
    BY <1>1, WithOutcomeType
  <1>3. executions' = executions \/ executions' = [executions EXCEPT ![e] = row]
    BY DEF SaveOutcome
  <1> HIDE DEF row
  <1>4. /\ [executions EXCEPT ![e] = row] \in Seq(ExecRows)
        /\ Len([executions EXCEPT ![e] = row]) = Len(executions)
    BY <1>1, <1>2, ExceptSeq, LenProperties
  <1>5. QED
    BY <1>1, <1>2, <1>3, <1>4

-----------------------------------------------------------------------------
LEMMA ScanDueTyped ==
  ASSUME TypeOK, ControlOK, NEW r \in Replicas, ScanDue(r)
  PROVE  TypeOK' /\ ControlOK'
  <1>1. PICK S \in EarliestDue : scan' = [scan EXCEPT ![r] = [j \in S |-> jobs[j]]]
    BY DEF ScanDue
  <1>2. S \subseteq Jobs
    BY <1>1 DEF EarliestDue, Claimable
  <1>3. [j \in S |-> jobs[j]] \in [S -> JobRows]
    BY <1>2 DEF TypeOK
  <1>4. /\ DOMAIN scan' = Replicas
        /\ scan'[r] = [j \in S |-> jobs[j]] /\ DOMAIN scan'[r] = S
        /\ \A s \in Replicas : s # r => scan'[s] = scan[s]
    BY <1>1 DEF TypeOK
  <1>5. TypeOK'
    BY <1>2, <1>3, <1>4 DEF TypeOK, ScanDue, dbVars, procVars, LoopPCs
  <1>6. ControlOK'
    BY <1>4 DEF TypeOK, ControlOK, ScanDue, dbVars, procVars, Busy
  <1>7. QED
    BY <1>5, <1>6

\* The claim transaction claims rows it has locked, each once.
LEMMA AdvancedBatch ==
  ASSUME TypeOK, NEW r \in Replicas, AdvanceNextRun(r)
  PROVE  \E q \in Seq(Jobs) : /\ batch' = [batch EXCEPT ![r] = q]
                              /\ \A i \in DOMAIN q : q[i] \in DOMAIN scan[r]
  <1> DEFINE S == {j \in DOMAIN scan[r] : Parses(scan[r][j].schedule)}
  <1>1. S \subseteq Jobs /\ IsFiniteSet(S)
    BY ConstantsAssumption, FS_Subset DEF TypeOK
  <1>2. Cardinality(S) \in Nat
    BY <1>1, FS_CardinalityType
  <1>3. PICK q \in InDueOrder(S, scan[r]) : batch' = [batch EXCEPT ![r] = q]
    BY DEF AdvanceNextRun, Advanced, Parsing
  <1>4. q \in [1 .. Cardinality(S) -> S]
    BY <1>3 DEF InDueOrder
  <1> HIDE DEF S
  <1>5. q \in Seq(Jobs)
    <2>1. q \in [1 .. Cardinality(S) -> Jobs]
      BY <1>1, <1>4
    <2>2. QED
      BY <1>2, <2>1, SeqDef
  <1>6. QED
    BY <1>3, <1>4, <1>5 DEF S

LEMMA AdvanceNextRunTyped ==
  ASSUME TypeOK, ControlOK, NEW r \in Replicas, AdvanceNextRun(r)
  PROVE  TypeOK' /\ ControlOK'
  <1>1. PICK q \in Seq(Jobs) : /\ batch' = [batch EXCEPT ![r] = q]
                               /\ \A i \in DOMAIN q : q[i] \in DOMAIN scan[r]
    BY AdvancedBatch
  <1>2. TypeOK'
    <2>1. claimedAt' \in [Replicas -> Times]
      BY DEF TypeOK, AdvanceNextRun, ReplicaTimes
    <2>2. QED
      BY <1>1, <2>1 DEF TypeOK, AdvanceNextRun, dbVars, procVars, LoopPCs
  <1>3. ControlOK'
    BY <1>1 DEF TypeOK, ControlOK, AdvanceNextRun, dbVars, procVars, Busy
  <1>4. QED
    BY <1>2, <1>3

\* The claims a transaction adds: next_run_at comes from the schedule, the new
\* rows follow the old ones.
LEMMA CommitWritesTyped ==
  ASSUME TypeOK, ControlOK, NEW r \in Replicas, CommitWrites(r)
  PROVE  /\ jobs' \in [Jobs -> JobRows]
         /\ executions' \in Seq(ExecRows) /\ claims' \in Seq(JobClaims)
         /\ Len(executions') = Len(executions) + Len(batch[r])
         /\ Len(claims') = Len(executions')
         /\ \A e \in DOMAIN executions : e \in DOMAIN executions' /\ executions'[e] = executions[e]
         /\ \A e \in DOMAIN executions' \ DOMAIN executions : executions'[e].status = "running"
         /\ NewIds(r) \in Seq(1 .. Len(executions')) /\ Len(NewIds(r)) = Len(batch[r])
         /\ \A i \in 1 .. Len(batch[r]) : NewIds(r)[i] = Len(executions) + i
  <1> DEFINE n == Len(executions)
             k == Len(batch[r])
             next(j) == CronNext[scan[r][j].schedule][claimedAt[r]]
             exec(i) == [job |-> batch[r][i], status |-> "running", error |-> "none",
                         startedAt |-> claimedAt[r]]
             claim(i) == [job |-> batch[r][i], row |-> AdvancedRow(r, batch[r][i]),
                          slot |-> scan[r][batch[r][i]].nextRun]
  <1>1. /\ executions \in Seq(ExecRows) /\ claims \in Seq(JobClaims)
        /\ batch[r] \in Seq(Jobs) /\ n \in Nat /\ k \in Nat
        /\ DOMAIN executions = 1 .. n /\ DOMAIN batch[r] = 1 .. k /\ Len(claims) = n
    BY LenProperties DEF TypeOK
  <1>2. \A i \in 1 .. k : batch[r][i] \in Jobs /\ batch[r][i] \in DOMAIN scan[r]
    BY <1>1 DEF ControlOK
  <1>3. \A j \in DOMAIN scan[r] : scan[r][j] \in JobRows /\ next(j) \in Nat
    BY CronAssumption DEF TypeOK, JobRows
  <1>4. \A i \in 1 .. k : exec(i) \in ExecRows
    BY <1>2 DEF TypeOK, ExecRows, ExecStatuses, Reasons
  <1>5. \A i \in 1 .. k : AdvancedRow(r, batch[r][i]) \in JobRows
    BY <1>2, <1>3 DEF AdvancedRow, NextRun, JobRows, Timestamps
  <1>6. \A i \in 1 .. k : claim(i) \in JobClaims
    BY <1>2, <1>3, <1>5 DEF JobClaims, JobRows
  <1>7. jobs' \in [Jobs -> JobRows]
    <2>1. \A j \in Jobs : jobs[j] \in JobRows
      BY DEF TypeOK
    <2>2. \A j \in Jobs : j \in Claimed(r) =>
            [jobs[j] EXCEPT !.nextRun = next(j)] \in JobRows
      BY <1>1, <1>2, <1>3, <2>1 DEF Claimed, JobRows, Timestamps
    <2>3. QED
      BY <2>1, <2>2 DEF CommitWrites, NextRun
  <1>8. /\ executions' = executions \o [i \in 1 .. k |-> exec(i)]
        /\ claims' = claims \o [i \in 1 .. k |-> claim(i)]
    BY DEF CommitWrites
  <1> DEFINE execs == [i \in 1 .. k |-> exec(i)]
             cls == [i \in 1 .. k |-> claim(i)]
  <1>9. /\ execs \in [1 .. k -> ExecRows] /\ cls \in [1 .. k -> JobClaims]
        /\ \A i \in 1 .. k : execs[i].status = "running"
    BY <1>4, <1>6
  <1>10. executions' = executions \o execs /\ claims' = claims \o cls
    BY <1>8
  <1> HIDE DEF execs, cls, exec, claim, next, k, n
  <1>11. /\ executions' \in Seq(ExecRows) /\ Len(executions') = n + k
         /\ DOMAIN executions' = 1 .. n + k
         /\ \A e \in 1 .. n : executions'[e] = executions[e]
         /\ \A e \in 1 .. n + k : e > n => executions'[e] = execs[e - n]
    <2> DEFINE all == executions \o execs
    <2>0. /\ executions \in Seq(ExecRows) /\ execs \in [1 .. k -> ExecRows]
          /\ k \in Nat /\ n = Len(executions)
      BY <1>1, <1>9 DEF n
    <2>1. /\ all \in Seq(ExecRows) /\ Len(all) = n + k
          /\ DOMAIN all = 1 .. n + k
          /\ \A e \in 1 .. n : all[e] = executions[e]
          /\ \A e \in 1 .. n + k : e > n => all[e] = execs[e - n]
      <3>1. /\ all \in Seq(ExecRows) /\ Len(all) = Len(executions) + k
            /\ DOMAIN all = 1 .. Len(executions) + k
        BY <2>0, Extension
      <3>2. /\ \A e \in 1 .. Len(executions) : all[e] = executions[e]
            /\ \A e \in 1 .. Len(executions) + k :
                 e > Len(executions) => all[e] = execs[e - Len(executions)]
        BY <2>0, Extension
      <3> HIDE DEF all
      <3>3. QED
        BY <2>0, <3>1, <3>2
    <2> HIDE DEF all
    <2>2. executions' = all
      BY <1>10 DEF all
    <2>3. QED
      BY <2>1, <2>2
  <1>12. claims' \in Seq(JobClaims) /\ Len(claims') = n + k
    <2> DEFINE all == claims \o cls
    <2>1. claims \in Seq(JobClaims) /\ cls \in [1 .. k -> JobClaims] /\ k \in Nat
      BY <1>1, <1>9
    <2>2. all \in Seq(JobClaims) /\ Len(all) = Len(claims) + k
      BY <2>1, Extension
    <2> HIDE DEF all
    <2>3. claims' = all /\ Len(claims) = n
      BY <1>1, <1>10 DEF all
    <2>4. QED
      BY <2>2, <2>3
  <1>14. \A e \in DOMAIN executions' \ DOMAIN executions : executions'[e].status = "running"
    <2>1. TAKE e \in DOMAIN executions' \ DOMAIN executions
    <2>2. e \in 1 .. n + k /\ e \notin 1 .. n
      BY <1>1, <1>11
    <2>3. e > n /\ e - n \in 1 .. k
      BY <1>1, <2>2
    <2>4. executions'[e] = execs[e - n]
      BY <1>11, <2>2, <2>3
    <2>5. QED
      BY <1>9, <2>3, <2>4
  <1>15. /\ NewIds(r) \in Seq(1 .. n + k) /\ Len(NewIds(r)) = k
         /\ \A i \in 1 .. k : NewIds(r)[i] = n + i
    <2>1. NewIds(r) = [i \in 1 .. k |-> n + i]
      BY DEF NewIds, n, k
    <2>2. \A i \in 1 .. k : n + i \in 1 .. n + k
      BY <1>1
    <2>3. [i \in 1 .. k |-> n + i] \in [1 .. k -> 1 .. n + k]
      BY <2>2
    <2>4. NewIds(r) \in Seq(1 .. n + k)
      BY <1>1, <2>1, <2>3, SeqDef
    <2>5. DOMAIN NewIds(r) = 1 .. Len(NewIds(r)) /\ Len(NewIds(r)) \in Nat
      BY <2>4, LenProperties
    <2>6. QED
      BY <1>1, <2>1, <2>4, <2>5
  <1>16. DOMAIN executions \subseteq DOMAIN executions'
    BY <1>1, <1>11
  <1>17. \A e \in DOMAIN executions : executions'[e] = executions[e]
    BY <1>1, <1>11
  <1>18. QED
    BY <1>1, <1>7, <1>11, <1>12, <1>14, <1>15, <1>16, <1>17 DEF n, k

\* The rows and claims a commit adds, one for each row of the batch.
LEMMA CommittedRows ==
  ASSUME TypeOK, ControlOK, NEW r \in Replicas, CommitWrites(r)
  PROVE  /\ \A e \in DOMAIN claims : claims'[e] = claims[e]
         /\ Len(batch[r]) \in Nat /\ Len(executions) \in Nat
         /\ DOMAIN executions = 1 .. Len(executions)
         /\ DOMAIN executions' = 1 .. Len(executions) + Len(batch[r])
         /\ \A i \in 1 .. Len(batch[r]) : executions'[Len(executions) + i] =
              [job |-> batch[r][i], status |-> "running", error |-> "none",
               startedAt |-> claimedAt[r]]
         /\ DOMAIN claims' = 1 .. Len(executions) + Len(batch[r])
         /\ \A i \in 1 .. Len(batch[r]) :
              /\ claims'[Len(executions) + i].job = batch[r][i]
              /\ claims'[Len(executions) + i].row = AdvancedRow(r, batch[r][i])
              /\ claims'[Len(executions) + i].slot = scan[r][batch[r][i]].nextRun
  <1> DEFINE n == Len(executions)
             k == Len(batch[r])
             exec(i) == [job |-> batch[r][i], status |-> "running", error |-> "none",
                         startedAt |-> claimedAt[r]]
             claim(i) == [job |-> batch[r][i], row |-> AdvancedRow(r, batch[r][i]),
                          slot |-> scan[r][batch[r][i]].nextRun]
             execs == [i \in 1 .. k |-> exec(i)]
             cls == [i \in 1 .. k |-> claim(i)]
  <1>1. /\ executions \in Seq(ExecRows) /\ claims \in Seq(JobClaims)
        /\ batch[r] \in Seq(Jobs) /\ n \in Nat /\ k \in Nat
        /\ DOMAIN executions = 1 .. n /\ DOMAIN batch[r] = 1 .. k /\ DOMAIN claims = 1 .. Len(claims)
        /\ Len(claims) = n
    BY LenProperties DEF TypeOK
  <1>2. \A i \in 1 .. k : batch[r][i] \in Jobs /\ batch[r][i] \in DOMAIN scan[r]
    BY <1>1 DEF ControlOK
  <1>3. \A j \in DOMAIN scan[r] : scan[r][j] \in JobRows /\ CronNext[scan[r][j].schedule][claimedAt[r]] \in Nat
    BY CronAssumption DEF TypeOK, JobRows
  <1>4. \A i \in 1 .. k : exec(i) \in ExecRows
    BY <1>2 DEF TypeOK, ExecRows, ExecStatuses, Reasons
  <1>5. \A i \in 1 .. k : AdvancedRow(r, batch[r][i]) \in JobRows
    BY <1>2, <1>3 DEF AdvancedRow, NextRun, JobRows, Timestamps
  <1>6. \A i \in 1 .. k : claim(i) \in JobClaims
    BY <1>2, <1>3, <1>5 DEF JobClaims, JobRows
  <1>7. executions' = executions \o execs /\ claims' = claims \o cls
    BY DEF CommitWrites
  <1>8. execs \in [1 .. k -> ExecRows] /\ cls \in [1 .. k -> JobClaims]
    BY <1>4, <1>6
  <1>9. \A i \in 1 .. k : /\ execs[i] = exec(i)
                           /\ cls[i].job = batch[r][i] /\ cls[i].row = AdvancedRow(r, batch[r][i])
                           /\ cls[i].slot = scan[r][batch[r][i]].nextRun
    OBVIOUS
  <1> DEFINE all == executions \o execs
             allClaims == claims \o cls
  <1> HIDE DEF execs, cls, exec, claim, n, k
  <1>10. /\ DOMAIN all = 1 .. Len(executions) + k
         /\ \A e \in 1 .. Len(executions) + k :
              e > Len(executions) => all[e] = execs[e - Len(executions)]
    <2>1. executions \in Seq(ExecRows) /\ execs \in [1 .. k -> ExecRows] /\ k \in Nat
      BY <1>1, <1>8
    <2>2. /\ DOMAIN (executions \o execs) = 1 .. Len(executions) + k
          /\ \A e \in 1 .. Len(executions) + k :
               e > Len(executions) => (executions \o execs)[e] = execs[e - Len(executions)]
      <3> HIDE DEF all
      <3>1. QED
        BY <2>1, Extension, SMTT(20)
    <2>3. QED
      BY <2>2
  <1>11. /\ DOMAIN allClaims = 1 .. Len(claims) + k
         /\ \A e \in 1 .. Len(claims) : allClaims[e] = claims[e]
         /\ \A e \in 1 .. Len(claims) + k :
              e > Len(claims) => allClaims[e] = cls[e - Len(claims)]
    <2>1. claims \in Seq(JobClaims) /\ cls \in [1 .. k -> JobClaims] /\ k \in Nat
      BY <1>1, <1>8
    <2>2. QED
      BY <2>1, Extension
  <1> HIDE DEF all, allClaims
  <1>12. \A i \in 1 .. k : executions'[n + i] = execs[i] /\ claims'[n + i] = cls[i]
    <2>1. TAKE i \in 1 .. k
    <2>2. n + i \in 1 .. n + k /\ n + i > n /\ (n + i) - n = i
      BY <1>1
    <2>3. QED
      BY <1>1, <1>7, <1>10, <1>11, <2>2 DEF all, allClaims, n
  <1>13. QED
    BY <1>1, <1>7, <1>9, <1>10, <1>11, <1>12 DEF exec, all, allClaims, n, k

LEMMA CommitTyped ==
  ASSUME TypeOK, ControlOK, NEW r \in Replicas, CommitClaim(r) \/ LoseCommit(r)
  PROVE  TypeOK' /\ ControlOK'
  <1> DEFINE n == Len(executions)
             m == Len(executions')
  <1>1. CommitWrites(r) /\ EndTransaction(r)
    BY DEF CommitClaim, LoseCommit
  <1>2. /\ jobs' \in [Jobs -> JobRows]
        /\ executions' \in Seq(ExecRows) /\ claims' \in Seq(JobClaims)
        /\ Len(claims') = m /\ m = n + Len(batch[r])
        /\ NewIds(r) \in Seq(1 .. m)
    BY <1>1, CommitWritesTyped
  <1>3. n \in Nat /\ m \in Nat /\ n <= m
    BY <1>2, LenProperties DEF TypeOK
  <1>4. \A s \in Replicas : pending[s] \in Seq(1 .. m) /\ jobChan[s] \in Seq(1 .. m)
    <2>1. TAKE s \in Replicas
    <2>2. pending[s] \in Seq(1 .. n) /\ jobChan[s] \in Seq(1 .. n) /\ 1 .. n \subseteq 1 .. m
      BY <1>3 DEF TypeOK
    <2>3. QED
      BY <2>2, SeqMonotonic
  <1>5. UNCHANGED <<now, procVars, jobChan, worker, dispatched>>
    BY DEF CommitClaim, LoseCommit
  <1>6. pending' \in [Replicas -> Seq(1 .. m)]
    <2>1. pending \in [Replicas -> Seq(1 .. n)]
      BY DEF TypeOK
    <2>2. pending' = pending \/ pending' = [pending EXCEPT ![r] = NewIds(r)]
      BY DEF CommitClaim, LoseCommit
    <2>3. QED
      BY <1>2, <1>4, <2>1, <2>2
  <1>7. loop' \in [Replicas -> LoopPCs]
    <2>1. loop \in [Replicas -> LoopPCs]
      BY DEF TypeOK
    <2>2. LoopWith(NewIds(r)) \in LoopPCs /\ "select" \in LoopPCs
      BY DEF LoopPCs, LoopWith
    <2>3. QED
      BY <2>1, <2>2 DEF CommitClaim, LoseCommit
  <1>8. worker' \in [Replicas -> [Workers ->
          [pc : WorkerPCs, exec : 0 .. m, status : ExecStatuses]]]
    BY <1>3, <1>5 DEF TypeOK
  <1>9. /\ DOMAIN scan' = Replicas
        /\ DOMAIN scan'[r] = {} /\ scan'[r] \in [{} -> JobRows]
        /\ \A s \in Replicas : s # r => scan'[s] = scan[s]
        /\ batch' \in [Replicas -> Seq(Jobs)] /\ batch'[r] = <<>>
        /\ \A s \in Replicas : s # r => batch'[s] = batch[s]
        /\ claimedAt' = claimedAt
    BY <1>1, EmptyScanType DEF TypeOK, EndTransaction
  <1>10. TypeOK'
    <2>1. \A s \in Replicas : DOMAIN scan'[s] \subseteq Jobs /\ scan'[s] \in [DOMAIN scan'[s] -> JobRows]
      BY <1>9 DEF TypeOK
    <2>2. jobChan' \in [Replicas -> Seq(1 .. m)]
      BY <1>4, <1>5 DEF TypeOK
    <2>3. dispatched' \subseteq 1 .. m
      BY <1>3, <1>5 DEF TypeOK
    <2> HIDE DEF m
    <2>4. QED
      BY <1>2, <1>5, <1>6, <1>7, <1>8, <1>9, <2>1, <2>2, <2>3 DEF TypeOK, procVars, m
  <1>11. ControlOK'
    <2>1. SUFFICES ASSUME NEW s \in Replicas
          PROVE  /\ loop'[s] \in {"dispatching", "marking"} <=> pending'[s] # <<>>
                 /\ loop'[s] \notin {"scanned", "advanced"} => DOMAIN scan'[s] = {}
                 /\ loop'[s] # "advanced" => batch'[s] = <<>>
                 /\ \A i \in DOMAIN batch'[s] : batch'[s][i] \in DOMAIN scan'[s]
                 /\ \A w \in Workers : Busy(s, w)' => worker'[s][w].exec \in DOMAIN executions'
      BY DEF ControlOK
    <2>2. \A w \in Workers : Busy(s, w)' => worker'[s][w].exec \in DOMAIN executions'
      <3>1. DOMAIN executions \subseteq DOMAIN executions'
        BY <1>1, CommitWritesTyped
      <3>2. QED
        BY <1>5, <3>1 DEF ControlOK, Busy
    <2>3. loop'[s] \in {"dispatching", "marking"} <=> pending'[s] # <<>>
      <3>1. CASE s = r
        <4>1. CASE CommitClaim(r)
          BY <3>1, <4>1 DEF CommitClaim, LoopWith, TypeOK
        <4>2. CASE LoseCommit(r)
          BY <3>1, <4>2 DEF LoseCommit, TypeOK, ControlOK
        <4>3. QED
          BY <4>1, <4>2
      <3>2. CASE s # r
        BY <3>2 DEF CommitClaim, LoseCommit, TypeOK, ControlOK
      <3>3. QED
        BY <3>1, <3>2
    <2>4. QED
      <3>1. CASE s = r
        BY <1>9, <2>2, <2>3, <3>1
      <3>2. CASE s # r
        <4>1. loop'[s] = loop[s]
          BY <3>2 DEF CommitClaim, LoseCommit, TypeOK
        <4>2. QED
          BY <1>9, <2>2, <2>3, <3>2, <4>1 DEF ControlOK
      <3>3. QED
        BY <3>1, <3>2
  <1>12. QED
    BY <1>10, <1>11

LEMMA RollbackClaimTyped ==
  ASSUME TypeOK, ControlOK, NEW r \in Replicas, RollbackClaim(r)
  PROVE  TypeOK' /\ ControlOK'
  <1>1. /\ DOMAIN scan' = Replicas
        /\ DOMAIN scan'[r] = {} /\ scan'[r] \in [{} -> JobRows]
        /\ \A s \in Replicas : s # r => scan'[s] = scan[s]
        /\ batch' \in [Replicas -> Seq(Jobs)] /\ batch'[r] = <<>>
        /\ \A s \in Replicas : s # r => batch'[s] = batch[s]
        /\ claimedAt' = claimedAt
    BY EmptyScanType DEF TypeOK, RollbackClaim, EndTransaction
  <1>2. TypeOK'
    BY <1>1 DEF TypeOK, RollbackClaim, dbVars, procVars, LoopPCs
  <1>3. ControlOK'
    <2>1. UNCHANGED <<pending, worker, executions>>
      BY DEF RollbackClaim, dbVars
    <2>2. loop' = [loop EXCEPT ![r] = "select"] /\ loop[r] \in {"scanned", "advanced"}
      BY DEF RollbackClaim
    <2>3. pending[r] = <<>>
      BY <2>2 DEF ControlOK
    <2>4. QED
      BY <1>1, <2>1, <2>2, <2>3 DEF TypeOK, ControlOK, Busy
  <1>4. QED
    BY <1>2, <1>3

-----------------------------------------------------------------------------
\* The head of a list of claims leaves it.
LEMMA HandedOver ==
  ASSUME TypeOK, ControlOK, NEW r \in Replicas,
         loop[r] \in {"dispatching", "marking"}
  PROVE  /\ pending[r] # <<>> /\ pending[r] \in Seq(1 .. Len(executions))
         /\ Head(pending[r]) \in 1 .. Len(executions)
         /\ Head(pending[r]) \in DOMAIN executions
         /\ Rest(r) \in Seq(1 .. Len(executions))
         /\ LoopWith(Rest(r)) \in {"select", "dispatching"}
         /\ LoopWith(Rest(r)) = "dispatching" <=> Rest(r) # <<>>
  <1>1. pending[r] # <<>> /\ pending[r] \in Seq(1 .. Len(executions))
    BY DEF TypeOK, ControlOK
  <1>2. Head(pending[r]) \in 1 .. Len(executions) /\ Tail(pending[r]) \in Seq(1 .. Len(executions))
    BY <1>1, HeadTailProperties
  <1>3. DOMAIN executions = 1 .. Len(executions)
    BY LenProperties DEF TypeOK
  <1>4. QED
    BY <1>1, <1>2, <1>3 DEF Rest, LoopWith

LEMMA HandOverTyped ==
  ASSUME TypeOK, ControlOK, NEW r \in Replicas,
         loop[r] \in {"dispatching", "marking"},
         pending' = [pending EXCEPT ![r] = Rest(r)],
         loop' = [loop EXCEPT ![r] = LoopWith(Rest(r))],
         executions' \in Seq(ExecRows), Len(executions') = Len(executions),
         jobChan' \in [Replicas -> Seq(1 .. Len(executions))],
         \A s \in Replicas : Len(jobChan'[s]) <= ChanCap,
         UNCHANGED <<now, jobs, claims, procVars, claimVars, worker, dispatched>>
  PROVE  TypeOK' /\ ControlOK'
  <1>1. /\ Rest(r) \in Seq(1 .. Len(executions))
        /\ LoopWith(Rest(r)) \in {"select", "dispatching"}
        /\ LoopWith(Rest(r)) = "dispatching" <=> Rest(r) # <<>>
    BY HandedOver
  <1>2. DOMAIN executions' = DOMAIN executions
    BY SameLengthTyped
  <1>3. TypeOK'
    <2>1. pending' \in [Replicas -> Seq(1 .. Len(executions'))]
      BY <1>1 DEF TypeOK
    <2>2. loop' \in [Replicas -> LoopPCs]
      BY <1>1 DEF TypeOK, LoopPCs
    <2>3. QED
      BY <2>1, <2>2 DEF TypeOK, procVars, claimVars
  <1>4. ControlOK'
    <2>1. loop'[r] = LoopWith(Rest(r)) /\ pending'[r] = Rest(r)
      BY DEF TypeOK
    <2>2. \A s \in Replicas : s # r => loop'[s] = loop[s] /\ pending'[s] = pending[s]
      BY DEF TypeOK
    <2>3. UNCHANGED <<scan, batch, worker>>
      BY DEF claimVars
    <2>4. DOMAIN scan[r] = {} /\ batch[r] = <<>>
      BY DEF ControlOK
    <2>5. QED
      BY <1>1, <1>2, <2>1, <2>2, <2>3, <2>4 DEF ControlOK, Busy
  <1>5. QED
    BY <1>3, <1>4

LEMMA SendTyped ==
  ASSUME TypeOK, ControlOK, NEW r \in Replicas, Send(r)
  PROVE  TypeOK' /\ ControlOK'
  <1> DEFINE q == Append(jobChan[r], Head(pending[r]))
  <1>1. loop[r] = "dispatching" /\ Len(jobChan[r]) < ChanCap
    BY DEF Send, HasRoom
  <1>2. jobChan[r] \in Seq(1 .. Len(executions)) /\ Head(pending[r]) \in 1 .. Len(executions)
    BY <1>1, HandedOver DEF TypeOK
  <1>3. q \in Seq(1 .. Len(executions)) /\ Len(q) = Len(jobChan[r]) + 1
    BY <1>2, AppendProperties
  <1>4. Len(q) <= ChanCap
    BY <1>1, <1>2, <1>3, ChanCapNat, LenProperties
  <1> HIDE DEF q
  <1>5. jobChan' = [jobChan EXCEPT ![r] = q]
    BY DEF Send, q
  <1>6. /\ jobChan' \in [Replicas -> Seq(1 .. Len(executions))]
        /\ \A s \in Replicas : Len(jobChan'[s]) <= ChanCap
    BY <1>3, <1>4, <1>5 DEF TypeOK
  <1>7. QED
    <2>1. UNCHANGED <<now, jobs, claims, procVars, claimVars, worker, dispatched, executions>>
      BY DEF Send, dbVars
    <2>2. executions' \in Seq(ExecRows) /\ Len(executions') = Len(executions)
      BY <2>1 DEF TypeOK
    <2>3. /\ pending' = [pending EXCEPT ![r] = Rest(r)]
          /\ loop' = [loop EXCEPT ![r] = LoopWith(Rest(r))]
      BY DEF Send
    <2>4. QED
      BY <1>1, <1>6, <2>1, <2>2, <2>3, HandOverTyped

LEMMA MarkTyped ==
  ASSUME TypeOK, ControlOK, NEW r \in Replicas, AbandonOnShutdown(r) \/ MarkSaturated(r)
  PROVE  TypeOK' /\ ControlOK'
  <1>1. /\ loop[r] \in {"dispatching", "marking"}
        /\ pending' = [pending EXCEPT ![r] = Rest(r)]
        /\ loop' = [loop EXCEPT ![r] = LoopWith(Rest(r))]
        /\ UNCHANGED <<now, jobs, claims, procVars, claimVars, jobChan, worker, dispatched>>
    BY DEF AbandonOnShutdown, MarkSaturated
  <1>2. Head(pending[r]) \in DOMAIN executions
    BY <1>1, HandedOver
  <1>3. \/ UNCHANGED executions
        \/ SaveOutcome(Head(pending[r]), "error", "shutdown", "mark")
        \/ SaveOutcome(Head(pending[r]), "error", "saturated", "mark")
    BY DEF AbandonOnShutdown, MarkSaturated, SaveAbandoned
  <1>4. "error" \in ExecStatuses /\ "shutdown" \in Reasons /\ "saturated" \in Reasons
    BY DEF ExecStatuses, Reasons
  <1>5. executions' \in Seq(ExecRows) /\ Len(executions') = Len(executions)
    <2>1. CASE UNCHANGED executions
      BY <2>1 DEF TypeOK
    <2>2. CASE SaveOutcome(Head(pending[r]), "error", "shutdown", "mark")
      BY <1>2, <1>4, <2>2, SaveOutcomeTyped
    <2>3. CASE SaveOutcome(Head(pending[r]), "error", "saturated", "mark")
      BY <1>2, <1>4, <2>3, SaveOutcomeTyped
    <2>4. QED
      BY <1>3, <2>1, <2>2, <2>3
  <1>6. QED
    <2>1. /\ jobChan' \in [Replicas -> Seq(1 .. Len(executions))]
          /\ \A s \in Replicas : Len(jobChan'[s]) <= ChanCap
      BY <1>1 DEF TypeOK
    <2>2. QED
      BY <1>1, <1>5, <2>1, HandOverTyped

LEMMA SaturateTyped ==
  ASSUME TypeOK, ControlOK, NEW r \in Replicas, Saturate(r)
  PROVE  TypeOK' /\ ControlOK'
  <1>1. UNCHANGED <<now, dbVars, procVars, claimVars, pending, jobChan, worker, dispatched>>
    BY DEF Saturate
  <1>2. loop[r] = "dispatching" /\ loop' = [loop EXCEPT ![r] = "marking"]
    BY DEF Saturate
  <1>3. TypeOK'
    BY <1>1, <1>2 DEF TypeOK, dbVars, procVars, claimVars, LoopPCs
  <1>4. ControlOK'
    BY <1>1, <1>2 DEF TypeOK, ControlOK, dbVars, claimVars, Busy
  <1>5. QED
    BY <1>3, <1>4

-----------------------------------------------------------------------------
\* A step of one worker leaves the others alone.
LEMMA SetWorkerFrame ==
  ASSUME TypeOK, NEW r \in Replicas, NEW w \in Workers, NEW rec, SetWorker(r, w, rec)
  PROVE  /\ worker'[r][w] = rec
         /\ \A v \in Workers : v # w => worker'[r][v] = worker[r][v]
         /\ \A s \in Replicas : s # r => worker'[s] = worker[s]
  <1>1. /\ DOMAIN worker = Replicas
        /\ \A s \in Replicas : DOMAIN worker[s] = Workers
    BY DEF TypeOK
  <1>2. QED
    BY <1>1 DEF SetWorker

LEMMA WorkFrame ==
  ASSUME TypeOK, NEW r \in Replicas, NEW w \in Workers, Work(r, w)
  PROVE  /\ \A v \in Workers : v # w => worker'[r][v] = worker[r][v]
         /\ \A s \in Replicas : s # r => worker'[s] = worker[s] /\ jobChan'[s] = jobChan[s]
         /\ UNCHANGED pending
  <1>1. UNCHANGED pending
    BY DEF Work, Receive, FinishExecution, WriteBackJob, Notify, WorkerExits
  <1>2. \E rec : SetWorker(r, w, rec)
    BY DEF Work, Receive, FinishExecution, WriteBackJob, Notify, WorkerExits
  <1>3. \A s \in Replicas : s # r => jobChan'[s] = jobChan[s]
    <2>1. DOMAIN jobChan = Replicas
      BY DEF TypeOK
    <2>2. QED
      BY <2>1 DEF Work, Receive, FinishExecution, WriteBackJob, Notify, WorkerExits
  <1>4. QED
    BY <1>1, <1>2, <1>3, SetWorkerFrame

WorkerRecs == [pc : WorkerPCs, exec : 0 .. Len(executions), status : ExecStatuses]

\* A worker moves on; the loop of its replica does not.
LEMMA WorkerMoveTyped ==
  ASSUME TypeOK, ControlOK, NEW r \in Replicas, NEW w \in Workers,
         NEW rec \in WorkerRecs, SetWorker(r, w, rec),
         rec.pc \in {"executing", "cancelled", "writing", "notifying"}
           => rec.exec \in DOMAIN executions,
         jobs' \in [Jobs -> JobRows],
         executions' \in Seq(ExecRows), Len(executions') = Len(executions),
         jobChan' \in [Replicas -> Seq(1 .. Len(executions))],
         \A s \in Replicas : Len(jobChan'[s]) <= ChanCap,
         dispatched' \subseteq 1 .. Len(executions),
         UNCHANGED <<now, claims, procVars, loop, claimVars, pending>>
  PROVE  TypeOK' /\ ControlOK'
  <1>1. DOMAIN executions' = DOMAIN executions
    BY SameLengthTyped
  <1>2. /\ worker' \in [Replicas -> [Workers -> WorkerRecs]]
        /\ worker'[r][w] = rec
        /\ \A s \in Replicas, v \in Workers :
             s # r \/ v # w => worker'[s][v] = worker[s][v]
    BY DEF TypeOK, SetWorker, WorkerRecs
  <1>3. TypeOK'
    <2>1. /\ worker' \in [Replicas -> [Workers ->
               [pc : WorkerPCs, exec : 0 .. Len(executions'), status : ExecStatuses]]]
          /\ pending' \in [Replicas -> Seq(1 .. Len(executions'))]
          /\ jobChan' \in [Replicas -> Seq(1 .. Len(executions'))]
          /\ dispatched' \subseteq 1 .. Len(executions') /\ Len(claims') = Len(executions')
      BY <1>2 DEF TypeOK, WorkerRecs
    <2>2. /\ UNCHANGED <<now, claims, phase, ctxDone, execDone, starts, loop>>
          /\ UNCHANGED <<scan, claimedAt, batch>>
      BY DEF procVars, claimVars
    <2>3. QED
      BY <2>1, <2>2 DEF TypeOK
  <1>4. ControlOK'
    <2>1. \A s \in Replicas, v \in Workers :
            Busy(s, v)' => worker'[s][v].exec \in DOMAIN executions'
      <3>1. TAKE s \in Replicas, v \in Workers
      <3>2. CASE s = r /\ v = w
        BY <1>1, <1>2, <3>2 DEF Busy
      <3>3. CASE s # r \/ v # w
        <4>1. worker'[s][v] = worker[s][v]
          BY <1>2, <3>3
        <4>2. Busy(s, v)' => Busy(s, v)
          BY <4>1 DEF Busy
        <4>3. Busy(s, v) => worker[s][v].exec \in DOMAIN executions
          BY DEF ControlOK
        <4>4. QED
          BY <1>1, <4>1, <4>2, <4>3
      <3>4. QED
        BY <3>2, <3>3
    <2>2. QED
      BY <2>1 DEF ControlOK, claimVars
  <1>5. QED
    BY <1>3, <1>4

LEMMA BusyHasClaim ==
  ASSUME TypeOK, ControlOK, NEW r \in Replicas, NEW w \in Workers, Busy(r, w)
  PROVE  /\ worker[r][w].exec \in DOMAIN executions
         /\ worker[r][w].exec \in 1 .. Len(executions)
         /\ claims[worker[r][w].exec] \in JobClaims
  <1>1. DOMAIN executions = 1 .. Len(executions) /\ DOMAIN claims = 1 .. Len(executions)
    BY LenProperties DEF TypeOK
  <1>2. worker[r][w].exec \in 1 .. Len(executions)
    BY <1>1 DEF ControlOK
  <1>3. claims[worker[r][w].exec] \in JobClaims
    BY <1>2, ElementOfSeq DEF TypeOK
  <1>4. QED
    BY <1>1, <1>2, <1>3

LEMMA IdleType == IdleWorker \in WorkerRecs /\ [IdleWorker EXCEPT !.pc = "exited"] \in WorkerRecs
  BY DEF IdleWorker, WorkerRecs, WorkerPCs, ExecStatuses

LEMMA WorkTyped ==
  ASSUME TypeOK, ControlOK, NEW r \in Replicas, NEW w \in Workers, Work(r, w)
  PROVE  TypeOK' /\ ControlOK'
  <1> DEFINE n == Len(executions)
  <1>0. /\ n \in Nat /\ DOMAIN executions = 1 .. n
        /\ \A s \in Replicas : jobChan[s] \in Seq(1 .. n)
        /\ \A s \in Replicas : Len(jobChan[s]) <= ChanCap
        /\ worker[r][w] \in WorkerRecs
    BY LenProperties DEF TypeOK, WorkerRecs
  <1>1. CASE Receive(r, w)
    <2> DEFINE rec == [pc |-> IF execDone[r] THEN "cancelled" ELSE "executing",
                       exec |-> Head(jobChan[r]), status |-> "running"]
    <2>1. /\ Head(jobChan[r]) \in 1 .. n /\ Tail(jobChan[r]) \in Seq(1 .. n)
          /\ Len(Tail(jobChan[r])) = Len(jobChan[r]) - 1
      BY <1>0, <1>1, HeadTailProperties DEF Receive
    <2>2. rec \in WorkerRecs /\ rec.exec \in DOMAIN executions
      BY <1>0, <2>1 DEF WorkerRecs, WorkerPCs, ExecStatuses
    <2>3. Len(Tail(jobChan[r])) <= ChanCap
      BY <1>0, <2>1, ChanCapNat, LenProperties
    <2>4. /\ jobChan' \in [Replicas -> Seq(1 .. n)]
          /\ \A s \in Replicas : Len(jobChan'[s]) <= ChanCap
      BY <1>0, <1>1, <2>1, <2>3 DEF Receive, TypeOK
    <2>5. SetWorker(r, w, rec)
      BY <1>1 DEF Receive
    <2>6. /\ jobs' \in [Jobs -> JobRows] /\ executions' \in Seq(ExecRows) /\ Len(executions') = n
          /\ dispatched' \subseteq 1 .. n
          /\ UNCHANGED <<now, claims, procVars, loop, claimVars, pending>>
      BY <1>1 DEF Receive, TypeOK, dbVars
    <2> HIDE DEF rec
    <2>7. QED
      BY <2>2, <2>4, <2>5, <2>6, WorkerMoveTyped
  <1>2. CASE FinishExecution(r, w)
    <2> DEFINE e == worker[r][w].exec
    <2>1. Busy(r, w)
      BY <1>2 DEF FinishExecution, Busy
    <2>2. e \in DOMAIN executions /\ e \in 1 .. n
      BY <2>1, BusyHasClaim
    <2>3. PICK status \in Outcomes(claims[e].job, worker[r][w].pc) :
            /\ SaveOutcome(e, status, "executor", "save")
            /\ SetWorker(r, w, [pc |-> "writing", exec |-> e, status |-> status])
      BY <1>2 DEF FinishExecution
    <2>4. status \in ExecStatuses /\ "executor" \in Reasons
      BY <2>3, OutcomesAreTerminal DEF Terminal, ExecStatuses, Reasons
    <2>5. executions' \in Seq(ExecRows) /\ Len(executions') = n
      BY <2>2, <2>3, <2>4, SaveOutcomeTyped
    <2>6. [pc |-> "writing", exec |-> e, status |-> status] \in WorkerRecs
      BY <1>0, <2>2, <2>4 DEF WorkerRecs, WorkerPCs
    <2>7. /\ jobs' \in [Jobs -> JobRows] /\ dispatched' \subseteq 1 .. n
          /\ jobChan' \in [Replicas -> Seq(1 .. n)]
          /\ \A s \in Replicas : Len(jobChan'[s]) <= ChanCap
          /\ UNCHANGED <<now, claims, procVars, loop, claimVars, pending>>
      BY <1>2 DEF FinishExecution, TypeOK
    <2> DEFINE rec == [pc |-> "writing", exec |-> e, status |-> status]
    <2>8. SetWorker(r, w, rec) /\ rec \in WorkerRecs /\ rec.exec \in DOMAIN executions
      BY <2>2, <2>3, <2>6
    <2> HIDE DEF rec
    <2>9. QED
      BY <2>5, <2>7, <2>8, WorkerMoveTyped
  <1>3. CASE WriteBackJob(r, w)
    <2> DEFINE c == claims[worker[r][w].exec]
               rec == [worker[r][w] EXCEPT !.pc = "notifying"]
    <2>1. Busy(r, w)
      BY <1>3 DEF WriteBackJob, Busy
    <2>2. worker[r][w].exec \in DOMAIN executions /\ c \in JobClaims
      BY <2>1, BusyHasClaim
    <2>3. jobs' \in [Jobs -> JobRows]
      <3>1. c.row \in JobRows /\ c.job \in Jobs
        BY <2>2 DEF JobClaims
      <3>2. QED
        BY <1>3, <3>1 DEF WriteBackJob, TypeOK
    <2>4. rec \in WorkerRecs /\ rec.exec \in DOMAIN executions /\ SetWorker(r, w, rec)
      BY <1>0, <1>3, <2>2 DEF WriteBackJob, WorkerRecs, WorkerPCs
    <2>5. /\ executions' \in Seq(ExecRows) /\ Len(executions') = n /\ dispatched' \subseteq 1 .. n
          /\ jobChan' \in [Replicas -> Seq(1 .. n)]
          /\ \A s \in Replicas : Len(jobChan'[s]) <= ChanCap
          /\ UNCHANGED <<now, claims, procVars, loop, claimVars, pending>>
      BY <1>3 DEF WriteBackJob, TypeOK
    <2> HIDE DEF rec
    <2>6. QED
      BY <2>3, <2>4, <2>5, WorkerMoveTyped
  <1>4. CASE Notify(r, w)
    <2>1. Busy(r, w)
      BY <1>4 DEF Notify, Busy
    <2>2. worker[r][w].exec \in 1 .. n
      BY <2>1, BusyHasClaim
    <2>3. dispatched' \subseteq 1 .. n
      BY <1>4, <2>2 DEF Notify, TypeOK
    <2>4. /\ jobs' \in [Jobs -> JobRows] /\ executions' \in Seq(ExecRows) /\ Len(executions') = n
          /\ jobChan' \in [Replicas -> Seq(1 .. n)]
          /\ \A s \in Replicas : Len(jobChan'[s]) <= ChanCap
          /\ UNCHANGED <<now, claims, procVars, loop, claimVars, pending>>
      BY <1>4 DEF Notify, TypeOK, dbVars
    <2>5. SetWorker(r, w, IdleWorker) /\ IdleWorker.pc = "idle"
      BY <1>4 DEF Notify, IdleWorker
    <2>6. QED
      BY <2>3, <2>4, <2>5, IdleType, WorkerMoveTyped
  <1>5. CASE WorkerExits(r, w)
    <2> DEFINE rec == [IdleWorker EXCEPT !.pc = "exited"]
    <2>1. SetWorker(r, w, rec) /\ rec.pc = "exited" /\ rec \in WorkerRecs
      BY <1>5, IdleType DEF WorkerExits, IdleWorker
    <2>2. /\ jobs' \in [Jobs -> JobRows] /\ executions' \in Seq(ExecRows) /\ Len(executions') = n
          /\ dispatched' \subseteq 1 .. n
          /\ jobChan' \in [Replicas -> Seq(1 .. n)]
          /\ \A s \in Replicas : Len(jobChan'[s]) <= ChanCap
          /\ UNCHANGED <<now, claims, procVars, loop, claimVars, pending>>
      BY <1>5 DEF WorkerExits, TypeOK, dbVars
    <2> HIDE DEF rec
    <2>3. QED
      BY <2>1, <2>2, WorkerMoveTyped
  <1>6. QED
    BY <1>1, <1>2, <1>3, <1>4, <1>5 DEF Work

LEMMA StepTyped ==
  ASSUME TypeOK, ControlOK, [Next]_vars
  PROVE  TypeOK' /\ ControlOK'
  <1>1. CASE TimePasses
    BY <1>1, TimePassesTyped
  <1>2. CASE \E r \in Replicas : Start(r) \/ Crash(r) \/ Terminate(r) \/ GraceExpires(r) \/ Shutdown(r)
    BY <1>2, ProcessTyped DEF Shutdown
  <1>3. CASE \E r \in Replicas : RecoverStale(r)
    BY <1>3, RecoverStaleTyped
  <1>4. CASE \E r \in Replicas : Tick(r)
    <2>1. PICK r \in Replicas : Tick(r)
      BY <1>4
    <2>2. CASE ScanDue(r)
      BY <2>2, ScanDueTyped
    <2>3. CASE AdvanceNextRun(r)
      BY <2>3, AdvanceNextRunTyped
    <2>4. CASE CommitClaim(r) \/ LoseCommit(r)
      BY <2>4, CommitTyped
    <2>5. CASE RollbackClaim(r)
      BY <2>5, RollbackClaimTyped
    <2>6. CASE Send(r)
      BY <2>6, SendTyped
    <2>7. CASE AbandonOnShutdown(r) \/ MarkSaturated(r)
      BY <2>7, MarkTyped
    <2>8. CASE Saturate(r)
      BY <2>8, SaturateTyped
    <2>9. QED
      BY <2>1, <2>2, <2>3, <2>4, <2>5, <2>6, <2>7, <2>8 DEF Tick
  <1>5. CASE \E r \in Replicas : \E w \in Workers : Work(r, w)
    BY <1>5, WorkTyped
  <1>6. CASE UNCHANGED vars
    BY <1>6 DEF vars, dbVars, procVars, claimVars, TypeOK, ControlOK, Busy
  <1>7. QED
    BY <1>1, <1>2, <1>3, <1>4, <1>5, <1>6 DEF Next

\* Every state of the scheduler is well typed: in particular a channel never
\* holds more claims than its capacity, and every id in a list, in the channel
\* or with a worker is the id of an inserted row.
THEOREM TypeCorrect == Spec => []TypeOK
  <1>1. Init => TypeOK /\ ControlOK
    BY InitTyped
  <1>2. (TypeOK /\ ControlOK) /\ [Next]_vars => (TypeOK /\ ControlOK)'
    BY StepTyped
  <1>3. QED
    BY <1>1, <1>2, PTL DEF Spec

-----------------------------------------------------------------------------
(* The claim transaction.                                                   *)

\* Releasing the locks of r and writing only rows it had locked disturbs no
\* other transaction.
LEMMA ReleaseKeepsReads ==
  ASSUME TypeOK, ClaimReadsStayCurrent, NEW r \in Replicas,
         DOMAIN scan'[r] = {},
         \A s \in Replicas : s # r => scan'[s] = scan[s],
         \A j \in Jobs : j \notin DOMAIN scan[r] => jobs'[j] = jobs[j]
  PROVE  ClaimReadsStayCurrent'
  <1>1. \A s \in Replicas : \A j \in DOMAIN scan'[s] : jobs'[j] = scan'[s][j]
    <2>1. TAKE s \in Replicas
    <2>2. CASE s = r
      BY <2>2
    <2>3. CASE s # r
      BY <2>3 DEF ClaimReadsStayCurrent, TypeOK
    <2>4. QED
      BY <2>2, <2>3
  <1>2. \A s, u \in Replicas : s # u => DOMAIN scan'[s] \cap DOMAIN scan'[u] = {}
    BY DEF ClaimReadsStayCurrent
  <1>3. QED
    BY <1>1, <1>2 DEF ClaimReadsStayCurrent

LEMMA StepKeepsReads ==
  ASSUME TypeOK, ControlOK, ClaimReadsStayCurrent, [Next]_vars
  PROVE  ClaimReadsStayCurrent'
  <1>1. CASE UNCHANGED <<jobs, scan>>
    BY <1>1 DEF ClaimReadsStayCurrent
  <1>2. ASSUME NEW r \in Replicas, Start(r) \/ Crash(r) \/ RollbackClaim(r)
        PROVE  ClaimReadsStayCurrent'
    <2>1. scan' = [scan EXCEPT ![r] = EmptyScan] /\ UNCHANGED jobs
      BY <1>2 DEF Start, Crash, RollbackClaim, ResetProcess, EndTransaction, dbVars
    <2>2. DOMAIN scan'[r] = {} /\ \A s \in Replicas : s # r => scan'[s] = scan[s]
      BY <2>1, EmptyScanType DEF TypeOK
    <2>3. QED
      BY <2>1, <2>2, ReleaseKeepsReads
  <1>3. ASSUME NEW r \in Replicas, ScanDue(r)
        PROVE  ClaimReadsStayCurrent'
    <2>1. PICK S \in EarliestDue : scan' = [scan EXCEPT ![r] = [j \in S |-> jobs[j]]]
      BY <1>3 DEF ScanDue
    <2>2. \A j \in S : \A s \in Replicas : j \notin DOMAIN scan[s]
      BY <2>1 DEF EarliestDue, Claimable, LockedJobs, LockedBy
    <2>3. UNCHANGED jobs
      BY <1>3 DEF ScanDue, dbVars
    <2>4. /\ scan'[r] = [j \in S |-> jobs[j]] /\ DOMAIN scan'[r] = S
          /\ \A s \in Replicas : s # r => scan'[s] = scan[s]
      BY <2>1 DEF TypeOK
    <2>5. QED
      BY <2>2, <2>3, <2>4 DEF ClaimReadsStayCurrent
  <1>4. ASSUME NEW r \in Replicas, CommitClaim(r) \/ LoseCommit(r)
        PROVE  ClaimReadsStayCurrent'
    <2>1. CommitWrites(r) /\ EndTransaction(r)
      BY <1>4 DEF CommitClaim, LoseCommit
    <2>2. DOMAIN scan'[r] = {} /\ \A s \in Replicas : s # r => scan'[s] = scan[s]
      BY <2>1, EmptyScanType DEF TypeOK, EndTransaction
    <2>3. \A j \in Jobs : j \notin DOMAIN scan[r] => jobs'[j] = jobs[j]
      BY <2>1 DEF CommitWrites, Claimed, ControlOK
    <2>4. QED
      BY <2>2, <2>3, ReleaseKeepsReads
  <1>5. ASSUME NEW r \in Replicas, NEW w \in Workers, WriteBackJob(r, w)
        PROVE  ClaimReadsStayCurrent'
    <2> DEFINE j == claims[worker[r][w].exec].job
    <2>1. \A s \in Replicas : j \notin DOMAIN scan[s]
      BY <1>5 DEF WriteBackJob, LockedJobs, LockedBy
    <2>2. UNCHANGED scan /\ \A k \in Jobs : k # j => jobs'[k] = jobs[k]
      BY <1>5 DEF WriteBackJob, claimVars, TypeOK
    <2> HIDE DEF j
    <2>3. QED
      BY <2>1, <2>2 DEF ClaimReadsStayCurrent, TypeOK
  <1>6. QED
    <2>1. CASE UNCHANGED vars
      BY <1>1, <2>1 DEF vars, dbVars, claimVars
    <2>2. CASE TimePasses
      BY <1>1, <2>2 DEF TimePasses, dbVars, claimVars
    <2>3. ASSUME NEW r \in Replicas,
                 Terminate(r) \/ RecoverStale(r) \/ GraceExpires(r) \/ Shutdown(r)
          PROVE  ClaimReadsStayCurrent'
      BY <1>1, <2>3 DEF Terminate, RecoverStale, GraceExpires, Shutdown, ExitLoop, Drained,
                        Return, dbVars, claimVars
    <2>4. ASSUME NEW r \in Replicas, Tick(r) PROVE ClaimReadsStayCurrent'
      <3>1. CASE AdvanceNextRun(r) \/ Send(r) \/ AbandonOnShutdown(r) \/ Saturate(r) \/ MarkSaturated(r)
        BY <1>1, <3>1 DEF AdvanceNextRun, Send, AbandonOnShutdown, Saturate, MarkSaturated,
                          dbVars, claimVars
      <3>2. QED
        BY <1>2, <1>3, <1>4, <2>4, <3>1 DEF Tick
    <2>5. ASSUME NEW r \in Replicas, NEW w \in Workers, Work(r, w) PROVE ClaimReadsStayCurrent'
      <3>1. CASE Receive(r, w) \/ FinishExecution(r, w) \/ Notify(r, w) \/ WorkerExits(r, w)
        BY <1>1, <3>1 DEF Receive, FinishExecution, Notify, WorkerExits, dbVars, claimVars
      <3>2. QED
        BY <1>5, <2>5, <3>1 DEF Work
    <2>6. QED
      BY <1>2, <2>1, <2>2, <2>3, <2>4, <2>5 DEF Next

\* Between the SELECT ... FOR UPDATE SKIP LOCKED and the end of its transaction
\* the rows a replica has read are the rows of the table, and no two replicas
\* have read the same row.
THEOREM ClaimIsolation == Spec => []ClaimReadsStayCurrent
  <1>1. Init => TypeOK /\ ControlOK /\ ClaimReadsStayCurrent
    <2>1. Init => ClaimReadsStayCurrent
      BY EmptyScanType DEF Init, Fresh, ClaimReadsStayCurrent
    <2>2. QED
      BY <2>1, InitTyped
  <1>2. (TypeOK /\ ControlOK /\ ClaimReadsStayCurrent) /\ [Next]_vars
          => (TypeOK /\ ControlOK /\ ClaimReadsStayCurrent)'
    BY StepTyped, StepKeepsReads
  <1>3. QED
    BY <1>1, <1>2, PTL DEF Spec

-----------------------------------------------------------------------------
(* One holder for each execution.                                           *)

\* Elements of a sequence without its head, and with one more.
LEMMA TailElements ==
  ASSUME NEW S, NEW q \in Seq(S), q # <<>>
  PROVE  /\ DOMAIN Tail(q) = 1 .. Len(q) - 1
         /\ DOMAIN q = 1 .. Len(q) /\ Len(q) \in Nat /\ Len(q) >= 1
         /\ Head(q) = q[1]
         /\ \A i \in DOMAIN Tail(q) : i + 1 \in DOMAIN q /\ Tail(q)[i] = q[i + 1]
  <1>1. /\ Tail(q) \in Seq(S) /\ Len(Tail(q)) = Len(q) - 1
        /\ \A i \in 1 .. Len(Tail(q)) : Tail(q)[i] = q[i + 1]
    BY HeadTailProperties
  <1>2. DOMAIN q = 1 .. Len(q) /\ Len(q) \in Nat /\ Len(q) >= 1
    BY LenProperties, EmptySeq
  <1>3. DOMAIN Tail(q) = 1 .. Len(q) - 1
    BY <1>1, LenProperties
  <1>4. Head(q) = q[1]
    BY <1>2
  <1>5. QED
    BY <1>1, <1>2, <1>3, <1>4

LEMMA AppendElements ==
  ASSUME NEW S, NEW q \in Seq(S), NEW x \in S
  PROVE  /\ DOMAIN q = 1 .. Len(q) /\ Len(q) \in Nat
         /\ DOMAIN Append(q, x) = 1 .. Len(q) + 1
         /\ \A i \in 1 .. Len(q) : Append(q, x)[i] = q[i]
         /\ Append(q, x)[Len(q) + 1] = x
  <1>1. /\ Append(q, x) \in Seq(S) /\ Len(Append(q, x)) = Len(q) + 1
        /\ \A i \in 1 .. Len(q) : Append(q, x)[i] = q[i]
        /\ Append(q, x)[Len(q) + 1] = x
    BY AppendProperties
  <1>2. DOMAIN Append(q, x) = 1 .. Len(q) + 1
    BY <1>1, LenProperties
  <1>3. QED
    BY <1>1, <1>2, LenProperties

\* Replicas that hold no more than before stay apart.
LEMMA HeldShrinks ==
  ASSUME HeldApart, \A s \in Replicas : Held(s)' \subseteq Held(s)
  PROVE  HeldApart'
  BY DEF HeldApart

\* What a replica holds depends on its own lists and workers.
LEMMA HeldSame ==
  ASSUME NEW s \in Replicas, pending'[s] = pending[s], jobChan'[s] = jobChan[s],
         \A w \in Workers : /\ Busy(s, w)' => Busy(s, w)
                            /\ Busy(s, w)' => worker'[s][w].exec = worker[s][w].exec
  PROVE  Held(s)' \subseteq Held(s) /\ (Ordered(s) => Ordered(s)')
  BY DEF Held, Elements, BusyWith, Ordered

\* The head of the pending claims is given up.
LEMMA DropHead ==
  ASSUME TypeOK, NEW r \in Replicas, Ordered(r), pending[r] # <<>>,
         pending' = [pending EXCEPT ![r] = Tail(pending[r])], UNCHANGED <<jobChan, worker>>
  PROVE  Ordered(r)' /\ Held(r)' \subseteq Held(r)
  <1>1. pending[r] \in Seq(1 .. Len(executions)) /\ pending'[r] = Tail(pending[r])
    BY DEF TypeOK
  <1>2. /\ DOMAIN pending'[r] = 1 .. Len(pending[r]) - 1
        /\ DOMAIN pending[r] = 1 .. Len(pending[r]) /\ Len(pending[r]) \in Nat
        /\ \A i \in DOMAIN pending'[r] :
             i + 1 \in DOMAIN pending[r] /\ pending'[r][i] = pending[r][i + 1]
    <2> DEFINE q == pending[r]
               S == 1 .. Len(executions)
    <2>1. q \in Seq(S) /\ q # <<>> /\ pending'[r] = Tail(q)
      BY <1>1
    <2> HIDE DEF S
    <2>2. SUFFICES /\ DOMAIN Tail(q) = 1 .. Len(q) - 1
                   /\ DOMAIN q = 1 .. Len(q) /\ Len(q) \in Nat
                   /\ \A i \in DOMAIN Tail(q) : i + 1 \in DOMAIN q /\ Tail(q)[i] = q[i + 1]
      BY <2>1
    <2> HIDE DEF q
    <2>3. QED
      BY <2>1, TailElements
  <1>3. Ordered(r)'
    <2>1. \A i \in DOMAIN pending'[r] : \A k \in DOMAIN pending'[r] :
            i < k => pending'[r][i] < pending'[r][k]
      BY <1>2 DEF Ordered
    <2>2. /\ UNCHANGED <<jobChan, worker>>
          /\ \A v \in Workers : Busy(r, v)' <=> Busy(r, v)
      BY DEF Busy
    <2>3. /\ \A i \in DOMAIN jobChan[r], k \in DOMAIN pending'[r] : jobChan[r][i] < pending'[r][k]
          /\ \A v \in Workers : Busy(r, v) =>
               \A i \in DOMAIN pending'[r] : worker[r][v].exec < pending'[r][i]
      BY <1>2 DEF Ordered
    <2>4. QED
      BY <2>1, <2>2, <2>3 DEF Ordered
  <1>4. Held(r)' \subseteq Held(r)
    BY <1>2 DEF Held, Elements, BusyWith, Busy
  <1>5. QED
    BY <1>3, <1>4

LEMMA SendOrdered ==
  ASSUME TypeOK, ControlOK, NEW r \in Replicas, Ordered(r), Send(r)
  PROVE  Ordered(r)' /\ Held(r)' \subseteq Held(r)
  <1> DEFINE n == Len(executions)
             m == Len(pending[r])
             k == Len(jobChan[r])
             p == pending'[r]
             c == jobChan'[r]
  <1>1. pending[r] \in Seq(1 .. n) /\ pending[r] # <<>> /\ jobChan[r] \in Seq(1 .. n)
    BY HandedOver DEF Send, TypeOK
  <1>2. Head(pending[r]) \in 1 .. n
    BY HandedOver DEF Send
  <1>3. p = Tail(pending[r]) /\ c = Append(jobChan[r], Head(pending[r]))
    BY DEF Send, Rest, TypeOK
  <1>4. /\ DOMAIN p = 1 .. m - 1 /\ DOMAIN pending[r] = 1 .. m /\ m \in Nat /\ m >= 1
        /\ Head(pending[r]) = pending[r][1]
        /\ \A i \in DOMAIN p : i + 1 \in DOMAIN pending[r] /\ p[i] = pending[r][i + 1]
    BY <1>1, <1>3, TailElements
  <1>5. /\ DOMAIN jobChan[r] = 1 .. k /\ k \in Nat
        /\ DOMAIN c = 1 .. k + 1
        /\ \A i \in 1 .. k : c[i] = jobChan[r][i]
        /\ c[k + 1] = Head(pending[r])
    BY <1>1, <1>2, <1>3, AppendElements
  <1>6. UNCHANGED worker
    BY DEF Send
  <1> HIDE DEF m, k, n
  <1>7. \A i \in DOMAIN c : \/ i \in DOMAIN jobChan[r] /\ c[i] = jobChan[r][i]
                            \/ i = k + 1 /\ c[i] = pending[r][1]
    BY <1>4, <1>5
  <1>8. 1 \in DOMAIN pending[r]
    BY <1>4
  <1>9. Ordered(r)'
    <2>1. \A i, l \in DOMAIN p : i < l => p[i] < p[l]
      BY <1>4 DEF Ordered
    <2>2. \A i, l \in DOMAIN c : i < l => c[i] < c[l]
      BY <1>4, <1>5, <1>7, <1>8 DEF Ordered
    <2>3. \A i \in DOMAIN c, l \in DOMAIN p : c[i] < p[l]
      BY <1>4, <1>7, <1>8 DEF Ordered
    <2>4. \A w \in Workers : Busy(r, w)' =>
            /\ \A i \in DOMAIN c : worker'[r][w].exec < c[i]
            /\ \A i \in DOMAIN p : worker'[r][w].exec < p[i]
      BY <1>4, <1>6, <1>7, <1>8 DEF Ordered, Busy
    <2>5. \A v, w \in Workers :
            Busy(r, v)' /\ Busy(r, w)' /\ worker'[r][v].exec = worker'[r][w].exec => v = w
      BY <1>6 DEF Ordered, Busy
    <2>6. QED
      BY <2>1, <2>2, <2>3, <2>4, <2>5 DEF Ordered
  <1>10. Held(r)' \subseteq Held(r)
    BY <1>4, <1>6, <1>7, <1>8 DEF Held, Elements, BusyWith, Busy
  <1>11. QED
    BY <1>9, <1>10

LEMMA ReceiveOrdered ==
  ASSUME TypeOK, NEW r \in Replicas, NEW w \in Workers, Ordered(r), Receive(r, w)
  PROVE  Ordered(r)' /\ Held(r)' \subseteq Held(r)
  <1> DEFINE k == Len(jobChan[r])
             c == jobChan'[r]
  <1>1. jobChan[r] \in Seq(1 .. Len(executions)) /\ jobChan[r] # <<>> /\ c = Tail(jobChan[r])
    BY DEF Receive, TypeOK
  <1>2. /\ DOMAIN c = 1 .. k - 1 /\ DOMAIN jobChan[r] = 1 .. k /\ k \in Nat /\ k >= 1
        /\ Head(jobChan[r]) = jobChan[r][1]
        /\ \A i \in DOMAIN c : i + 1 \in DOMAIN jobChan[r] /\ c[i] = jobChan[r][i + 1]
    BY <1>1, TailElements
  <1>3. UNCHANGED pending
    BY DEF Receive
  <1>4. /\ worker'[r][w].exec = jobChan[r][1]
        /\ \A v \in Workers : v # w => worker'[r][v] = worker[r][v]
    BY <1>2 DEF Receive, SetWorker, TypeOK
  <1>5. ~Busy(r, w)
    BY DEF Receive, Busy
  <1>6. 1 \in DOMAIN jobChan[r] /\ \A i \in DOMAIN c : 1 < i + 1
    BY <1>2
  <1> HIDE DEF k
  <1>7. \A i \in DOMAIN c : jobChan[r][1] < c[i]
    BY <1>2, <1>6 DEF Ordered
  <1>8. \A v \in Workers : v # w /\ Busy(r, v)' => Busy(r, v) /\ worker'[r][v].exec = worker[r][v].exec
    BY <1>4 DEF Busy
  <1>9. Ordered(r)'
    <2>1. ASSUME NEW i \in DOMAIN c, NEW l \in DOMAIN c, i < l PROVE c[i] < c[l]
      <3>1. /\ i + 1 \in DOMAIN jobChan[r] /\ c[i] = jobChan[r][i + 1]
            /\ l + 1 \in DOMAIN jobChan[r] /\ c[l] = jobChan[r][l + 1]
        BY <1>2
      <3>2. i + 1 < l + 1
        BY <1>2, <2>1
      <3> HIDE DEF c
      <3>3. QED
        BY <3>1, <3>2 DEF Ordered
    <2>2. \A i \in DOMAIN c, l \in DOMAIN pending'[r] : c[i] < pending'[r][l]
      BY <1>2, <1>3 DEF Ordered
    <2>3. \A v \in Workers : Busy(r, v)' =>
            /\ \A i \in DOMAIN c : worker'[r][v].exec < c[i]
            /\ \A i \in DOMAIN pending'[r] : worker'[r][v].exec < pending'[r][i]
      BY <1>2, <1>3, <1>4, <1>6, <1>7, <1>8 DEF Ordered
    <2>4. \A v \in Workers : v # w /\ Busy(r, v) => worker[r][v].exec < jobChan[r][1]
      BY <1>6 DEF Ordered
    <2>5. \A v \in Workers : v # w /\ Busy(r, v) => worker[r][v].exec \in 0 .. Len(executions)
      BY DEF TypeOK
    <2>6. jobChan[r][1] \in 1 .. Len(executions)
      BY <1>1, <1>6
    <2>7. \A u, v \in Workers :
            Busy(r, u)' /\ Busy(r, v)' /\ worker'[r][u].exec = worker'[r][v].exec => u = v
      <3>1. SUFFICES ASSUME NEW u \in Workers, NEW v \in Workers, Busy(r, u)', Busy(r, v)',
                            worker'[r][u].exec = worker'[r][v].exec, u # v
                     PROVE  FALSE
        OBVIOUS
      <3>2. CASE u # w /\ v # w
        BY <1>8, <3>1, <3>2 DEF Ordered
      <3>3. CASE u = w
        BY <1>4, <1>8, <2>4, <2>5, <2>6, <3>1, <3>3
      <3>4. CASE v = w
        BY <1>4, <1>8, <2>4, <2>5, <2>6, <3>1, <3>4
      <3>5. QED
        BY <3>2, <3>3, <3>4
    <2>8. QED
      BY <1>3, <2>1, <2>2, <2>3, <2>7 DEF Ordered
  <1>10. Held(r)' \subseteq Held(r)
    <2>1. Elements(jobChan[r])' \subseteq Elements(jobChan[r])
      BY <1>2 DEF Elements
    <2>2. BusyWith(r)' \subseteq BusyWith(r) \cup Elements(jobChan[r])
      BY <1>4, <1>6, <1>8 DEF BusyWith, Elements
    <2>3. QED
      BY <1>3, <2>1, <2>2 DEF Held, Elements
  <1>11. QED
    BY <1>9, <1>10

\* Whatever is held has a row.
LEMMA HeldHasRow ==
  ASSUME TypeOK, ControlOK, NEW r \in Replicas
  PROVE  Held(r) \subseteq 1 .. Len(executions)
  <1>1. Elements(pending[r]) \subseteq 1 .. Len(executions)
    <2>1. pending[r] \in Seq(1 .. Len(executions))
      BY DEF TypeOK
    <2>2. QED
      BY <2>1, ElementOfSeq, LenProperties DEF Elements
  <1>2. Elements(jobChan[r]) \subseteq 1 .. Len(executions)
    <2>1. jobChan[r] \in Seq(1 .. Len(executions))
      BY DEF TypeOK
    <2>2. QED
      BY <2>1, ElementOfSeq, LenProperties DEF Elements
  <1>3. BusyWith(r) \subseteq 1 .. Len(executions)
    BY BusyHasClaim DEF BusyWith
  <1>4. QED
    BY <1>1, <1>2, <1>3 DEF Held

LEMMA CommitOrdered ==
  ASSUME TypeOK, ControlOK, InClaimOrder, HeldApart, NEW r \in Replicas, CommitClaim(r)
  PROVE  InClaimOrder' /\ HeldApart'
  <1> DEFINE n == Len(executions)
             p == pending'[r]
  <1>1. /\ n \in Nat /\ UNCHANGED <<jobChan, worker>>
        /\ p = NewIds(r) /\ \A s \in Replicas : s # r => pending'[s] = pending[s]
    BY LenProperties DEF CommitClaim, TypeOK
  <1>2. p = [i \in 1 .. Len(batch[r]) |-> n + i] /\ Len(batch[r]) \in Nat
    BY <1>1, LenProperties DEF NewIds, TypeOK
  <1>3. pending[r] = <<>>
    BY DEF CommitClaim, ControlOK
  <1>4. \A s \in Replicas : Held(s) \subseteq 1 .. n
    BY HeldHasRow
  <1>5. \A s \in Replicas : s # r => Held(s)' \subseteq Held(s) /\ Ordered(s)'
    BY <1>1, HeldSame DEF InClaimOrder, Busy
  <1>6. \A i \in DOMAIN p : p[i] = n + i /\ i \in Nat /\ i >= 1
    BY <1>2
  <1>7. \A e \in Held(r)' : e \in Held(r) \/ e > n
    BY <1>1, <1>6 DEF Held, Elements, BusyWith, Busy
  <1> HIDE DEF n
  <1>8. Ordered(r)'
    <2>1. \A i, k \in DOMAIN p : i < k => p[i] < p[k]
      BY <1>1, <1>6
    <2>2. \A i \in DOMAIN jobChan'[r], k \in DOMAIN p : jobChan'[r][i] < p[k]
      <3>1. \A i \in DOMAIN jobChan[r] : jobChan[r][i] \in 1 .. n
        BY <1>4 DEF Held, Elements
      <3>2. QED
        BY <1>1, <1>6, <3>1
    <2>3. \A w \in Workers : Busy(r, w)' => \A i \in DOMAIN p : worker'[r][w].exec < p[i]
      <3>1. \A w \in Workers : Busy(r, w) => worker[r][w].exec \in 1 .. n
        BY <1>4 DEF Held, BusyWith
      <3>2. QED
        BY <1>1, <1>6, <3>1 DEF Busy
    <2>4. QED
      BY <1>1, <2>1, <2>2, <2>3 DEF InClaimOrder, Ordered, Busy
  <1>9. InClaimOrder'
    BY <1>5, <1>8 DEF InClaimOrder
  <1>10. HeldApart'
    <2>1. SUFFICES ASSUME NEW s \in Replicas, NEW u \in Replicas, s # u,
                          NEW e \in Held(s)' \cap Held(u)'
                   PROVE  FALSE
      BY DEF HeldApart
    <2>2. CASE s # r /\ u # r
      BY <1>5, <2>1, <2>2 DEF HeldApart
    <2>3. CASE s = r
      BY <1>1, <1>4, <1>5, <1>7, <2>1, <2>3 DEF HeldApart
    <2>4. CASE u = r
      BY <1>1, <1>4, <1>5, <1>7, <2>1, <2>4 DEF HeldApart
    <2>5. QED
      BY <2>2, <2>3, <2>4
  <1>11. QED
    BY <1>9, <1>10

\* A step of r that takes nothing new leaves every replica in order and apart.
LEMMA StepOfOne ==
  ASSUME InClaimOrder, HeldApart, NEW r \in Replicas,
         Ordered(r)' /\ Held(r)' \subseteq Held(r),
         \A s \in Replicas : s # r =>
           pending'[s] = pending[s] /\ jobChan'[s] = jobChan[s] /\ worker'[s] = worker[s]
  PROVE  InClaimOrder' /\ HeldApart'
  <1>1. \A s \in Replicas : s # r => Held(s)' \subseteq Held(s) /\ Ordered(s)'
    BY HeldSame DEF InClaimOrder, Busy
  <1>2. QED
    BY <1>1, HeldShrinks DEF InClaimOrder

LEMMA StepKeepsOrder ==
  ASSUME TypeOK, ControlOK, InClaimOrder, HeldApart, [Next]_vars
  PROVE  InClaimOrder' /\ HeldApart'
  <1>1. CASE UNCHANGED <<pending, jobChan, worker>>
    <2>1. \A s \in Replicas : Held(s)' \subseteq Held(s) /\ Ordered(s)'
      BY <1>1, HeldSame DEF InClaimOrder, Busy
    <2>2. QED
      BY <2>1, HeldShrinks DEF InClaimOrder
  <1>2. ASSUME NEW r \in Replicas, ResetProcess(r)
        PROVE  InClaimOrder' /\ HeldApart'
    <2>1. /\ pending'[r] = <<>> /\ jobChan'[r] = <<>>
          /\ \A w \in Workers : worker'[r][w] = IdleWorker
          /\ \A s \in Replicas : s # r =>
               pending'[s] = pending[s] /\ jobChan'[s] = jobChan[s] /\ worker'[s] = worker[s]
      BY <1>2 DEF ResetProcess, TypeOK
    <2>2. Ordered(r)' /\ Held(r)' \subseteq Held(r)
      BY <2>1 DEF Ordered, Held, Elements, BusyWith, Busy, IdleWorker
    <2>3. QED
      BY <2>1, <2>2, StepOfOne
  <1>3. ASSUME NEW r \in Replicas, AbandonOnShutdown(r) \/ MarkSaturated(r)
        PROVE  InClaimOrder' /\ HeldApart'
    <2>1. /\ loop[r] \in {"dispatching", "marking"}
          /\ pending' = [pending EXCEPT ![r] = Tail(pending[r])] /\ UNCHANGED <<jobChan, worker>>
      BY <1>3 DEF AbandonOnShutdown, MarkSaturated, Rest
    <2>2. pending[r] # <<>>
      BY <2>1 DEF ControlOK
    <2>3. Ordered(r)' /\ Held(r)' \subseteq Held(r)
      BY <2>1, <2>2, DropHead DEF InClaimOrder
    <2>4. \A s \in Replicas : s # r =>
            pending'[s] = pending[s] /\ jobChan'[s] = jobChan[s] /\ worker'[s] = worker[s]
      BY <2>1 DEF TypeOK
    <2>5. QED
      BY <2>3, <2>4, StepOfOne
  <1>4. ASSUME NEW r \in Replicas, Send(r)
        PROVE  InClaimOrder' /\ HeldApart'
    <2>1. Ordered(r)' /\ Held(r)' \subseteq Held(r)
      BY <1>4, SendOrdered DEF InClaimOrder
    <2>2. \A s \in Replicas : s # r =>
            pending'[s] = pending[s] /\ jobChan'[s] = jobChan[s] /\ worker'[s] = worker[s]
      BY <1>4 DEF Send, TypeOK
    <2>3. QED
      BY <2>1, <2>2, StepOfOne
  <1>5. ASSUME NEW r \in Replicas, NEW w \in Workers, Work(r, w)
        PROVE  InClaimOrder' /\ HeldApart'
    <2>1. \A s \in Replicas : s # r =>
            pending'[s] = pending[s] /\ jobChan'[s] = jobChan[s] /\ worker'[s] = worker[s]
      BY <1>5, WorkFrame
    <2>2. CASE Receive(r, w)
      BY <2>1, <2>2, ReceiveOrdered, StepOfOne DEF InClaimOrder
    <2>3. CASE ~Receive(r, w)
      <3>1. UNCHANGED <<pending, jobChan>>
        BY <1>5, <2>3 DEF Work, FinishExecution, WriteBackJob, Notify, WorkerExits
      <3>2. \A v \in Workers : v # w => worker'[r][v] = worker[r][v]
        BY <1>5, WorkFrame
      <3>3. Busy(r, w)' => Busy(r, w) /\ worker'[r][w].exec = worker[r][w].exec
        <4>1. CASE FinishExecution(r, w)
          <5>1. \E rec : rec.exec = worker[r][w].exec /\ SetWorker(r, w, rec)
            BY <4>1 DEF FinishExecution
          <5>2. Busy(r, w)
            BY <4>1 DEF FinishExecution, Busy
          <5>3. QED
            BY <5>1, <5>2, SetWorkerFrame
        <4>2. CASE WriteBackJob(r, w)
          <5>1. worker[r][w] \in [pc : WorkerPCs, exec : 0 .. Len(executions), status : ExecStatuses]
            BY DEF TypeOK
          <5>2. [worker[r][w] EXCEPT !.pc = "notifying"].exec = worker[r][w].exec
            BY <5>1
          <5>3. Busy(r, w) /\ SetWorker(r, w, [worker[r][w] EXCEPT !.pc = "notifying"])
            BY <4>2 DEF WriteBackJob, Busy
          <5>4. QED
            BY <5>2, <5>3, SetWorkerFrame
        <4>3. CASE Notify(r, w) \/ WorkerExits(r, w)
          <5>1. \E rec : rec.pc \in {"idle", "exited"} /\ SetWorker(r, w, rec)
            BY <4>3 DEF Notify, WorkerExits, IdleWorker
          <5>2. QED
            BY <5>1, SetWorkerFrame DEF Busy
        <4>4. QED
          BY <1>5, <2>3, <4>1, <4>2, <4>3 DEF Work
      <3>4. \A v \in Workers : /\ Busy(r, v)' => Busy(r, v)
                               /\ Busy(r, v)' => worker'[r][v].exec = worker[r][v].exec
        BY <3>2, <3>3 DEF Busy
      <3>5. Ordered(r)' /\ Held(r)' \subseteq Held(r)
        BY <3>1, <3>4, HeldSame DEF InClaimOrder
      <3>6. QED
        BY <2>1, <3>5, StepOfOne
    <2>4. QED
      BY <2>2, <2>3
  <1>6. QED
    <2>1. CASE UNCHANGED vars
      BY <1>1, <2>1 DEF vars
    <2>2. CASE TimePasses
      BY <1>1, <2>2 DEF TimePasses
    <2>3. ASSUME NEW r \in Replicas,
                 \/ Start(r) \/ Crash(r) \/ Terminate(r) \/ RecoverStale(r) \/ GraceExpires(r)
                 \/ Shutdown(r)
          PROVE  InClaimOrder' /\ HeldApart'
      <3>1. CASE Start(r) \/ Crash(r)
        BY <1>2, <3>1 DEF Start, Crash
      <3>2. CASE Terminate(r) \/ RecoverStale(r) \/ GraceExpires(r) \/ Shutdown(r)
        BY <1>1, <3>2 DEF Terminate, RecoverStale, GraceExpires, Shutdown, ExitLoop, Drained,
                          Return
      <3>3. QED
        BY <2>3, <3>1, <3>2
    <2>4. ASSUME NEW r \in Replicas, Tick(r) PROVE InClaimOrder' /\ HeldApart'
      <3>1. CASE ScanDue(r) \/ AdvanceNextRun(r) \/ LoseCommit(r) \/ RollbackClaim(r) \/ Saturate(r)
        BY <1>1, <3>1 DEF ScanDue, AdvanceNextRun, LoseCommit, RollbackClaim, Saturate
      <3>2. CASE CommitClaim(r)
        BY <3>2, CommitOrdered
      <3>3. QED
        BY <1>3, <1>4, <2>4, <3>1, <3>2 DEF Tick
    <2>5. QED
      BY <1>5, <2>1, <2>2, <2>3, <2>4 DEF Next

LEMMA IncreasingIsDistinct ==
  ASSUME NEW q, DOMAIN q \subseteq Nat, \A i \in DOMAIN q : q[i] \in Nat,
         \A i, k \in DOMAIN q : i < k => q[i] < q[k]
  PROVE  Distinct(q)
  <1>1. SUFFICES ASSUME NEW i \in DOMAIN q, NEW k \in DOMAIN q, q[i] = q[k], i # k
                 PROVE  FALSE
    BY DEF Distinct
  <1>2. i < k \/ k < i
    BY <1>1
  <1>3. q[i] \in Nat /\ q[k] \in Nat
    OBVIOUS
  <1>4. QED
    BY <1>1, <1>2, <1>3

LEMMA OrderGivesOneHolder ==
  ASSUME TypeOK, ControlOK, InClaimOrder, HeldApart
  PROVE  AtMostOneHolder
  <1>1. SUFFICES ASSUME NEW r \in Replicas
        PROVE  /\ Distinct(pending[r]) /\ Distinct(jobChan[r])
               /\ Elements(pending[r]) \cap Elements(jobChan[r]) = {}
               /\ BusyWith(r) \cap (Elements(pending[r]) \cup Elements(jobChan[r])) = {}
               /\ \A v, w \in Workers :
                    Busy(r, v) /\ Busy(r, w) /\ worker[r][v].exec = worker[r][w].exec => v = w
    BY DEF AtMostOneHolder
  <1> DEFINE n == Len(executions)
  <1>2. Ordered(r)
    BY DEF InClaimOrder
  <1>3. /\ pending[r] \in Seq(1 .. n) /\ jobChan[r] \in Seq(1 .. n)
        /\ DOMAIN pending[r] \subseteq Nat /\ DOMAIN jobChan[r] \subseteq Nat
        /\ \A i \in DOMAIN pending[r] : pending[r][i] \in Nat
        /\ \A i \in DOMAIN jobChan[r] : jobChan[r][i] \in Nat
        /\ \A w \in Workers : worker[r][w].exec \in Nat
    BY LenProperties, ElementOfSeq DEF TypeOK
  <1>4. Distinct(pending[r]) /\ Distinct(jobChan[r])
    BY <1>2, <1>3, IncreasingIsDistinct DEF Ordered
  <1>5. Elements(pending[r]) \cap Elements(jobChan[r]) = {}
    BY <1>2, <1>3 DEF Ordered, Elements
  <1>6. BusyWith(r) \cap (Elements(pending[r]) \cup Elements(jobChan[r])) = {}
    BY <1>2, <1>3 DEF Ordered, Elements, BusyWith
  <1>7. QED
    BY <1>2, <1>4, <1>5, <1>6 DEF Ordered

-----------------------------------------------------------------------------
(* Outcomes.                                                                *)

Open(row) == row.status \in {"running", "deleted"} \/ row.error = "stale"

LEMMA UnsavedHeld == \A r \in Replicas : Unsaved(r) \subseteq Held(r)
  BY DEF Unsaved, Held, RunningWith, BusyWith, Running, Busy

\* A step that writes the row of one execution nobody has to run any more.
LEMMA OneRowWritten ==
  ASSUME TypeOK, ControlOK, UnsavedRowsAreOpen, NEW e \in DOMAIN executions,
         \A d \in DOMAIN executions : d # e => executions'[d] = executions[d],
         \A s \in Replicas : Unsaved(s)' \subseteq Unsaved(s) /\ e \notin Unsaved(s)'
  PROVE  UnsavedRowsAreOpen'
  <1>1. SUFFICES ASSUME NEW s \in Replicas, NEW d \in Unsaved(s)'
                 PROVE  Open(executions'[d])
    BY DEF UnsavedRowsAreOpen, Open
  <1>2. d \in Unsaved(s) /\ d # e
    BY <1>1
  <1>3. d \in DOMAIN executions
    BY <1>2, UnsavedHeld, HeldHasRow, LenProperties DEF TypeOK
  <1>4. QED
    BY <1>2, <1>3 DEF UnsavedRowsAreOpen, Open

LEMMA UnsavedSame ==
  ASSUME NEW s \in Replicas, pending'[s] = pending[s], jobChan'[s] = jobChan[s],
         \A w \in Workers : Running(s, w)' => Running(s, w) /\ worker'[s][w].exec = worker[s][w].exec
  PROVE  Unsaved(s)' \subseteq Unsaved(s)
  BY DEF Unsaved, Elements, RunningWith

\* A claim that is marked failed leaves the list of its replica.
LEMMA MarkedIsLetGo ==
  ASSUME TypeOK, ControlOK, InClaimOrder, HeldApart, NEW r \in Replicas,
         AbandonOnShutdown(r) \/ MarkSaturated(r)
  PROVE  /\ Head(pending[r]) \in Unsaved(r) /\ Head(pending[r]) \in DOMAIN executions
         /\ \A s \in Replicas : Unsaved(s)' \subseteq Unsaved(s) /\ Head(pending[r]) \notin Unsaved(s)'
         /\ \/ UNCHANGED executions
            \/ SaveOutcome(Head(pending[r]), "error", "shutdown", "mark")
            \/ SaveOutcome(Head(pending[r]), "error", "saturated", "mark")
  <1> DEFINE e == Head(pending[r])
             n == Len(executions)
             m == Len(pending[r])
  <1>1. /\ loop[r] \in {"dispatching", "marking"}
        /\ pending' = [pending EXCEPT ![r] = Tail(pending[r])] /\ UNCHANGED <<jobChan, worker>>
    BY DEF AbandonOnShutdown, MarkSaturated, Rest
  <1>2. pending[r] # <<>> /\ pending[r] \in Seq(1 .. n) /\ e \in DOMAIN executions
    BY <1>1, HandedOver
  <1>3. pending'[r] = Tail(pending[r])
    BY <1>1 DEF TypeOK
  <1>4. /\ DOMAIN pending'[r] = 1 .. m - 1 /\ DOMAIN pending[r] = 1 .. m
        /\ m \in Nat /\ m >= 1 /\ e = pending[r][1]
        /\ \A i \in DOMAIN pending'[r] :
             i + 1 \in DOMAIN pending[r] /\ pending'[r][i] = pending[r][i + 1]
    BY <1>2, <1>3, TailElements
  <1>5. e \in Elements(pending[r]) /\ 1 \in DOMAIN pending[r]
    BY <1>4 DEF Elements
  <1>6. e \in Unsaved(r) /\ e \in Held(r)
    BY <1>5 DEF Unsaved, Held
  <1>7. \A s \in Replicas : Unsaved(s)' \subseteq Unsaved(s)
    <2>1. TAKE s \in Replicas
    <2>2. Elements(pending'[s]) \subseteq Elements(pending[s])
      <3>1. CASE s = r
        BY <1>4, <3>1 DEF Elements
      <3>2. CASE s # r
        BY <1>1, <3>2 DEF TypeOK
      <3>3. QED
        BY <3>1, <3>2
    <2>3. QED
      BY <1>1, <2>2 DEF Unsaved, RunningWith, Running
  <1>8. \A s \in Replicas : e \notin Unsaved(s)'
    <2>1. SUFFICES ASSUME NEW s \in Replicas, e \in Unsaved(s)' PROVE FALSE
      OBVIOUS
    <2>2. e \in Held(s)
      BY <1>7, <2>1, UnsavedHeld
    <2>3. s = r
      BY <1>6, <2>2 DEF HeldApart
    <2>4. Ordered(r) /\ e \in Nat
      BY <1>2, <1>4, <1>5, ElementOfSeq DEF InClaimOrder
    <2>5. e \notin Elements(pending'[r])
      <3>1. \A i \in DOMAIN pending'[r] : 1 < i + 1 /\ pending[r][1] < pending[r][i + 1]
        BY <1>4, <1>5, <2>4 DEF Ordered
      <3>2. QED
        BY <1>4, <2>4, <3>1 DEF Elements
    <2>6. e \notin Elements(jobChan'[r]) /\ e \notin RunningWith(r)'
      BY <1>1, <1>4, <1>5, <2>4 DEF Ordered, Elements, RunningWith, Running, Busy
    <2>7. QED
      BY <2>1, <2>3, <2>5, <2>6 DEF Unsaved
  <1>9. QED
    BY <1>2, <1>6, <1>7, <1>8 DEF AbandonOnShutdown, MarkSaturated, SaveAbandoned

\* The same for an execution whose executor has returned.
LEMMA FinishedIsLetGo ==
  ASSUME TypeOK, ControlOK, InClaimOrder, HeldApart, NEW r \in Replicas, NEW w \in Workers,
         FinishExecution(r, w)
  PROVE  LET e == worker[r][w].exec IN
         /\ e \in Unsaved(r) /\ e \in DOMAIN executions
         /\ \A s \in Replicas : Unsaved(s)' \subseteq Unsaved(s) /\ e \notin Unsaved(s)'
         /\ \E status \in Terminal : SaveOutcome(e, status, "executor", "save")
  <1> DEFINE e == worker[r][w].exec
  <1>1. Running(r, w) /\ Busy(r, w)
    BY DEF FinishExecution, Running, Busy
  <1>2. e \in DOMAIN executions /\ e \in 1 .. Len(executions)
    BY <1>1, BusyHasClaim
  <1>3. e \in Unsaved(r) /\ e \in Held(r)
    BY <1>1 DEF Unsaved, RunningWith, Held, BusyWith
  <1>4. /\ UNCHANGED <<pending, jobChan>> /\ ~Running(r, w)'
        /\ \A s \in Replicas, v \in Workers : s # r \/ v # w => worker'[s][v] = worker[s][v]
    BY DEF FinishExecution, SetWorker, Running, TypeOK
  <1>5. \A s \in Replicas : Unsaved(s)' \subseteq Unsaved(s)
    BY <1>4, UnsavedSame DEF Running
  <1>6. \A s \in Replicas : e \notin Unsaved(s)'
    <2>1. SUFFICES ASSUME NEW s \in Replicas, e \in Unsaved(s)' PROVE FALSE
      OBVIOUS
    <2>2. s = r
      BY <1>3, <1>5, <2>1, UnsavedHeld DEF HeldApart
    <2>3. Ordered(r)
      BY DEF InClaimOrder
    <2>4. e \notin Elements(pending'[r]) /\ e \notin Elements(jobChan'[r])
      BY <1>1, <1>2, <1>4, <2>3 DEF Ordered, Elements
    <2>5. e \notin RunningWith(r)'
      BY <1>1, <1>4, <2>3 DEF Ordered, RunningWith, Running, Busy
    <2>6. QED
      BY <2>1, <2>2, <2>4, <2>5 DEF Unsaved
  <1>7. \E status \in Terminal : SaveOutcome(e, status, "executor", "save")
    BY OutcomesAreTerminal DEF FinishExecution
  <1>8. QED
    BY <1>2, <1>3, <1>5, <1>6, <1>7

\* Steps that leave the table alone and give nobody a new claim.
LEMMA RowsUntouched ==
  ASSUME UnsavedRowsAreOpen, UNCHANGED executions,
         \A s \in Replicas : Unsaved(s)' \subseteq Unsaved(s)
  PROVE  UnsavedRowsAreOpen'
  BY DEF UnsavedRowsAreOpen

LEMMA CommitKeepsOpen ==
  ASSUME TypeOK, ControlOK, UnsavedRowsAreOpen, NEW r \in Replicas,
         CommitClaim(r) \/ LoseCommit(r)
  PROVE  UnsavedRowsAreOpen'
  <1> DEFINE n == Len(executions)
  <1>1. CommitWrites(r)
    BY DEF CommitClaim, LoseCommit
  <1>2. /\ DOMAIN executions = 1 .. n /\ n \in Nat
        /\ Len(executions') = n + Len(batch[r]) /\ Len(batch[r]) \in Nat
        /\ DOMAIN executions' = 1 .. Len(executions')
        /\ \A e \in DOMAIN executions : executions'[e] = executions[e]
        /\ \A e \in DOMAIN executions' \ DOMAIN executions : executions'[e].status = "running"
    BY <1>1, CommitWritesTyped, LenProperties DEF TypeOK
  <1>3. \A s \in Replicas : Unsaved(s) \subseteq 1 .. n
    BY UnsavedHeld, HeldHasRow
  <1>4. \A s \in Replicas : \A e \in Unsaved(s)' :
          e \in Unsaved(s) \/ e \in DOMAIN executions' \ DOMAIN executions
    <2>1. SUFFICES ASSUME NEW s \in Replicas, NEW e \in Unsaved(s)', e \notin Unsaved(s)
                   PROVE  e \in DOMAIN executions' \ DOMAIN executions
      OBVIOUS
    <2>2. UNCHANGED <<jobChan, worker>> /\ \A u \in Replicas : u # r => pending'[u] = pending[u]
      BY DEF CommitClaim, LoseCommit, TypeOK
    <2>3. s = r /\ e \in Elements(pending'[r])
      BY <2>1, <2>2 DEF Unsaved, RunningWith, Running
    <2>4. pending'[r] = NewIds(r)
      <3>1. CASE CommitClaim(r)
        BY <3>1 DEF CommitClaim, TypeOK
      <3>2. CASE LoseCommit(r)
        BY <2>1, <2>3, <3>2 DEF LoseCommit, Unsaved
      <3>3. QED
        BY <3>1, <3>2
    <2>5. PICK i \in 1 .. Len(batch[r]) : e = n + i
      BY <2>3, <2>4 DEF Elements, NewIds
    <2>6. QED
      BY <1>2, <2>5
  <1>5. SUFFICES ASSUME NEW s \in Replicas, NEW e \in Unsaved(s)'
                 PROVE  Open(executions'[e])
    BY DEF UnsavedRowsAreOpen, Open
  <1>6. CASE e \in Unsaved(s)
    BY <1>2, <1>3, <1>6 DEF UnsavedRowsAreOpen, Open
  <1>7. CASE e \in DOMAIN executions' \ DOMAIN executions
    BY <1>2, <1>7 DEF Open
  <1>8. QED
    BY <1>4, <1>6, <1>7

LEMMA RecoverKeepsOpen ==
  ASSUME TypeOK, ControlOK, UnsavedRowsAreOpen, NEW r \in Replicas, RecoverStale(r)
  PROVE  UnsavedRowsAreOpen'
  <1>1. \A s \in Replicas : Unsaved(s)' = Unsaved(s)
    BY DEF RecoverStale, Unsaved, RunningWith, Running
  <1>2. \A s \in Replicas : Unsaved(s) \subseteq DOMAIN executions
    BY UnsavedHeld, HeldHasRow, LenProperties DEF TypeOK
  <1>3. \A e \in DOMAIN executions : executions[e] \in ExecRows
    BY ElementOfSeq, LenProperties DEF TypeOK
  <1>4. \A e \in DOMAIN executions : Open(executions[e]) => Open(executions'[e])
    <2>1. TAKE e \in DOMAIN executions
    <2>2. \/ executions'[e] = executions[e]
          \/ /\ executions[e].status = "running"
             /\ executions'[e] = WithOutcome(executions[e], "error", "stale")
      BY DEF RecoverStale, Stale
    <2>3. CASE executions[e].status = "running"
      <3>1. WithOutcome(executions[e], "error", "stale").error = "stale"
        BY <1>3, <2>3, WithOutcomeType DEF ExecStatuses, Reasons
      <3>2. QED
        BY <2>2, <3>1 DEF Open
    <2>4. QED
      BY <2>2, <2>3
  <1>5. QED
    BY <1>1, <1>2, <1>4 DEF UnsavedRowsAreOpen, Open

\* A claim that goes from the list to the channel, or from there to a worker, stays
\* with its replica, and no other replica gets one.
LEMMA SendShrinks ==
  ASSUME TypeOK, ControlOK, NEW r \in Replicas, Send(r), NEW s \in Replicas
  PROVE  Unsaved(s)' \subseteq Unsaved(s)
  <1>1. CASE s # r
    <2>1. pending'[s] = pending[s] /\ jobChan'[s] = jobChan[s] /\ worker'[s] = worker[s]
      BY <1>1 DEF Send, TypeOK
    <2>2. QED
      BY <2>1, UnsavedSame DEF Running
  <1>2. CASE s = r
    <2> DEFINE x == Head(pending[r])
               n == Len(executions)
    <2>1. /\ pending[r] \in Seq(1 .. n) /\ pending[r] # <<>>
          /\ jobChan[r] \in Seq(1 .. n) /\ x \in 1 .. n
      BY HandedOver DEF Send, TypeOK
    <2>2. pending'[r] = Tail(pending[r]) /\ jobChan'[r] = Append(jobChan[r], x) /\ UNCHANGED worker
      BY DEF Send, Rest, TypeOK
    <2>3. Elements(Tail(pending[r])) \subseteq Elements(pending[r]) /\ x \in Elements(pending[r])
      BY <2>1, TailElements DEF Elements
    <2> HIDE DEF x, n
    <2>4. Elements(Append(jobChan[r], x)) \subseteq Elements(jobChan[r]) \cup {x}
      <3> DEFINE q == jobChan[r]
      <3>1. /\ DOMAIN q = 1 .. Len(q) /\ Len(q) \in Nat
            /\ DOMAIN Append(q, x) = 1 .. Len(q) + 1
            /\ \A i \in 1 .. Len(q) : Append(q, x)[i] = q[i]
            /\ Append(q, x)[Len(q) + 1] = x
        BY <2>1, AppendElements
      <3> HIDE DEF q
      <3>2. \A i \in 1 .. Len(q) + 1 : i \in 1 .. Len(q) \/ i = Len(q) + 1
        BY <3>1
      <3>3. Elements(Append(q, x)) \subseteq Elements(q) \cup {x}
        BY <3>1, <3>2 DEF Elements
      <3>4. QED
        BY <3>3 DEF q
    <2>5. QED
      BY <1>2, <2>2, <2>3, <2>4 DEF Unsaved, RunningWith, Running
  <1>3. QED
    BY <1>1, <1>2

LEMMA ReceiveShrinks ==
  ASSUME TypeOK, NEW r \in Replicas, NEW w \in Workers, Receive(r, w), NEW s \in Replicas
  PROVE  Unsaved(s)' \subseteq Unsaved(s)
  <1>1. /\ \A u \in Replicas : u # r =>
             pending'[u] = pending[u] /\ jobChan'[u] = jobChan[u] /\ worker'[u] = worker[u]
        /\ \A v \in Workers : v # w => worker'[r][v] = worker[r][v]
        /\ worker'[r][w].exec = Head(jobChan[r]) /\ jobChan'[r] = Tail(jobChan[r])
        /\ jobChan[r] \in Seq(1 .. Len(executions)) /\ jobChan[r] # <<>>
        /\ UNCHANGED pending
    BY DEF Receive, SetWorker, TypeOK
  <1>2. CASE s # r
    BY <1>1, <1>2, UnsavedSame DEF Running
  <1>3. CASE s = r
    <2>1. /\ Elements(Tail(jobChan[r])) \subseteq Elements(jobChan[r])
          /\ Head(jobChan[r]) \in Elements(jobChan[r])
      BY <1>1, TailElements DEF Elements
    <2>2. RunningWith(r)' \subseteq RunningWith(r) \cup {Head(jobChan[r])}
      BY <1>1 DEF RunningWith, Running
    <2>3. QED
      BY <1>1, <1>3, <2>1, <2>2 DEF Unsaved
  <1>4. QED
    BY <1>2, <1>3

LEMMA StepKeepsOpen ==
  ASSUME TypeOK, ControlOK, InClaimOrder, HeldApart, UnsavedRowsAreOpen, [Next]_vars
  PROVE  UnsavedRowsAreOpen'
  <1>1. CASE UNCHANGED <<executions, pending, jobChan, worker>>
    BY <1>1, RowsUntouched DEF Unsaved, RunningWith, Running
  <1>2. ASSUME NEW r \in Replicas, ResetProcess(r), UNCHANGED executions
        PROVE  UnsavedRowsAreOpen'
    <2>1. /\ pending'[r] = <<>> /\ jobChan'[r] = <<>>
          /\ \A w \in Workers : worker'[r][w] = IdleWorker
          /\ \A s \in Replicas : s # r =>
               pending'[s] = pending[s] /\ jobChan'[s] = jobChan[s] /\ worker'[s] = worker[s]
      BY <1>2 DEF ResetProcess, TypeOK
    <2>2. Unsaved(r)' \subseteq Unsaved(r)
      BY <2>1 DEF Unsaved, Elements, RunningWith, Running, IdleWorker
    <2>3. \A s \in Replicas : s # r => Unsaved(s)' \subseteq Unsaved(s)
      BY <2>1, UnsavedSame DEF Running
    <2>4. QED
      BY <1>2, <2>2, <2>3, RowsUntouched
  <1>3. ASSUME NEW r \in Replicas, AbandonOnShutdown(r) \/ MarkSaturated(r)
        PROVE  UnsavedRowsAreOpen'
    <2> DEFINE e == Head(pending[r])
    <2>1. /\ e \in DOMAIN executions
          /\ \A s \in Replicas : Unsaved(s)' \subseteq Unsaved(s) /\ e \notin Unsaved(s)'
          /\ \/ UNCHANGED executions
             \/ SaveOutcome(e, "error", "shutdown", "mark")
             \/ SaveOutcome(e, "error", "saturated", "mark")
      BY <1>3, MarkedIsLetGo
    <2>2. \A d \in DOMAIN executions : d # e => executions'[d] = executions[d]
      BY <2>1, SaveOutcomeTyped DEF ExecStatuses, Reasons
    <2> HIDE DEF e
    <2>3. QED
      BY <2>1, <2>2, OneRowWritten
  <1>4. ASSUME NEW r \in Replicas, NEW w \in Workers, FinishExecution(r, w)
        PROVE  UnsavedRowsAreOpen'
    <2> DEFINE e == worker[r][w].exec
    <2>1. /\ e \in DOMAIN executions
          /\ \A s \in Replicas : Unsaved(s)' \subseteq Unsaved(s) /\ e \notin Unsaved(s)'
          /\ \E status \in Terminal : SaveOutcome(e, status, "executor", "save")
      BY <1>4, FinishedIsLetGo
    <2>2. \A d \in DOMAIN executions : d # e => executions'[d] = executions[d]
      BY <2>1, SaveOutcomeTyped DEF Terminal, ExecStatuses, Reasons
    <2> HIDE DEF e
    <2>3. QED
      BY <2>1, <2>2, OneRowWritten
  <1>5. ASSUME NEW r \in Replicas, Send(r)
        PROVE  UnsavedRowsAreOpen'
    BY <1>5, SendShrinks, RowsUntouched DEF Send, dbVars
  <1>6. ASSUME NEW r \in Replicas, NEW w \in Workers, Receive(r, w)
        PROVE  UnsavedRowsAreOpen'
    BY <1>6, ReceiveShrinks, RowsUntouched DEF Receive, dbVars
  <1>7. ASSUME NEW r \in Replicas, NEW w \in Workers,
               WriteBackJob(r, w) \/ Notify(r, w) \/ WorkerExits(r, w)
        PROVE  UnsavedRowsAreOpen'
    <2>1. /\ UNCHANGED <<executions, pending, jobChan>>
          /\ \A s \in Replicas, v \in Workers : s # r \/ v # w => worker'[s][v] = worker[s][v]
      <3>1. UNCHANGED <<executions, pending, jobChan>>
        BY <1>7 DEF WriteBackJob, Notify, WorkerExits, dbVars
      <3>2. QED
        BY <1>7, <3>1, WorkFrame DEF Work
    <2>2. ~Running(r, w)'
      <3>1. \E rec : /\ rec.pc \in {"idle", "notifying", "exited"}
                     /\ SetWorker(r, w, rec)
        <4>1. worker[r][w] \in [pc : WorkerPCs, exec : 0 .. Len(executions), status : ExecStatuses]
          BY DEF TypeOK
        <4>2. CASE WriteBackJob(r, w)
          <5> DEFINE next == [worker[r][w] EXCEPT !.pc = "notifying"]
          <5>1. next.pc = "notifying"
            BY <4>1
          <5>2. SetWorker(r, w, next)
            BY <4>2 DEF WriteBackJob
          <5> HIDE DEF next
          <5>3. QED
            BY <5>1, <5>2
        <4>3. CASE Notify(r, w) \/ WorkerExits(r, w)
          BY <4>3 DEF Notify, WorkerExits, IdleWorker
        <4>4. QED
          BY <1>7, <4>2, <4>3
      <3>2. QED
        BY <3>1, SetWorkerFrame DEF Running
    <2>3. \A s \in Replicas : Unsaved(s)' \subseteq Unsaved(s)
      BY <2>1, <2>2, UnsavedSame DEF Running
    <2>4. QED
      BY <2>1, <2>3, RowsUntouched
  <1>8. QED
    <2>1. CASE UNCHANGED vars
      BY <1>1, <2>1 DEF vars, dbVars
    <2>2. CASE TimePasses
      BY <1>1, <2>2 DEF TimePasses, dbVars
    <2>3. ASSUME NEW r \in Replicas, Start(r) \/ Crash(r)
          PROVE  UnsavedRowsAreOpen'
      BY <1>2, <2>3 DEF Start, Crash, dbVars
    <2>4. ASSUME NEW r \in Replicas, Terminate(r) \/ GraceExpires(r) \/ Shutdown(r)
          PROVE  UnsavedRowsAreOpen'
      BY <1>1, <2>4 DEF Terminate, GraceExpires, Shutdown, ExitLoop, Drained, Return, dbVars
    <2>5. ASSUME NEW r \in Replicas, Tick(r) PROVE UnsavedRowsAreOpen'
      <3>1. CASE ScanDue(r) \/ AdvanceNextRun(r) \/ RollbackClaim(r) \/ Saturate(r)
        BY <1>1, <3>1 DEF ScanDue, AdvanceNextRun, RollbackClaim, Saturate, dbVars
      <3>2. QED
        BY <1>3, <1>5, <2>5, <3>1, CommitKeepsOpen DEF Tick
    <2>6. ASSUME NEW r \in Replicas, NEW w \in Workers, Work(r, w) PROVE UnsavedRowsAreOpen'
      BY <1>4, <1>6, <1>7, <2>6 DEF Work
    <2>7. QED
      BY <2>1, <2>2, <2>3, <2>4, <2>5, <2>6, RecoverKeepsOpen DEF Next

-----------------------------------------------------------------------------
LEMMA FreshSafe ==
  ASSUME Fresh, jobs \in [Jobs -> JobRows]
  PROVE  SafetyInv
  <1>1. TypeOK /\ ControlOK
    BY FreshTyped
  <1>2. ClaimReadsStayCurrent
    BY EmptyScanType DEF Fresh, ClaimReadsStayCurrent
  <1>3. \A r \in Replicas : pending[r] = <<>> /\ jobChan[r] = <<>> /\ \A w \in Workers : ~Busy(r, w)
    BY DEF Fresh, Busy, IdleWorker
  <1>4. InClaimOrder
    BY <1>3 DEF InClaimOrder, Ordered
  <1>5. \A r \in Replicas : Held(r) = {}
    BY <1>3 DEF Held, Elements, BusyWith
  <1>6. HeldApart /\ UnsavedRowsAreOpen
    BY <1>5, UnsavedHeld DEF HeldApart, UnsavedRowsAreOpen
  <1>7. QED
    BY <1>1, <1>2, <1>4, <1>6 DEF SafetyInv

\* The inductive invariant of the scheduler: types, what the program counters say of
\* the data, locked rows as they were read, claims in the order of their ids and held
\* by one replica, and open rows for all that is to be saved.
THEOREM SafetyInvariant == Spec => []SafetyInv
  <1>1. Init => SafetyInv
    BY FreshSafe, NewJobType DEF Init
  <1>2. SafetyInv /\ [Next]_vars => SafetyInv'
    BY StepTyped, StepKeepsReads, StepKeepsOrder, StepKeepsOpen DEF SafetyInv
  <1>3. QED
    BY <1>1, <1>2, PTL DEF Spec

\* An execution is in one place: on the list, in the channel or with a worker of
\* one replica, so no claim is executed twice.
THEOREM OneHolder == Spec => []AtMostOneHolder
  <1>1. SafetyInv => AtMostOneHolder
    BY OrderGivesOneHolder DEF SafetyInv
  <1>2. QED
    BY <1>1, SafetyInvariant, PTL

\* While a claim waits or runs its row has no outcome but one of recoverStale.
THEOREM OpenWhileUnsaved == Spec => []UnsavedRowsAreOpen
  <1>1. SafetyInv => UnsavedRowsAreOpen
    BY DEF SafetyInv
  <1>2. QED
    BY <1>1, SafetyInvariant, PTL

\* A row with an outcome that is not a recovery's is not written again.
LEMMA FinalStep ==
  ASSUME SafetyInv, [Next]_vars, NEW e \in DOMAIN executions,
         executions[e].status \in Terminal, executions[e].error # "stale"
  PROVE  executions'[e] = executions[e]
  <1>1. /\ TypeOK /\ ControlOK /\ InClaimOrder /\ HeldApart /\ UnsavedRowsAreOpen
        /\ \A r \in Replicas : e \notin Unsaved(r)
    BY DEF SafetyInv, UnsavedRowsAreOpen, Terminal
  <1>2. ASSUME NEW r \in Replicas, AbandonOnShutdown(r) \/ MarkSaturated(r)
        PROVE  executions'[e] = executions[e]
    <2> DEFINE d == Head(pending[r])
    <2>1. /\ d \in Unsaved(r) /\ d \in DOMAIN executions
          /\ \/ UNCHANGED executions
             \/ SaveOutcome(d, "error", "shutdown", "mark")
             \/ SaveOutcome(d, "error", "saturated", "mark")
      BY <1>1, <1>2, MarkedIsLetGo
    <2> HIDE DEF d
    <2>2. QED
      BY <1>1, <2>1, SaveOutcomeTyped DEF ExecStatuses, Reasons
  <1>3. ASSUME NEW r \in Replicas, NEW w \in Workers, FinishExecution(r, w)
        PROVE  executions'[e] = executions[e]
    <2> DEFINE d == worker[r][w].exec
    <2>1. /\ d \in Unsaved(r) /\ d \in DOMAIN executions
          /\ \E status \in Terminal : SaveOutcome(d, status, "executor", "save")
      BY <1>1, <1>3, FinishedIsLetGo
    <2> HIDE DEF d
    <2>2. QED
      BY <1>1, <2>1, SaveOutcomeTyped DEF Terminal, ExecStatuses, Reasons
  <1>4. ASSUME NEW r \in Replicas, CommitClaim(r) \/ LoseCommit(r)
        PROVE  executions'[e] = executions[e]
    BY <1>1, <1>4, CommitWritesTyped DEF CommitClaim, LoseCommit
  <1>5. ASSUME NEW r \in Replicas, RecoverStale(r)
        PROVE  executions'[e] = executions[e]
    BY <1>5 DEF RecoverStale, Stale, Terminal
  <1>6. CASE UNCHANGED executions
    BY <1>6
  <1>7. QED
    <2>1. CASE TimePasses \/ UNCHANGED vars
      BY <1>6, <2>1 DEF TimePasses, vars, dbVars
    <2>2. ASSUME NEW r \in Replicas,
                 \/ Start(r) \/ Crash(r) \/ Terminate(r) \/ GraceExpires(r) \/ Shutdown(r)
          PROVE  executions'[e] = executions[e]
      BY <1>6, <2>2 DEF Start, Crash, Terminate, GraceExpires, Shutdown, ExitLoop, Drained,
                        Return, dbVars
    <2>3. ASSUME NEW r \in Replicas, Tick(r) PROVE executions'[e] = executions[e]
      <3>1. CASE ScanDue(r) \/ AdvanceNextRun(r) \/ RollbackClaim(r) \/ Send(r) \/ Saturate(r)
        BY <1>6, <3>1 DEF ScanDue, AdvanceNextRun, RollbackClaim, Send, Saturate, dbVars
      <3>2. QED
        BY <1>2, <1>4, <2>3, <3>1 DEF Tick
    <2>4. ASSUME NEW r \in Replicas, NEW w \in Workers, Work(r, w)
          PROVE  executions'[e] = executions[e]
      <3>1. CASE Receive(r, w) \/ WriteBackJob(r, w) \/ Notify(r, w) \/ WorkerExits(r, w)
        BY <1>6, <3>1 DEF Receive, WriteBackJob, Notify, WorkerExits, dbVars
      <3>2. QED
        BY <1>3, <2>4, <3>1 DEF Work
    <2>5. QED
      BY <1>5, <2>1, <2>2, <2>3, <2>4 DEF Next

\* The outcome of an execution is written once: only one that recoverStale gave
\* to a live execution is replaced.
THEOREM FinalOutcome == Spec => OutcomeIsFinal
  <1>1. SafetyInv /\ [Next]_vars => \A e \in DOMAIN executions :
          executions[e].status \in Terminal /\ executions[e].error # "stale"
            => executions'[e] = executions[e]
    BY FinalStep
  <1>2. QED
    BY <1>1, SafetyInvariant, PTL DEF Spec, OutcomeIsFinal
=============================================================================
