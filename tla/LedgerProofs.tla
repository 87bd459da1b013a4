----------------------------- MODULE LedgerProofs -----------------------------
(****************************************************************************)
(* The scheduler implements the ledger: replicas, transactions, channels    *)
(* and workers are an implementation of "an execution is held once, settled *)
(* by its holder and reported at most once", for every value of the         *)
(* constants and whatever statements fail and processes crash.              *)
(****************************************************************************)
EXTENDS PipelineProofs

\* A batch names each job once, and the jobs a claim transaction has locked are active.
BatchesDistinct == \A r \in Replicas : Distinct(batch[r])
LockedActive == \A r \in Replicas : \A j \in DOMAIN scan[r] : jobs[j].status = "active"

\* Where nobody but the scheduler works on the tables every job stays active, also
\* when a worker writes its copy back.
AllActive ==
  /\ \A j \in Jobs : jobs[j].status = "active"
  /\ \A e \in DOMAIN claims : claims[e].row.status = "active"

BatchOK == BatchesDistinct /\ AllActive

\* The rows and claims a commit leaves.
LEMMA CommitActive ==
  ASSUME TypeOK, ControlOK, ClaimReadsStayCurrent, AllActive, NEW r \in Replicas, CommitWrites(r)
  PROVE  /\ \A j \in Jobs : jobs'[j].status = "active"
         /\ \A e \in DOMAIN claims' : claims'[e].row.status = "active"
  <1>1. ASSUME NEW j \in Jobs PROVE jobs'[j].status = "active"
    <2>1. jobs[j] \in JobRows
      BY DEF TypeOK
    <2>2. jobs'[j] = jobs[j] \/ \E t : jobs'[j] = [jobs[j] EXCEPT !.nextRun = t]
      BY DEF CommitWrites
    <2>3. QED
      BY <2>1, <2>2 DEF AllActive, JobRows
  <1>2. ASSUME NEW e \in DOMAIN claims' PROVE claims'[e].row.status = "active"
    <2> DEFINE k == Len(batch[r])
               n == Len(executions)
    <2>1. /\ k \in Nat /\ n \in Nat /\ DOMAIN claims = 1 .. n /\ DOMAIN claims' = 1 .. n + k
          /\ \A c \in DOMAIN claims : claims'[c] = claims[c]
          /\ \A i \in 1 .. k : claims'[n + i].row = AdvancedRow(r, batch[r][i])
      <3>1. DOMAIN claims = 1 .. n
        BY LenProperties DEF TypeOK
      <3>2. QED
        BY <3>1, CommittedRows
    <2>2. CASE e \in DOMAIN claims
      BY <2>1, <2>2 DEF AllActive
    <2>3. ASSUME NEW i \in 1 .. k
          PROVE  AdvancedRow(r, batch[r][i]).status = "active"
      <3>1. batch[r][i] \in DOMAIN scan[r] /\ batch[r][i] \in Jobs
        BY <2>1, LenProperties DEF ControlOK, TypeOK
      <3>2. scan[r][batch[r][i]] = jobs[batch[r][i]] /\ jobs[batch[r][i]] \in JobRows
        BY <3>1 DEF ClaimReadsStayCurrent, TypeOK
      <3>3. AdvancedRow(r, batch[r][i]).status = jobs[batch[r][i]].status
        BY <3>2 DEF AdvancedRow, JobRows
      <3>4. QED
        BY <3>1, <3>3 DEF AllActive
    <2>4. CASE e \notin DOMAIN claims
      <3> HIDE DEF n, k
      <3>1. e - n \in 1 .. k /\ n + (e - n) = e
        BY <2>1, <2>4
      <3>2. QED
        BY <2>1, <2>3, <3>1
    <2>5. QED
      BY <2>2, <2>4
  <1>3. QED
    BY <1>1, <1>2

\* The other steps leave the batches alone or empty the one of their replica.
LEMMA BatchesStayDistinct ==
  ASSUME TypeOK, BatchesDistinct, [Next]_vars, NEW s \in Replicas
  PROVE  Distinct(batch'[s])
  <1>1. CASE batch'[s] = batch[s] \/ batch'[s] = <<>>
    BY <1>1 DEF BatchesDistinct, Distinct
  <1>2. ASSUME NEW r \in Replicas, AdvanceNextRun(r) PROVE Distinct(batch'[s])
    <2> DEFINE S == {j \in DOMAIN scan[r] : Parses(scan[r][j].schedule)}
    <2>1. PICK q \in InDueOrder(S, scan[r]) : batch' = [batch EXCEPT ![r] = q]
      BY <1>2 DEF AdvanceNextRun, Advanced, Parsing
    <2>2. Distinct(q)
      <3> HIDE DEF S
      <3>1. DOMAIN q \subseteq Int /\ \A i, k \in DOMAIN q : i < k => q[i] # q[k]
        BY <2>1 DEF InDueOrder
      <3>2. QED
        BY <3>1 DEF Distinct
    <2>3. batch'[s] = q \/ batch'[s] = batch[s]
      BY <2>1 DEF TypeOK
    <2>4. QED
      BY <1>1, <2>2, <2>3
  <1>3. ASSUME NEW r \in Replicas,
               CommitClaim(r) \/ LoseCommit(r) \/ RollbackClaim(r) \/ Start(r) \/ Crash(r)
        PROVE  Distinct(batch'[s])
    <2>1. batch' = [batch EXCEPT ![r] = <<>>]
      BY <1>3 DEF CommitClaim, LoseCommit, RollbackClaim, Start, Crash, EndTransaction, ResetProcess
    <2>2. QED
      BY <1>1, <2>1 DEF TypeOK
  <1>4. CASE UNCHANGED batch
    BY <1>1, <1>4
  <1>5. CASE TimePasses \/ UNCHANGED vars
    BY <1>4, <1>5 DEF TimePasses, vars, claimVars
  <1>6. ASSUME NEW r \in Replicas,
               \/ Terminate(r) \/ RecoverStale(r) \/ GraceExpires(r) \/ Shutdown(r)
               \/ ScanDue(r) \/ Send(r) \/ AbandonOnShutdown(r) \/ Saturate(r) \/ MarkSaturated(r)
        PROVE  UNCHANGED batch
    BY <1>6 DEF Terminate, RecoverStale, GraceExpires, Shutdown, ExitLoop, Drained, Return,
                ScanDue, Send, AbandonOnShutdown, Saturate, MarkSaturated, claimVars
  <1>7. ASSUME NEW r \in Replicas, NEW w \in Workers, Work(r, w) PROVE UNCHANGED batch
    BY <1>7 DEF Work, Receive, FinishExecution, WriteBackJob, Notify, WorkerExits, claimVars
  <1>8. QED
    BY <1>2, <1>3, <1>4, <1>5, <1>6, <1>7 DEF Next, Tick

LEMMA BatchStep ==
  ASSUME SafetyInv, BatchOK, [Next]_vars
  PROVE  BatchOK'
  <1> DEFINE Active == /\ \A j \in Jobs : jobs'[j].status = "active"
                       /\ \A e \in DOMAIN claims' : claims'[e].row.status = "active"
  <1>1. TypeOK /\ ControlOK /\ ClaimReadsStayCurrent /\ BatchesDistinct /\ AllActive
    BY DEF SafetyInv, BatchOK
  <1>2. UNCHANGED <<jobs, claims>> => Active
    BY <1>1 DEF AllActive
  <1>3. ASSUME NEW r \in Replicas, CommitClaim(r) \/ LoseCommit(r) PROVE Active
    BY <1>1, <1>3, CommitActive DEF CommitClaim, LoseCommit
  <1>4. ASSUME NEW r \in Replicas, NEW w \in Workers, WriteBackJob(r, w) PROVE Active
    <2> DEFINE c == claims[worker[r][w].exec]
    <2>1. UNCHANGED claims
      BY <1>4 DEF WriteBackJob
    <2>2. worker[r][w].exec \in DOMAIN claims
      <3>1. Busy(r, w)
        BY <1>4 DEF WriteBackJob, Busy
      <3>2. QED
        BY <1>1, <3>1, BusyHasClaim, LenProperties DEF TypeOK
    <2>3. c.row.status = "active"
      BY <1>1, <2>2 DEF AllActive
    <2> HIDE DEF c
    <2>4. \A j \in Jobs : jobs'[j] = jobs[j] \/ jobs'[j] = c.row
      BY <1>1, <1>4 DEF WriteBackJob, TypeOK, c
    <2>5. QED
      BY <1>1, <2>1, <2>3, <2>4 DEF AllActive
  <1>5. Active
    <2>1. CASE TimePasses \/ UNCHANGED vars
      BY <1>2, <2>1 DEF TimePasses, vars, dbVars
    <2>2. ASSUME NEW r \in Replicas,
                 \/ Start(r) \/ Crash(r) \/ Terminate(r) \/ RecoverStale(r)
                 \/ GraceExpires(r) \/ Shutdown(r)
          PROVE  UNCHANGED <<jobs, claims>>
      BY <2>2 DEF Start, Crash, Terminate, RecoverStale, GraceExpires, Shutdown, ExitLoop,
                  Drained, Return, dbVars
    <2>3. ASSUME NEW r \in Replicas, Tick(r) PROVE Active
      <3>1. CASE \/ ScanDue(r) \/ AdvanceNextRun(r) \/ RollbackClaim(r) \/ Send(r)
                 \/ AbandonOnShutdown(r) \/ Saturate(r) \/ MarkSaturated(r)
        BY <1>2, <3>1 DEF ScanDue, AdvanceNextRun, RollbackClaim, Send, AbandonOnShutdown,
                          Saturate, MarkSaturated, dbVars
      <3>2. QED
        BY <1>3, <2>3, <3>1 DEF Tick
    <2>4. ASSUME NEW r \in Replicas, NEW w \in Workers, Work(r, w) PROVE Active
      <3>1. CASE Receive(r, w) \/ FinishExecution(r, w) \/ Notify(r, w) \/ WorkerExits(r, w)
        BY <1>2, <3>1 DEF Receive, FinishExecution, Notify, WorkerExits, dbVars
      <3>2. QED
        BY <1>4, <2>4, <3>1 DEF Work
    <2>5. QED
      BY <1>2, <2>1, <2>2, <2>3, <2>4 DEF Next
  <1>6. QED
    BY <1>1, <1>5, BatchesStayDistinct DEF BatchOK, BatchesDistinct, AllActive

LEMMA LedgerInvariant == Spec => [](SafetyInv /\ DrainInv /\ BatchOK)
  <1>1. Init => BatchOK
    BY DEF Init, Fresh, BatchOK, BatchesDistinct, AllActive, NewJob, Distinct
  <1>2. SafetyInv /\ DrainInv /\ BatchOK /\ [Next]_vars => BatchOK'
    BY BatchStep
  <1>3. QED
    BY <1>1, <1>2, PipelineInvariant, PTL DEF Spec

-----------------------------------------------------------------------------
(* The stages.                                                              *)

InHand(e)   == \E r \in Replicas : e \in Unsaved(r)
OnReport(e) == \E r \in Replicas, w \in Workers : AtReport(r, w) /\ worker[r][w].exec = e

LEMMA BusyIs ==
  \A r \in Replicas, w \in Workers : /\ Busy(r, w) <=> Running(r, w) \/ AtReport(r, w)
                                     /\ (Busy(r, w) <=> Running(r, w) \/ AtReport(r, w))'
  BY DEF Busy, Running, AtReport

LEMMA StageIs ==
  ASSUME NEW e
  PROVE  /\ Stage(e) = IF InHand(e) THEN "held" ELSE IF OnReport(e) THEN "reporting" ELSE "closed"
         /\ Stage(e)' = IF InHand(e)' THEN "held"
                        ELSE IF OnReport(e)' THEN "reporting" ELSE "closed"
  <1>1. ~InHand(e) => (OnReport(e) <=> \E r \in Replicas : e \in BusyWith(r))
    BY BusyIs DEF InHand, OnReport, BusyWith, Unsaved, RunningWith
  <1>2. ~InHand(e)' => (OnReport(e)' <=> \E r \in Replicas : e \in BusyWith(r)')
    BY BusyIs DEF InHand, OnReport, BusyWith, Unsaved, RunningWith
  <1>3. QED
    BY <1>1, <1>2 DEF Stage, InHand

LEMMA SameStage ==
  ASSUME NEW e, InHand(e)' <=> InHand(e), OnReport(e)' <=> OnReport(e)
  PROVE  Stage(e)' = Stage(e)
  BY StageIs

\* What the ledger sees of an execution.
LEMMA EntryIs ==
  /\ \A e \in DOMAIN executions : LedgerEntries[e] =
       [job |-> executions[e].job, outcome |-> executions[e].status, stage |-> Stage(e)]
  /\ \A e \in DOMAIN executions' : LedgerEntries'[e] =
       [job |-> executions'[e].job, outcome |-> executions'[e].status, stage |-> Stage(e)']
  /\ DOMAIN LedgerEntries = DOMAIN executions
  /\ DOMAIN LedgerEntries' = DOMAIN executions'
  BY DEF LedgerEntries

StatusesKept == \A j \in Jobs : jobs'[j].status = jobs[j].status

LEMMA EntriesKept ==
  ASSUME UNCHANGED executions, \A e \in DOMAIN executions : Stage(e)' = Stage(e)
  PROVE  LedgerEntries' = LedgerEntries
  BY DEF LedgerEntries

\* A step that changes no row, no stage and no notification is none of the ledger's.
LEMMA Unseen ==
  ASSUME StatusesKept, UNCHANGED <<executions, dispatched>>,
         \A e \in DOMAIN executions : Stage(e)' = Stage(e)
  PROVE  UNCHANGED L!ledgerVars
  <1>1. LedgerEntries' = LedgerEntries
    BY EntriesKept
  <1>2. [j \in Jobs |-> jobs'[j].status] = [j \in Jobs |-> jobs[j].status]
    BY DEF StatusesKept
  <1>3. QED
    BY <1>1, <1>2 DEF L!ledgerVars

\* A step that writes the row of one execution and moves it to another stage.
LEMMA OneEntry ==
  ASSUME NEW x \in DOMAIN executions, DOMAIN executions' = DOMAIN executions,
         \A d \in DOMAIN executions : d # x => executions'[d] = executions[d] /\ Stage(d)' = Stage(d),
         executions'[x].job = executions[x].job
  PROVE  LedgerEntries' = [LedgerEntries EXCEPT ![x].stage = Stage(x)', ![x].outcome = executions'[x].status]
  <1> DEFINE next == [LedgerEntries EXCEPT ![x].stage = Stage(x)', ![x].outcome = executions'[x].status]
  <1>1. DOMAIN LedgerEntries' = DOMAIN executions /\ DOMAIN next = DOMAIN executions
    BY EntryIs
  <1>2. ASSUME NEW d \in DOMAIN executions, d # x PROVE LedgerEntries'[d] = next[d]
    BY <1>1, <1>2, EntryIs
  <1>3. LedgerEntries'[x] = next[x]
    <2> DEFINE old == LedgerEntries[x]
    <2>1. next[x] = [[old EXCEPT !.stage = Stage(x)'] EXCEPT !.outcome = executions'[x].status]
      BY <1>1
    <2>2. old = [job |-> executions[x].job, outcome |-> executions[x].status, stage |-> Stage(x)]
      BY EntryIs
    <2>3. LedgerEntries'[x] =
            [job |-> executions'[x].job, outcome |-> executions'[x].status, stage |-> Stage(x)']
      BY EntryIs
    <2> HIDE DEF old, next
    <2>4. QED
      BY <2>1, <2>2, <2>3
  <1>4. LedgerEntries' = [d \in DOMAIN executions |-> LedgerEntries'[d]]
    BY DEF LedgerEntries
  <1>5. next = [d \in DOMAIN executions |-> next[d]]
    BY <1>1
  <1> HIDE DEF next
  <1>6. QED
    BY <1>2, <1>3, <1>4, <1>5 DEF next

-----------------------------------------------------------------------------
(* Steps the ledger does not see.                                           *)

SameReporters ==
  \A r \in Replicas, w \in Workers :
    /\ AtReport(r, w)' <=> AtReport(r, w)
    /\ AtReport(r, w) => worker'[r][w].exec = worker[r][w].exec

LEMMA StagesKept ==
  ASSUME \A s \in Replicas : Unsaved(s)' = Unsaved(s), SameReporters, NEW e
  PROVE  Stage(e)' = Stage(e)
  <1>1. InHand(e)' <=> InHand(e)
    BY DEF InHand
  <1>2. OnReport(e)' <=> OnReport(e)
    BY DEF OnReport, SameReporters
  <1>3. QED
    BY <1>1, <1>2, SameStage

\* Between the hands of one replica a claim stays with the replica.
LEMMA HandOverIsUnseen ==
  ASSUME TypeOK, ControlOK, StatusesKept, NEW r \in Replicas,
         Send(r) \/ \E w \in Workers : Receive(r, w)
  PROVE  UNCHANGED L!ledgerVars
  <1>1. UNCHANGED <<executions, dispatched>>
    BY DEF Send, Receive, dbVars
  <1>2. \A s \in Replicas : Unsaved(s)' = Unsaved(s)
    BY SendShrinks, SendKeeps, ReceiveShrinks, ReceiveKeeps
  <1>3. SameReporters
    <2>1. CASE Send(r)
      BY <2>1 DEF Send, SameReporters, AtReport
    <2>2. ASSUME NEW w \in Workers, Receive(r, w) PROVE SameReporters
      <3>1. ~AtReport(r, w) /\ ~AtReport(r, w)'
        <4>1. \E rec : rec.pc \in {"executing", "cancelled"} /\ SetWorker(r, w, rec)
          BY <2>2 DEF Receive
        <4>2. worker'[r][w].pc \in {"executing", "cancelled"}
          BY <4>1, SetWorkerFrame
        <4>3. QED
          BY <2>2, <4>2 DEF Receive, AtReport
      <3>2. \A s \in Replicas, v \in Workers : s # r \/ v # w => worker'[s][v] = worker[s][v]
        BY <2>2, WorkFrame DEF Work
      <3>3. QED
        BY <3>1, <3>2 DEF SameReporters, AtReport
    <2>3. QED
      BY <2>1, <2>2
  <1>4. QED
    BY <1>1, <1>2, <1>3, StagesKept, Unseen

LEMMA WriteBackStages ==
  ASSUME TypeOK, ControlOK, NEW r \in Replicas, NEW w \in Workers,
         WriteBackJob(r, w) \/ WorkerExits(r, w)
  PROVE  UNCHANGED <<executions, dispatched>> /\ \A e : Stage(e)' = Stage(e)
  <1>1. UNCHANGED <<pending, jobChan, executions, dispatched>>
    BY DEF WriteBackJob, WorkerExits, dbVars
  <1>2. \A s \in Replicas, v \in Workers : s # r \/ v # w => worker'[s][v] = worker[s][v]
    BY WorkFrame DEF Work
  <1>3. /\ ~Running(r, w) /\ ~Running(r, w)' /\ (AtReport(r, w)' <=> AtReport(r, w))
        /\ AtReport(r, w) => worker'[r][w].exec = worker[r][w].exec
    <2>1. CASE WriteBackJob(r, w)
      <3> DEFINE next == [worker[r][w] EXCEPT !.pc = "notifying"]
      <3>1. worker[r][w] \in [pc : WorkerPCs, exec : 0 .. Len(executions), status : ExecStatuses]
        BY DEF TypeOK
      <3>2. next.pc = "notifying" /\ next.exec = worker[r][w].exec
        BY <3>1
      <3>3. SetWorker(r, w, next) /\ worker[r][w].pc = "writing"
        BY <2>1 DEF WriteBackJob
      <3>4. worker'[r][w] = next
        BY <3>3, SetWorkerFrame
      <3> HIDE DEF next
      <3>5. QED
        BY <3>2, <3>3, <3>4 DEF AtReport, Running
    <2>2. CASE WorkerExits(r, w)
      <3>1. \E rec : rec.pc = "exited" /\ SetWorker(r, w, rec)
        BY <2>2 DEF WorkerExits, IdleWorker
      <3>2. worker'[r][w].pc = "exited" /\ worker[r][w].pc = "idle"
        BY <2>2, <3>1, SetWorkerFrame DEF WorkerExits
      <3>3. QED
        BY <3>2 DEF AtReport, Running
    <2>3. QED
      BY <2>1, <2>2
  <1>4. SameReporters
    BY <1>2, <1>3 DEF SameReporters, AtReport
  <1>5. \A s \in Replicas : Unsaved(s)' = Unsaved(s)
    <2>1. ASSUME NEW s \in Replicas, NEW v \in Workers
          PROVE  /\ Running(s, v)' <=> Running(s, v)
                 /\ Running(s, v) => worker'[s][v].exec = worker[s][v].exec
      BY <1>2, <1>3 DEF Running
    <2>2. ASSUME NEW s \in Replicas PROVE Unsaved(s)' \subseteq Unsaved(s)
      BY <1>1, <2>1, UnsavedSame
    <2>3. ASSUME NEW s \in Replicas PROVE Unsaved(s) \subseteq Unsaved(s)'
      BY <1>1, <2>1, UnsavedKept
    <2>4. QED
      BY <2>2, <2>3
  <1>6. QED
    BY <1>1, <1>4, <1>5, StagesKept

\* Steps that leave the lists, the channels and the workers alone.
LEMMA ControlIsUnseen ==
  ASSUME StatusesKept, UNCHANGED <<executions, dispatched, pending, jobChan, worker>>
  PROVE  UNCHANGED L!ledgerVars
  <1>1. \A s \in Replicas : Unsaved(s)' = Unsaved(s)
    BY DEF Unsaved, Elements, RunningWith, Running
  <1>2. SameReporters
    BY DEF SameReporters, AtReport
  <1>3. QED
    BY <1>1, <1>2, StagesKept, Unseen

\* A process that starts has nothing in hand.
LEMMA StartIsUnseen ==
  ASSUME TypeOK, ControlOK, DrainInv, StatusesKept, NEW r \in Replicas, Start(r)
  PROVE  UNCHANGED L!ledgerVars
  <1>1. UNCHANGED <<executions, dispatched>>
    BY DEF Start, dbVars
  <1>2. /\ \A s \in Replicas : s # r =>
              pending'[s] = pending[s] /\ jobChan'[s] = jobChan[s] /\ worker'[s] = worker[s]
        /\ pending'[r] = <<>> /\ jobChan'[r] = <<>> /\ \A w \in Workers : worker'[r][w].pc = "idle"
    BY DEF Start, ResetProcess, IdleWorker, TypeOK
  <1>3. Unsaved(r) = {} /\ Unsaved(r)' = {}
    <2>1. Unsaved(r) = {}
      BY NothingToSave DEF Start
    <2>2. Unsaved(r)' = {}
      BY <1>2 DEF Unsaved, Elements, RunningWith, Running
    <2>3. QED
      BY <2>1, <2>2
  <1>4. \A w \in Workers : ~AtReport(r, w) /\ ~AtReport(r, w)'
    BY <1>2 DEF Start, DrainInv, DrainOK, AllExited, AtReport
  <1>5. ASSUME NEW s \in Replicas PROVE Unsaved(s)' = Unsaved(s)
    <2>1. CASE s # r
      BY <1>2, <2>1 DEF Unsaved, Elements, RunningWith, Running
    <2>2. QED
      BY <1>3, <2>1
  <1>6. SameReporters
    BY <1>2, <1>4 DEF SameReporters, AtReport
  <1>7. QED
    BY <1>1, <1>5, <1>6, StagesKept, Unseen

-----------------------------------------------------------------------------
(* Steps the ledger sees.                                                   *)

\* Who has an execution in hand does not report it, and one worker reports it.
LEMMA OneKeeper ==
  ASSUME SafetyInv, NEW r \in Replicas, NEW e
  PROVE  /\ e \in Unsaved(r) => ~OnReport(e)
         /\ \A w \in Workers : AtReport(r, w) /\ worker[r][w].exec = e =>
              /\ ~InHand(e)
              /\ \A s \in Replicas, v \in Workers :
                   AtReport(s, v) /\ worker[s][v].exec = e => s = r /\ v = w
  <1>1. AtMostOneHolder
    BY OrderGivesOneHolder DEF SafetyInv
  <1>2. ASSUME NEW s \in Replicas, NEW w \in Workers, AtReport(s, w), worker[s][w].exec = e
        PROVE  e \in BusyWith(s) /\ e \in Held(s)
    BY <1>2, BusyIs DEF BusyWith, Held
  <1>3. ASSUME NEW s \in Replicas, NEW w \in Workers, AtReport(s, w), worker[s][w].exec = e,
               NEW u \in Replicas, e \in Unsaved(u)
        PROVE  FALSE
    <2>1. e \in Held(u)
      BY <1>3, UnsavedHeld
    <2>2. s = u
      BY <1>1, <1>2, <1>3, <2>1 DEF AtMostOneHolder, HeldApart
    <2>3. e \notin Elements(pending[s]) \cup Elements(jobChan[s])
      BY <1>1, <1>2, <1>3 DEF AtMostOneHolder
    <2>4. PICK v \in Workers : Running(s, v) /\ worker[s][v].exec = e
      BY <1>3, <2>2, <2>3 DEF Unsaved, RunningWith
    <2>5. Busy(s, v) /\ Busy(s, w)
      BY <1>3, <2>4, BusyIs
    <2>6. v = w
      BY <1>1, <1>3, <2>4, <2>5 DEF AtMostOneHolder
    <2>7. QED
      BY <1>3, <2>4, <2>6 DEF Running, AtReport
  <1>4. ASSUME NEW w \in Workers, AtReport(r, w), worker[r][w].exec = e,
               NEW s \in Replicas, NEW v \in Workers, AtReport(s, v), worker[s][v].exec = e
        PROVE  s = r /\ v = w
    <2>1. s = r
      BY <1>1, <1>2, <1>4 DEF AtMostOneHolder, HeldApart
    <2>2. Busy(r, v) /\ Busy(r, w)
      BY <1>4, <2>1, BusyIs
    <2>3. QED
      BY <1>1, <1>4, <2>1, <2>2 DEF AtMostOneHolder
  <1>5. QED
    BY <1>3, <1>4 DEF OnReport, InHand

\* The abstract jobs do not change.
LEMMA SameJobs ==
  ASSUME StatusesKept
  PROVE  [j \in Jobs |-> jobs'[j].status] = [j \in Jobs |-> jobs[j].status]
  BY DEF StatusesKept

\* A save stores the outcome, or leaves the row as it was.
LEMMA SaveStores ==
  ASSUME TypeOK, NEW x \in DOMAIN executions, NEW status \in ExecStatuses, NEW reason \in Reasons,
         NEW fault, SaveOutcome(x, status, reason, fault)
  PROVE  /\ DOMAIN executions' = DOMAIN executions
         /\ \A d \in DOMAIN executions : d # x => executions'[d] = executions[d]
         /\ executions'[x].job = executions[x].job
         /\ executions'[x].status \in L!MayStore(LedgerEntries[x], status)
  <1> DEFINE old == executions[x]
             new == WithOutcome(old, status, reason)
  <1>1. old \in ExecRows
    BY DEF TypeOK
  <1>2. /\ new.job = old.job
        /\ new.status = IF old.status = "deleted" THEN old.status ELSE status
    BY <1>1 DEF WithOutcome, ExecRows
  <1>3. executions' = [executions EXCEPT ![x] = new] \/ UNCHANGED executions
    BY DEF SaveOutcome
  <1>4. LedgerEntries[x].outcome = old.status
    BY EntryIs
  <1>5. L!MayStore(LedgerEntries[x], status) =
          {old.status} \cup (IF old.status = "deleted" THEN {} ELSE {status})
    BY <1>4 DEF L!MayStore
  <1> HIDE DEF new
  <1>6. QED
    BY <1>2, <1>3, <1>5

LEMMA MarkIsGiveUp ==
  ASSUME SafetyInv, StatusesKept, NEW r \in Replicas, AbandonOnShutdown(r) \/ MarkSaturated(r)
  PROVE  \E e \in DOMAIN LedgerEntries : L!GiveUp(e)
  <1>1. TypeOK /\ ControlOK /\ InClaimOrder /\ HeldApart
    BY DEF SafetyInv
  <1>2. PICK x : x = Head(pending[r])
    OBVIOUS
  <1>3. /\ x \in Unsaved(r) /\ x \in DOMAIN executions
        /\ \A s \in Replicas : Unsaved(s)' \subseteq Unsaved(s) /\ x \notin Unsaved(s)'
        /\ \/ UNCHANGED executions
           \/ SaveOutcome(x, "error", "shutdown", "mark")
           \/ SaveOutcome(x, "error", "saturated", "mark")
    BY <1>1, <1>2, MarkedIsLetGo
  <1>4. /\ UNCHANGED <<jobChan, worker, dispatched>>
        /\ pending' = [pending EXCEPT ![r] = Tail(pending[r])]
    BY DEF AbandonOnShutdown, MarkSaturated, Rest
  <1>5. /\ DOMAIN executions' = DOMAIN executions
        /\ \A d \in DOMAIN executions : d # x => executions'[d] = executions[d]
        /\ executions'[x].job = executions[x].job
        /\ executions'[x].status \in L!MayStore(LedgerEntries[x], "error")
    <2>1. executions[x].status \in L!MayStore(LedgerEntries[x], "error")
      BY <1>3, EntryIs DEF L!MayStore
    <2>2. CASE UNCHANGED executions
      BY <2>1, <2>2
    <2>3. CASE ~UNCHANGED executions
      BY <1>1, <1>3, <2>3, SaveStores DEF ExecStatuses, Reasons
    <2>4. QED
      BY <2>2, <2>3
  <1>6. \A e : OnReport(e)' <=> OnReport(e)
    BY <1>4 DEF OnReport, AtReport
  <1>7. Stage(x) = "held" /\ Stage(x)' = "closed"
    <2>1. InHand(x) /\ ~InHand(x)' /\ ~OnReport(x)
      BY <1>3, OneKeeper DEF InHand
    <2>2. QED
      BY <1>6, <2>1, StageIs
  <1>8. ASSUME NEW d \in DOMAIN executions, d # x PROVE Stage(d)' = Stage(d)
    <2>1. ASSUME NEW s \in Replicas, d \in Unsaved(s) PROVE d \in Unsaved(s)'
      <3>1. CASE s # r
        BY <1>1, <1>4, <2>1, <3>1 DEF TypeOK, Unsaved, RunningWith, Running
      <3>2. CASE s = r
        <4>1. pending'[r] = Tail(pending[r]) /\ pending[r] # <<>> /\ pending[r] \in Seq(1 .. Len(executions))
          <5>1. loop[r] \in {"dispatching", "marking"}
            BY DEF AbandonOnShutdown, MarkSaturated
          <5>2. QED
            BY <1>1, <1>4, <5>1, HandedOver DEF TypeOK
        <4>2. Elements(pending[r]) \subseteq Elements(Tail(pending[r])) \cup {x}
          BY <1>2, <4>1, TailKeeps
        <4>3. QED
          BY <1>4, <1>8, <2>1, <3>2, <4>1, <4>2 DEF Unsaved, RunningWith, Running
      <3>3. QED
        BY <3>1, <3>2
    <2>2. InHand(d)' <=> InHand(d)
      BY <1>3, <2>1 DEF InHand
    <2>3. QED
      BY <1>6, <2>2, SameStage
  <1>9. LedgerEntries' = [LedgerEntries EXCEPT ![x].stage = "closed", ![x].outcome = executions'[x].status]
    BY <1>3, <1>5, <1>7, <1>8, OneEntry
  <1>10. x \in DOMAIN LedgerEntries /\ LedgerEntries[x].stage = "held"
    BY <1>3, <1>7, EntryIs
  <1>11. L!GiveUp(x)
    BY <1>4, <1>5, <1>9, <1>10, SameJobs DEF L!GiveUp, L!SetStage
  <1>12. QED
    BY <1>10, <1>11

LEMMA FinishIsSettle ==
  ASSUME SafetyInv, StatusesKept, NEW r \in Replicas, NEW w \in Workers, FinishExecution(r, w)
  PROVE  \E e \in DOMAIN LedgerEntries : L!Settle(e)
  <1>1. TypeOK /\ ControlOK /\ InClaimOrder /\ HeldApart
    BY DEF SafetyInv
  <1>2. PICK x : x = worker[r][w].exec
    OBVIOUS
  <1>3. /\ x \in Unsaved(r) /\ x \in DOMAIN executions
        /\ \A s \in Replicas : Unsaved(s)' \subseteq Unsaved(s) /\ x \notin Unsaved(s)'
    BY <1>1, <1>2, FinishedIsLetGo
  <1>4. PICK status \in Terminal :
          /\ SaveOutcome(x, status, "executor", "save")
          /\ SetWorker(r, w, [pc |-> "writing", exec |-> x, status |-> status])
    BY <1>2, OutcomesAreTerminal DEF FinishExecution
  <1>5. /\ UNCHANGED <<pending, jobChan, dispatched>>
        /\ \A s \in Replicas, v \in Workers : s # r \/ v # w => worker'[s][v] = worker[s][v]
        /\ worker'[r][w] = [pc |-> "writing", exec |-> x, status |-> status]
        /\ Running(r, w) /\ ~AtReport(r, w)
    BY <1>1, <1>4, SetWorkerFrame DEF FinishExecution, Running, AtReport
  <1>6. /\ DOMAIN executions' = DOMAIN executions
        /\ \A d \in DOMAIN executions : d # x => executions'[d] = executions[d]
        /\ executions'[x].job = executions[x].job
        /\ executions'[x].status \in L!MayStore(LedgerEntries[x], status)
    BY <1>1, <1>3, <1>4, SaveStores DEF Terminal, ExecStatuses, Reasons
  <1>7. Stage(x) = "held" /\ Stage(x)' = "reporting"
    <2>1. InHand(x) /\ ~InHand(x)'
      BY <1>3 DEF InHand
    <2>2. OnReport(x)'
      BY <1>5 DEF OnReport, AtReport
    <2>3. QED
      BY <2>1, <2>2, StageIs
  <1>8. ASSUME NEW d \in DOMAIN executions, d # x PROVE Stage(d)' = Stage(d)
    <2>1. \A s \in Replicas : d \in Unsaved(s) => d \in Unsaved(s)'
      BY <1>2, <1>5, <1>8 DEF Unsaved, RunningWith, Running, Elements
    <2>2. InHand(d)' <=> InHand(d)
      BY <1>3, <2>1 DEF InHand
    <2>3. OnReport(d)' <=> OnReport(d)
      BY <1>5, <1>8 DEF OnReport, AtReport
    <2>4. QED
      BY <2>2, <2>3, SameStage
  <1>9. LedgerEntries' = [LedgerEntries EXCEPT ![x].stage = "reporting", ![x].outcome = executions'[x].status]
    BY <1>3, <1>6, <1>7, <1>8, OneEntry
  <1>10. x \in DOMAIN LedgerEntries /\ LedgerEntries[x].stage = "held"
    BY <1>3, <1>7, EntryIs
  <1>11. L!Settle(x)
    BY <1>5, <1>6, <1>9, <1>10, SameJobs DEF L!Settle, L!SetStage, L!Outcomes, Terminal
  <1>12. QED
    BY <1>10, <1>11

LEMMA NotifyIsReport ==
  ASSUME SafetyInv, StatusesKept, NEW r \in Replicas, NEW w \in Workers, Notify(r, w)
  PROVE  \E e \in DOMAIN LedgerEntries : L!Report(e)
  <1>1. TypeOK /\ ControlOK
    BY DEF SafetyInv
  <1>2. PICK x : x = worker[r][w].exec
    OBVIOUS
  <1>3. /\ AtReport(r, w) /\ x \in DOMAIN executions
        /\ dispatched' \in {dispatched, dispatched \cup {x}}
    BY <1>1, <1>2, BusyIs DEF Notify, AtReport, ControlOK
  <1>4. /\ UNCHANGED <<pending, jobChan, executions>>
        /\ \A s \in Replicas, v \in Workers : s # r \/ v # w => worker'[s][v] = worker[s][v]
        /\ worker'[r][w].pc = "idle" /\ ~Running(r, w)
    BY <1>1, SetWorkerFrame DEF Notify, IdleWorker, Running, dbVars
  <1>5. \A e : InHand(e)' <=> InHand(e)
    <2>1. ASSUME NEW s \in Replicas, NEW v \in Workers
          PROVE  /\ Running(s, v)' <=> Running(s, v)
                 /\ Running(s, v) => worker'[s][v].exec = worker[s][v].exec
      BY <1>4 DEF Running
    <2>2. ASSUME NEW s \in Replicas PROVE Unsaved(s)' \subseteq Unsaved(s)
      BY <1>4, <2>1, UnsavedSame
    <2>3. ASSUME NEW s \in Replicas PROVE Unsaved(s) \subseteq Unsaved(s)'
      BY <1>4, <2>1, UnsavedKept
    <2>4. QED
      BY <2>2, <2>3 DEF InHand
  <1>6. Stage(x) = "reporting" /\ Stage(x)' = "closed"
    <2>1. /\ ~InHand(x) /\ OnReport(x)
          /\ \A s \in Replicas, v \in Workers :
               AtReport(s, v) /\ worker[s][v].exec = x => s = r /\ v = w
      BY <1>2, <1>3, OneKeeper DEF OnReport
    <2>2. ~OnReport(x)'
      BY <1>4, <2>1 DEF OnReport, AtReport
    <2>3. QED
      BY <1>5, <2>1, <2>2, StageIs
  <1>7. ASSUME NEW d \in DOMAIN executions, d # x PROVE Stage(d)' = Stage(d)
    <2>1. OnReport(d)' <=> OnReport(d)
      BY <1>2, <1>4, <1>7 DEF OnReport, AtReport
    <2>2. QED
      BY <1>5, <2>1, SameStage
  <1>8. LedgerEntries' = [LedgerEntries EXCEPT ![x].stage = "closed", ![x].outcome = executions[x].status]
    BY <1>3, <1>4, <1>6, <1>7, OneEntry
  <1>9. /\ x \in DOMAIN LedgerEntries /\ LedgerEntries[x].stage = "reporting"
        /\ LedgerEntries[x].outcome = executions[x].status
    BY <1>3, <1>6, EntryIs
  <1>10. L!Report(x)
    BY <1>3, <1>8, <1>9, SameJobs DEF L!Report, L!SetStage
  <1>11. QED
    BY <1>9, <1>10

LEMMA RecoverIsPresume ==
  ASSUME TypeOK, StatusesKept, NEW r \in Replicas, RecoverStale(r)
  PROVE  L!Presume \/ UNCHANGED L!ledgerVars
  <1>1. UNCHANGED <<pending, jobChan, worker, dispatched>>
    BY DEF RecoverStale
  <1>2. CASE UNCHANGED executions
    BY <1>1, <1>2, ControlIsUnseen
  <1>3. ASSUME NEW t \in ReplicaTimes,
               executions' = [e \in DOMAIN executions |->
                 IF Stale(executions[e], t) THEN WithOutcome(executions[e], "error", "stale")
                 ELSE executions[e]]
        PROVE  L!Presume \/ UNCHANGED L!ledgerVars
    <2> DEFINE S == {e \in DOMAIN executions : Stale(executions[e], t)}
               next == [e \in DOMAIN LedgerEntries |->
                          IF e \in S THEN [LedgerEntries[e] EXCEPT !.outcome = "error"]
                          ELSE LedgerEntries[e]]
    <2>1. executions' = [e \in DOMAIN executions |->
             IF Stale(executions[e], t) THEN WithOutcome(executions[e], "error", "stale")
             ELSE executions[e]]
      BY <1>3
    <2>2. \A e : Stage(e)' = Stage(e)
      BY <1>1 DEF Stage, Unsaved, Elements, RunningWith, Running, BusyWith, Busy
    <2>3. ASSUME NEW e \in DOMAIN executions PROVE LedgerEntries'[e] = next[e]
      <3>1. executions[e] \in ExecRows
        BY DEF TypeOK
      <3>2. e \in DOMAIN executions' /\ e \in DOMAIN LedgerEntries
        BY <2>1, EntryIs
      <3>3. CASE e \in S
        <4>1. executions[e].status = "running"
          BY <3>3 DEF Stale
        <4>2. executions'[e] = WithOutcome(executions[e], "error", "stale")
          BY <2>1, <3>3
        <4>3. executions'[e].job = executions[e].job /\ executions'[e].status = "error"
          BY <3>1, <4>1, <4>2 DEF WithOutcome, ExecRows
        <4>4. next[e] = [LedgerEntries[e] EXCEPT !.outcome = "error"]
          BY <3>2, <3>3
        <4> HIDE DEF next, S
        <4>5. QED
          BY <2>2, <3>2, <4>3, <4>4, EntryIs
      <3>4. CASE e \notin S
        <4>1. executions'[e] = executions[e]
          BY <2>1, <3>4
        <4>2. next[e] = LedgerEntries[e]
          BY <3>2, <3>4
        <4> HIDE DEF next, S
        <4>3. QED
          BY <2>2, <3>2, <4>1, <4>2, EntryIs
      <3>5. QED
        BY <3>3, <3>4
    <2>4. LedgerEntries' = next
      <3>1. DOMAIN executions' = DOMAIN executions
        BY <2>1
      <3>2. LedgerEntries' = [e \in DOMAIN executions |-> LedgerEntries'[e]]
        BY <3>1 DEF LedgerEntries
      <3>3. next = [e \in DOMAIN executions |-> next[e]]
        BY EntryIs
      <3> HIDE DEF next
      <3>4. QED
        BY <2>3, <3>2, <3>3
    <2>5. S \in SUBSET {e \in DOMAIN LedgerEntries : LedgerEntries[e].outcome = "running"}
      BY EntryIs DEF Stale
    <2> HIDE DEF S
    <2>6. L!Presume
      BY <1>1, <2>4, <2>5, SameJobs DEF L!Presume
    <2>7. QED
      BY <2>6
  <1>4. QED
    BY <1>2, <1>3 DEF RecoverStale

LEMMA CrashIsDie ==
  ASSUME SafetyInv, StatusesKept, NEW r \in Replicas, Crash(r)
  PROVE  L!Die
  <1> DEFINE S == {e \in DOMAIN executions : e \in Held(r)}
             next == [e \in DOMAIN LedgerEntries |->
                        IF e \in S THEN [LedgerEntries[e] EXCEPT !.stage = "closed"]
                        ELSE LedgerEntries[e]]
  <1>1. TypeOK /\ HeldApart
    BY DEF SafetyInv
  <1>2. UNCHANGED <<executions, dispatched>>
    BY DEF Crash, dbVars
  <1>3. /\ \A s \in Replicas : s # r =>
              pending'[s] = pending[s] /\ jobChan'[s] = jobChan[s] /\ worker'[s] = worker[s]
        /\ pending'[r] = <<>> /\ jobChan'[r] = <<>> /\ \A w \in Workers : worker'[r][w].pc = "idle"
    BY <1>1 DEF Crash, ResetProcess, IdleWorker, TypeOK
  <1>4. Unsaved(r)' = {} /\ \A w \in Workers : ~AtReport(r, w)'
    BY <1>3 DEF Unsaved, Elements, RunningWith, Running, AtReport
  <1>5. ASSUME NEW s \in Replicas, s # r
        PROVE  /\ Unsaved(s)' = Unsaved(s)
               /\ \A w \in Workers : AtReport(s, w)' <=> AtReport(s, w)
    BY <1>3, <1>5 DEF Unsaved, Elements, RunningWith, Running, AtReport
  <1>6. \A s \in Replicas, w \in Workers : AtReport(s, w) => worker[s][w].exec \in Held(s)
    BY BusyIs DEF Held, BusyWith
  <1>7. ASSUME NEW e \in DOMAIN executions, e \in Held(r) PROVE Stage(e)' = "closed"
    <2>1. \A s \in Replicas : s # r => e \notin Held(s)
      BY <1>1, <1>7 DEF HeldApart
    <2>2. ~InHand(e)'
      BY <1>4, <1>5, <2>1, UnsavedHeld DEF InHand
    <2>3. ~OnReport(e)'
      BY <1>3, <1>4, <1>5, <1>6, <2>1 DEF OnReport
    <2>4. QED
      BY <2>2, <2>3, StageIs
  <1>8. ASSUME NEW e \in DOMAIN executions, e \notin Held(r) PROVE Stage(e)' = Stage(e)
    <2>1. InHand(e)' <=> InHand(e)
      BY <1>4, <1>5, <1>8, UnsavedHeld DEF InHand
    <2>2. OnReport(e)' <=> OnReport(e)
      BY <1>3, <1>4, <1>5, <1>6, <1>8 DEF OnReport
    <2>3. QED
      BY <2>1, <2>2, SameStage
  <1>9. ASSUME NEW e \in DOMAIN executions PROVE LedgerEntries'[e] = next[e]
    <2>1. e \in DOMAIN LedgerEntries /\ e \in DOMAIN executions'
      BY <1>2, EntryIs
    <2>2. next[e] = IF e \in Held(r) THEN [LedgerEntries[e] EXCEPT !.stage = "closed"]
                    ELSE LedgerEntries[e]
      BY <2>1
    <2> HIDE DEF next, S
    <2>3. QED
      BY <1>2, <1>7, <1>8, <2>1, <2>2, EntryIs
  <1>10. LedgerEntries' = next
    <2>1. LedgerEntries' = [e \in DOMAIN executions |-> LedgerEntries'[e]]
      BY <1>2 DEF LedgerEntries
    <2>2. next = [e \in DOMAIN executions |-> next[e]]
      BY EntryIs
    <2> HIDE DEF next
    <2>3. QED
      BY <1>9, <2>1, <2>2
  <1>11. S \in SUBSET DOMAIN LedgerEntries
    BY EntryIs
  <1> HIDE DEF S
  <1>12. QED
    BY <1>2, <1>10, <1>11, SameJobs DEF L!Die

LEMMA LedgerTyped ==
  ASSUME TypeOK
  PROVE  LedgerEntries \in Seq(L!Entries) /\ Len(LedgerEntries) = Len(executions)
  <1>1. /\ DOMAIN executions = 1 .. Len(executions) /\ Len(executions) \in Nat
        /\ \A e \in DOMAIN executions : executions[e] \in ExecRows
    BY LenProperties DEF TypeOK
  <1>2. \A e \in DOMAIN executions : LedgerEntries[e] \in L!Entries
    BY <1>1, EntryIs DEF ExecRows, ExecStatuses, Stage, L!Entries, L!Outcomes, L!Stages
  <1>3. LedgerEntries \in [1 .. Len(executions) -> L!Entries]
    BY <1>1, <1>2 DEF LedgerEntries
  <1>4. LedgerEntries \in Seq(L!Entries)
    BY <1>1, <1>3, SeqDef
  <1>5. QED
    BY <1>1, <1>3, <1>4, LenProperties

\* A batch is a sequence of active jobs, each once.
LEMMA BatchIsClaims ==
  ASSUME TypeOK, ControlOK, BatchesDistinct, LockedActive, NEW r \in Replicas
  PROVE  /\ batch[r] \in L!Claims
         /\ \A i \in DOMAIN batch[r] : jobs[batch[r][i]].status = "active"
         /\ \A i, k \in DOMAIN batch[r] : batch[r][i] = batch[r][k] => i = k
  <1> DEFINE q == batch[r]
             n == Len(q)
  <1>1. n \in Nat /\ DOMAIN q = 1 .. n /\ q \in [1 .. n -> Jobs]
    BY LenProperties DEF TypeOK
  <1>2. \A i, k \in DOMAIN q : q[i] = q[k] => i = k
    BY DEF BatchesDistinct, Distinct
  <1> HIDE DEF q, n
  <1>3. q \in Injection(1 .. n, Jobs)
    BY <1>1, <1>2 DEF Injection, IsInjective
  <1>4. Cardinality(1 .. n) <= Cardinality(Jobs)
    BY <1>3, FS_Injection, ConstantsAssumption
  <1>5. Cardinality(1 .. n) = n
    BY <1>1, FS_Interval
  <1>6. Cardinality(Jobs) \in Nat
    BY FS_CardinalityType, ConstantsAssumption
  <1>7. n \in 0 .. Cardinality(Jobs)
    BY <1>1, <1>4, <1>5, <1>6
  <1>8. q \in L!Claims
    BY <1>1, <1>7 DEF L!Claims, L!Cardinality, Cardinality
  <1>9. QED
    BY <1>1, <1>2, <1>8 DEF q, ControlOK, LockedActive

LEMMA CommitIsClaim ==
  ASSUME SafetyInv, BatchesDistinct, LockedActive, StatusesKept, NEW r \in Replicas, CommitClaim(r) \/ LoseCommit(r)
  PROVE  L!Claim
  <1> DEFINE q == batch[r]
             k == Len(q)
             added(st) == [i \in DOMAIN q |-> [job |-> q[i], outcome |-> "running", stage |-> st]]
  <1>1. TypeOK /\ ControlOK
    BY DEF SafetyInv
  <1>2. CommitWrites(r) /\ UNCHANGED <<jobChan, worker, dispatched>>
    BY DEF CommitClaim, LoseCommit
  <1>3. PICK n \in Nat :
        /\ n = Len(executions) /\ k \in Nat
        /\ DOMAIN executions = 1 .. n /\ DOMAIN executions' = 1 .. n + k
        /\ \A i \in 1 .. k : executions'[n + i] =
             [job |-> q[i], status |-> "running", error |-> "none", startedAt |-> claimedAt[r]]
        /\ \A e \in 1 .. n : executions'[e] = executions[e]
    <2>1. /\ Len(executions) \in Nat /\ k \in Nat
          /\ DOMAIN executions = 1 .. Len(executions)
          /\ DOMAIN executions' = 1 .. Len(executions) + k
          /\ \A i \in 1 .. k : executions'[Len(executions) + i] =
               [job |-> q[i], status |-> "running", error |-> "none", startedAt |-> claimedAt[r]]
      BY <1>1, <1>2, CommittedRows
    <2>2. \A e \in DOMAIN executions : executions'[e] = executions[e]
      BY <1>1, <1>2, CommitWritesTyped
    <2>3. \A e \in 1 .. Len(executions) : executions'[e] = executions[e]
      BY <2>1, <2>2
    <2> HIDE DEF q, k
    <2>4. QED
      BY <2>1, <2>3
  <1>4. DOMAIN q = 1 .. k
    BY <1>1, LenProperties DEF TypeOK
  <1>5. PICK st \in {"held", "closed"} :
          /\ \A e \in 1 .. n : Stage(e)' = Stage(e)
          /\ \A e \in 1 .. n + k : e > n => Stage(e)' = st
    <2>1. SameReporters
      BY <1>2 DEF SameReporters, AtReport
    <2>2. \A e : OnReport(e)' <=> OnReport(e)
      BY <2>1 DEF OnReport, SameReporters
    <2>3. \A s \in Replicas : Unsaved(s) \subseteq 1 .. n
      BY <1>1, <1>3, UnsavedHeld, HeldHasRow
    <2>4. \A e : OnReport(e) => e \in 1 .. n
      <3>1. ASSUME NEW s \in Replicas, NEW w \in Workers, AtReport(s, w)
            PROVE  worker[s][w].exec \in 1 .. n
        BY <1>1, <1>3, <3>1, BusyIs, BusyHasClaim
      <3>2. QED
        BY <3>1 DEF OnReport
    <2>5. CASE CommitClaim(r)
      <3>1. /\ pending[r] = <<>> /\ pending'[r] = NewIds(r)
            /\ \A s \in Replicas : s # r => pending'[s] = pending[s]
        BY <1>1, <2>5 DEF CommitClaim, ControlOK, TypeOK
      <3>2. Elements(NewIds(r)) = {n + i : i \in 1 .. k}
        BY <1>3 DEF Elements, NewIds
      <3>3. /\ \A s \in Replicas : s # r => Unsaved(s)' = Unsaved(s)
            /\ Unsaved(r)' = Unsaved(r) \cup {n + i : i \in 1 .. k}
        <4>1. \A s \in Replicas : RunningWith(s)' = RunningWith(s)
          BY <1>2 DEF RunningWith, Running
        <4>2. Elements(<<>>) = {}
          BY DEF Elements
        <4>3. QED
          BY <1>2, <3>1, <3>2, <4>1, <4>2 DEF Unsaved
      <3>4. \A e \in 1 .. n : InHand(e)' <=> InHand(e)
        <4>1. \A e \in 1 .. n : e \notin {n + i : i \in 1 .. k}
          BY <1>3
        <4>2. QED
          BY <3>3, <4>1 DEF InHand
      <3>5. ASSUME NEW e \in 1 .. n + k, e > n PROVE InHand(e)'
        <4>1. e - n \in 1 .. k /\ e = n + (e - n)
          BY <1>3, <3>5
        <4>2. QED
          BY <3>3, <4>1 DEF InHand
      <3>6. \A e \in 1 .. n : Stage(e)' = Stage(e)
        BY <2>2, <3>4, SameStage
      <3>7. \A e \in 1 .. n + k : e > n => Stage(e)' = "held"
        BY <3>5, StageIs
      <3>8. QED
        BY <3>6, <3>7
    <2>6. CASE LoseCommit(r)
      <3>1. UNCHANGED pending
        BY <2>6 DEF LoseCommit
      <3>2. \A s \in Replicas : Unsaved(s)' = Unsaved(s)
        BY <1>2, <3>1 DEF Unsaved, Elements, RunningWith, Running
      <3>3. \A e \in 1 .. n : Stage(e)' = Stage(e)
        BY <2>1, <3>2, StagesKept
      <3>4. ASSUME NEW e \in 1 .. n + k, e > n PROVE Stage(e)' = "closed"
        <4>1. e \notin 1 .. n
          BY <1>3, <3>4
        <4>2. ~InHand(e)' /\ ~OnReport(e)'
          BY <2>2, <2>3, <2>4, <3>2, <4>1 DEF InHand
        <4>3. QED
          BY <4>2, StageIs
      <3>5. QED
        BY <3>3, <3>4
    <2>7. QED
      BY <2>5, <2>6
  <1>6. added(st) \in [1 .. k -> L!Entries] /\ \A i \in 1 .. k : added(st)[i] =
          [job |-> q[i], outcome |-> "running", stage |-> st]
    <2>1. \A i \in 1 .. k : q[i] \in Jobs
      BY <1>1, <1>4 DEF TypeOK
    <2>2. QED
      BY <1>4, <2>1 DEF L!Entries, L!Stages
  <1> DEFINE new == added(st)
             all == LedgerEntries \o new
  <1> HIDE DEF added
  <1>7. /\ all \in Seq(L!Entries) /\ DOMAIN all = 1 .. n + k
        /\ \A e \in 1 .. n : all[e] = LedgerEntries[e]
        /\ \A e \in 1 .. n + k : e > n => all[e] = new[e - n]
    <2>1. LedgerEntries \in Seq(L!Entries) /\ Len(LedgerEntries) = n
      BY <1>1, <1>3, LedgerTyped
    <2> HIDE DEF new
    <2>2. new \in [1 .. k -> L!Entries]
      BY <1>6 DEF new
    <2> HIDE DEF k
    <2>3. k \in Nat
      BY <1>3
    <2>4. QED
      BY <2>1, <2>2, <2>3, Extension
  <1> HIDE DEF all
  <1>8. ASSUME NEW e \in 1 .. n + k PROVE LedgerEntries'[e] = all[e]
    <2>1. LedgerEntries'[e] =
            [job |-> executions'[e].job, outcome |-> executions'[e].status, stage |-> Stage(e)']
      BY <1>3, EntryIs
    <2>2. CASE e \in 1 .. n
      BY <1>3, <1>5, <1>7, <2>1, <2>2, EntryIs
    <2>3. CASE e \notin 1 .. n
      <3> HIDE DEF k, q
      <3>1. PICK i \in 1 .. k : e = n + i
        <4>1. e - n \in 1 .. k /\ e = n + (e - n)
          BY <1>3, <2>3
        <4>2. QED
          BY <4>1
      <3>2. e > n /\ e - n = i
        BY <1>3, <3>1
      <3>3. all[e] = [job |-> q[i], outcome |-> "running", stage |-> st]
        BY <1>6, <1>7, <3>2
      <3>4. executions'[e].job = q[i] /\ executions'[e].status = "running" /\ Stage(e)' = st
        <4>1. executions'[e] = [job |-> q[i], status |-> "running", error |-> "none",
                                startedAt |-> claimedAt[r]]
          BY <1>3, <3>1
        <4>2. executions'[e].job = q[i] /\ executions'[e].status = "running"
          BY <4>1
        <4>3. QED
          BY <1>5, <3>2, <4>2
      <3>5. QED
        BY <2>1, <3>3, <3>4
    <2>4. QED
      BY <2>2, <2>3
  <1>9. LedgerEntries' = all
    <2>1. LedgerEntries' = [e \in 1 .. n + k |-> LedgerEntries'[e]]
      BY <1>3 DEF LedgerEntries
    <2>2. all = [e \in 1 .. n + k |-> all[e]]
      BY <1>7, LenProperties
    <2> HIDE DEF k
    <2>3. QED
      BY <1>8, <2>1, <2>2
  <1>10. LedgerEntries' = LedgerEntries \o
           [i \in DOMAIN batch[r] |-> [job |-> batch[r][i], outcome |-> "running", stage |-> st]]
    BY <1>9 DEF all, added
  <1>11. /\ batch[r] \in L!Claims
         /\ \A i \in DOMAIN batch[r] : [j \in Jobs |-> jobs[j].status][batch[r][i]] = "active"
         /\ \A i, m \in DOMAIN batch[r] : batch[r][i] = batch[r][m] => i = m
    <2>1. \A i \in DOMAIN batch[r] : batch[r][i] \in Jobs
      BY <1>1, <1>4 DEF TypeOK
    <2>2. QED
      BY <1>1, <2>1, BatchIsClaims
  <1> HIDE DEF q, k
  <1>12. QED
    BY <1>2, <1>10, <1>11, SameJobs DEF L!Claim

LEMMA LedgerStep ==
  ASSUME SafetyInv, DrainInv, BatchesDistinct, LockedActive, StatusesKept, [Next]_vars
  PROVE  L!LedgerNext \/ UNCHANGED L!ledgerVars
  <1>1. TypeOK /\ ControlOK
    BY DEF SafetyInv
  <1>2. CASE TimePasses \/ UNCHANGED vars
    BY <1>1, <1>2, ControlIsUnseen DEF TimePasses, vars, dbVars
  <1>3. ASSUME NEW r \in Replicas,
               \/ Start(r) \/ Crash(r) \/ Terminate(r) \/ RecoverStale(r) \/ GraceExpires(r)
               \/ Shutdown(r)
        PROVE  L!LedgerNext \/ UNCHANGED L!ledgerVars
    <2>1. CASE Terminate(r) \/ GraceExpires(r) \/ Shutdown(r)
      BY <1>1, <2>1, ControlIsUnseen
         DEF Terminate, GraceExpires, Shutdown, ExitLoop, Drained, Return, dbVars
    <2>2. CASE Start(r)
      BY <1>1, <2>2, StartIsUnseen
    <2>3. CASE Crash(r)
      BY <1>1, <2>3, CrashIsDie DEF L!LedgerNext
    <2>4. CASE RecoverStale(r)
      BY <1>1, <2>4, RecoverIsPresume DEF L!LedgerNext
    <2>5. QED
      BY <1>3, <2>1, <2>2, <2>3, <2>4
  <1>4. ASSUME NEW r \in Replicas, Tick(r)
        PROVE  L!LedgerNext \/ UNCHANGED L!ledgerVars
    <2>1. CASE ScanDue(r) \/ AdvanceNextRun(r) \/ RollbackClaim(r) \/ Saturate(r)
      BY <1>1, <2>1, ControlIsUnseen DEF ScanDue, AdvanceNextRun, RollbackClaim, Saturate, dbVars
    <2>2. CASE Send(r)
      BY <1>1, <2>2, HandOverIsUnseen
    <2>3. CASE CommitClaim(r) \/ LoseCommit(r)
      BY <1>1, <2>3, CommitIsClaim DEF L!LedgerNext
    <2>4. CASE AbandonOnShutdown(r) \/ MarkSaturated(r)
      BY <1>1, <2>4, MarkIsGiveUp DEF L!LedgerNext
    <2>5. QED
      BY <1>4, <2>1, <2>2, <2>3, <2>4 DEF Tick
  <1>5. ASSUME NEW r \in Replicas, NEW w \in Workers, Work(r, w)
        PROVE  L!LedgerNext \/ UNCHANGED L!ledgerVars
    <2>1. CASE Receive(r, w)
      BY <1>1, <2>1, HandOverIsUnseen
    <2>2. CASE FinishExecution(r, w)
      BY <1>1, <2>2, FinishIsSettle DEF L!LedgerNext
    <2>3. CASE WriteBackJob(r, w) \/ WorkerExits(r, w)
      BY <1>1, <2>3, WriteBackStages, Unseen
    <2>4. CASE Notify(r, w)
      BY <1>1, <2>4, NotifyIsReport DEF L!LedgerNext
    <2>5. QED
      BY <1>5, <2>1, <2>2, <2>3, <2>4 DEF Work
  <1>6. QED
    BY <1>2, <1>3, <1>4, <1>5 DEF Next

\* The scheduler, with any number of replicas and workers, with crashes and failing
\* statements, implements the ledger: an execution is held by one goroutine from its
\* commit on, settled or given up by its holder, and reported at most once by who
\* settled it (Run, ClaimDue, tick, worker, executeJob, RecoverStaleRunning).
THEOREM SchedulerImplementsLedger == Spec => LedgerSpec
  <1>1. Init => L!LedgerInit
    <2> SUFFICES ASSUME Init PROVE L!LedgerInit
      OBVIOUS
    <2>1. [j \in Jobs |-> jobs[j].status] \in [Jobs -> {"uncreated", "active"}]
      <3>1. \A j \in Jobs : jobs[j].status = "active"
        BY DEF Init, NewJob
      <3>2. QED
        BY <3>1
    <2>2. LedgerEntries = <<>> /\ dispatched = {}
      <3>1. executions = <<>> /\ dispatched = {}
        BY DEF Init, Fresh
      <3>2. DOMAIN executions = {}
        BY <3>1
      <3>3. LedgerEntries = [e \in {} |-> 1]
        BY <3>2 DEF LedgerEntries
      <3>4. QED
        BY <3>1, <3>3
    <2>3. QED
      BY <2>1, <2>2 DEF L!LedgerInit
  <1>2. SafetyInv /\ DrainInv /\ BatchOK /\ [Next]_vars => [L!LedgerNext]_(L!ledgerVars)
    <2>1. SUFFICES ASSUME SafetyInv, DrainInv, BatchOK, [Next]_vars
                   PROVE  L!LedgerNext \/ UNCHANGED L!ledgerVars
      OBVIOUS
    <2>2. BatchesDistinct /\ LockedActive
      BY <2>1 DEF BatchOK, AllActive, LockedActive, SafetyInv, TypeOK
    <2>3. StatusesKept
      BY <2>1, BatchStep DEF BatchOK, AllActive, StatusesKept
    <2>4. QED
      BY <2>1, <2>2, <2>3, LedgerStep
  <1>3. QED
    BY <1>1, <1>2, LedgerInvariant, PTL DEF Spec, LedgerSpec, L!Spec

-----------------------------------------------------------------------------
(* What the ledger promises, and with it everybody who implements it.       *)

\* The entries a step of the ledger leaves, without the way they are written.
LEMMA EntriesAfter ==
  ASSUME TypeOK, L!LedgerNext
  PROVE  \A e \in DOMAIN LedgerEntries : L!EntryGoesOn(e)
  <1> DEFINE E == LedgerEntries
             F == LedgerEntries'
  <1>1. /\ E \in Seq(L!Entries)
        /\ DOMAIN E = 1 .. Len(E) /\ \A e \in DOMAIN E : E[e] \in L!Entries
    BY LedgerTyped, LenProperties
  <1>2. ASSUME NEW e \in DOMAIN E, e \in DOMAIN F, UNCHANGED dispatched,
               F[e].job = E[e].job, F[e].stage \in {E[e].stage, "closed"},
               F[e].outcome \in {E[e].outcome, "deleted"}
        PROVE  L!EntryGoesOn(e)
    BY <1>2 DEF L!EntryGoesOn
  <1> HIDE DEF E
  <1>3. ASSUME NEW e \in DOMAIN E, NEW x \in DOMAIN E, NEW stage, NEW outcome,
               L!SetStage(x, stage, outcome)
        PROVE  /\ e \in DOMAIN F /\ F[e].job = E[e].job
               /\ e # x => F[e] = E[e]
               /\ e = x => F[e].stage = stage /\ F[e].outcome = outcome
    <2>1. F = [E EXCEPT ![x].stage = stage, ![x].outcome = outcome]
      BY <1>3 DEF L!SetStage, E
    <2>2. E[x] \in [job : Jobs, outcome : {"running", "deleted"} \cup L!Outcomes, stage : L!Stages]
      BY <1>1 DEF L!Entries
    <2> HIDE DEF F
    <2>3. QED
      BY <2>1, <2>2
  <1>4. ASSUME NEW j \in Jobs, L!Delete(j), NEW e \in DOMAIN E PROVE L!EntryGoesOn(e)
    <2>1. /\ F = [d \in DOMAIN E |-> IF E[d].job = j THEN [E[d] EXCEPT !.outcome = "deleted"] ELSE E[d]]
          /\ UNCHANGED dispatched
      BY <1>4 DEF L!Delete, E
    <2>2. E[e] \in [job : Jobs, outcome : {"running", "deleted"} \cup L!Outcomes, stage : L!Stages]
      BY <1>1, <1>4 DEF L!Entries
    <2>3. /\ e \in DOMAIN F /\ F[e].job = E[e].job /\ F[e].stage = E[e].stage
          /\ F[e].outcome \in {E[e].outcome, "deleted"}
      <3> HIDE DEF F
      <3>1. QED
        BY <1>4, <2>1, <2>2
    <2>4. QED
      BY <1>2, <1>4, <2>1, <2>3
  <1>5. ASSUME NEW x \in DOMAIN E, L!Settle(x) \/ L!GiveUp(x) \/ L!Report(x), NEW e \in DOMAIN E
        PROVE  L!EntryGoesOn(e)
    <2>1. CASE L!Settle(x) \/ L!GiveUp(x)
      <3>1. PICK stage \in {"reporting", "closed"} : \E outcome : L!SetStage(x, stage, outcome)
        BY <2>1 DEF L!Settle, L!GiveUp
      <3>2. E[x].stage = "held" /\ UNCHANGED dispatched
        BY <2>1 DEF L!Settle, L!GiveUp, E
      <3>3. QED
        BY <1>3, <1>5, <3>1, <3>2 DEF L!EntryGoesOn, E
    <2>2. CASE L!Report(x)
      <3>1. /\ E[x].stage = "reporting" /\ L!SetStage(x, "closed", E[x].outcome)
            /\ dispatched' \in {dispatched, dispatched \cup {x}}
        BY <2>2 DEF L!Report, E
      <3>2. QED
        BY <1>3, <1>5, <3>1 DEF L!EntryGoesOn, E
    <2>3. QED
      BY <1>5, <2>1, <2>2
  <1>6. ASSUME L!Die \/ L!Presume, NEW e \in DOMAIN E PROVE L!EntryGoesOn(e)
    <2>1. E[e] \in [job : Jobs, outcome : {"running", "deleted"} \cup L!Outcomes, stage : L!Stages]
      BY <1>1, <1>6 DEF L!Entries
    <2>2. CASE L!Die
      <3>1. PICK S : F = [d \in DOMAIN E |-> IF d \in S THEN [E[d] EXCEPT !.stage = "closed"] ELSE E[d]]
        BY <2>2 DEF L!Die, E
      <3>2. UNCHANGED dispatched
        BY <2>2 DEF L!Die
      <3>3. /\ e \in DOMAIN F /\ F[e].job = E[e].job /\ F[e].stage \in {E[e].stage, "closed"}
            /\ F[e].outcome = E[e].outcome
        <4> HIDE DEF F
        <4>1. QED
          BY <1>6, <2>1, <3>1
      <3>4. QED
        BY <1>2, <1>6, <3>2, <3>3
    <2>3. CASE L!Presume
      <3>1. PICK S \in SUBSET {d \in DOMAIN E : E[d].outcome = "running"} :
              F = [d \in DOMAIN E |-> IF d \in S THEN [E[d] EXCEPT !.outcome = "error"] ELSE E[d]]
        BY <2>3 DEF L!Presume, E
      <3>2. UNCHANGED dispatched
        BY <2>3 DEF L!Presume
      <3>3. /\ e \in DOMAIN F /\ F[e].job = E[e].job /\ F[e].stage = E[e].stage
            /\ E[e].outcome # "running" => F[e].outcome = E[e].outcome
        <4> HIDE DEF F
        <4>1. QED
          BY <1>6, <2>1, <3>1
      <3>4. QED
        BY <1>6, <3>2, <3>3 DEF L!EntryGoesOn, L!Outcomes, E
    <2>4. QED
      BY <1>6, <2>2, <2>3
  <1>7. ASSUME L!Claim, NEW e \in DOMAIN E PROVE L!EntryGoesOn(e)
    <2>1. PICK q \in L!Claims, stage \in {"held", "closed"} :
            F = E \o [i \in DOMAIN q |-> [job |-> q[i], outcome |-> "running", stage |-> stage]]
      BY <1>7 DEF L!Claim, E
    <2>2. PICK n \in Nat : DOMAIN q = 1 .. n
      BY DEF L!Claims
    <2> DEFINE new == [i \in DOMAIN q |-> [job |-> q[i], outcome |-> "running", stage |-> stage]]
    <2>3. Len(new) = n
      BY <2>2
    <2>4. e \in DOMAIN F /\ F[e] = E[e]
      <3> HIDE DEF F, new
      <3>1. F = E \o new
        BY <2>1 DEF new
      <3>2. QED
        BY <1>1, <1>7, <2>2, <2>3, <3>1
    <2>5. QED
      BY <1>2, <1>7, <2>4 DEF L!Claim
  <1>8. ASSUME NEW j \in Jobs, L!Create(j) \/ L!ChangeStatus(j), NEW e \in DOMAIN E
        PROVE  L!EntryGoesOn(e)
    <2>1. F = E /\ UNCHANGED dispatched
      BY <1>8 DEF L!Create, L!ChangeStatus, E
    <2>2. QED
      BY <1>2, <1>8, <2>1
  <1>9. QED
    BY <1>4, <1>5, <1>6, <1>7, <1>8 DEF L!LedgerNext, E

\* What was reported stays closed.
LEMMA ReportedStep ==
  ASSUME TypeOK, L!ReportedIsClosed, [L!LedgerNext]_(L!ledgerVars)
  PROVE  L!ReportedIsClosed'
  <1>1. dispatched \subseteq DOMAIN LedgerEntries
    BY EntryIs DEF TypeOK
  <1>2. CASE UNCHANGED L!ledgerVars
    BY <1>2 DEF L!ledgerVars, L!ReportedIsClosed
  <1>3. CASE L!LedgerNext
    <2>1. dispatched' \subseteq DOMAIN LedgerEntries
      BY <1>1, <1>3 DEF L!LedgerNext, L!Create, L!ChangeStatus, L!Delete, L!Settle, L!GiveUp,
                        L!Report, L!Claim, L!Die, L!Presume
    <2>2. QED
      BY <1>1, <1>3, <2>1, EntriesAfter DEF L!EntryGoesOn, L!ReportedIsClosed
  <1>4. QED
    BY <1>2, <1>3

\* Whoever implements the ledger keeps its promises: an execution goes forward, from
\* its holder to the end, it is reported once and by who settled it, and an outcome
\* stays until the job is deleted (the UPDATEs of executeJob, markFailed and
\* RecoverStaleRunning, the cascade of jobs.Delete).
THEOREM LedgerKeepsItsWord ==
  LedgerSpec /\ []TypeOK => []L!ReportedIsClosed /\ L!LedgerGoesOn
  <1>1. L!LedgerInit => L!ReportedIsClosed
    BY DEF L!LedgerInit, L!ReportedIsClosed
  <1>2. TypeOK /\ L!ReportedIsClosed /\ [L!LedgerNext]_(L!ledgerVars) => L!ReportedIsClosed'
    BY ReportedStep
  <1>3. TypeOK /\ [L!LedgerNext]_(L!ledgerVars) =>
          [\A e \in DOMAIN LedgerEntries : L!EntryGoesOn(e)]_(L!ledgerVars)
    BY EntriesAfter
  <1>4. QED
    BY <1>1, <1>2, <1>3, PTL DEF LedgerSpec, L!Spec, L!LedgerGoesOn

\* So does the scheduler, with any number of replicas, crashes and failing statements:
\* an execution is never taken up again, and no outcome is reported twice (Run, tick,
\* worker, executeJob).
THEOREM SchedulerKeepsItsWord == Spec => []L!ReportedIsClosed /\ L!LedgerGoesOn
  BY SchedulerImplementsLedger, TypeCorrect, LedgerKeepsItsWord, PTL
=============================================================================
