---------------------------- MODULE PipelineProofs ----------------------------
(****************************************************************************)
(* The drain of Run, and what becomes of a claim on its way through the    *)
(* pipeline, for every number of replicas, workers and jobs.               *)
(****************************************************************************)
EXTENDS SchedulerProofs

Leaving == {"draining", "flushing", "stopped"}

\* A worker exits only when the loop is over and the channel empty, and nothing is put
\* into the channel after that; past <-done all of them have exited.  Before the loop
\* begins there is nothing to do.
DrainOK(r) ==
  /\ \A w \in Workers : worker[r][w].pc = "exited" => phase[r] \in Leaving /\ jobChan[r] = <<>>
  /\ phase[r] \in {"flushing", "stopped"} => AllExited(r)
  /\ phase[r] \in Leaving => loop[r] = "select"
  /\ phase[r] \in {"down", "starting"} =>
       loop[r] = "select" /\ jobChan[r] = <<>> /\ \A w \in Workers : worker[r][w].pc = "idle"

DrainInv == \A r \in Replicas : DrainOK(r)

\* What DrainOK says of r depends on r's own state.
LEMMA DrainSame ==
  ASSUME NEW r, DrainOK(r), phase'[r] = phase[r], loop'[r] = loop[r], jobChan'[r] = jobChan[r],
         worker'[r] = worker[r]
  PROVE  DrainOK(r)'
  BY DEF DrainOK, AllExited

LEMMA DrainTick ==
  ASSUME TypeOK, NEW s \in Replicas, NEW r \in Replicas, DrainOK(r), Tick(s)
  PROVE  DrainOK(r)'
  <1>1. phase' = phase /\ worker' = worker
    BY DEF Tick, ScanDue, AdvanceNextRun, CommitClaim, LoseCommit, RollbackClaim, Send,
           AbandonOnShutdown, Saturate, MarkSaturated, procVars
  <1>2. CASE r # s
    <2>1. loop'[r] = loop[r]
      BY <1>2 DEF Tick, ScanDue, AdvanceNextRun, CommitClaim, LoseCommit, RollbackClaim, Send,
                  AbandonOnShutdown, Saturate, MarkSaturated, TypeOK
    <2>2. jobChan'[r] = jobChan[r]
      BY <1>2 DEF Tick, ScanDue, AdvanceNextRun, CommitClaim, LoseCommit, RollbackClaim, Send,
                  AbandonOnShutdown, Saturate, MarkSaturated, TypeOK
    <2>3. QED
      BY <1>1, <2>1, <2>2, DrainSame
  <1>3. CASE r = s
    <2>1. phase[r] \notin Leaving \cup {"down", "starting"}
      <3>1. phase[r] = "running" \/ loop[r] # "select"
        BY <1>3 DEF Tick, ScanDue, AdvanceNextRun, CommitClaim, LoseCommit, RollbackClaim, Send,
                    AbandonOnShutdown, Saturate, MarkSaturated
      <3>2. QED
        BY <3>1 DEF DrainOK, Leaving
    <2>2. \A w \in Workers : worker[r][w].pc # "exited"
      BY <2>1 DEF DrainOK
    <2>3. QED
      BY <1>1, <2>1, <2>2 DEF DrainOK, Leaving
  <1>4. QED
    BY <1>2, <1>3

LEMMA DrainWork ==
  ASSUME TypeOK, NEW s \in Replicas, NEW v \in Workers, NEW r \in Replicas, DrainOK(r), Work(s, v)
  PROVE  DrainOK(r)'
  <1>1. phase' = phase /\ loop' = loop
    BY DEF Work, Receive, FinishExecution, WriteBackJob, Notify, WorkerExits, procVars
  <1>2. CASE r # s
    BY <1>1, <1>2, WorkFrame, DrainSame
  <1>3. CASE r = s
    <2>1. worker[r][v].pc # "exited"
      BY <1>3 DEF Work, Receive, FinishExecution, WriteBackJob, Notify, WorkerExits
    <2>2. ~AllExited(r)
      BY <2>1 DEF AllExited
    <2>3. \A w \in Workers : w # v => worker'[r][w] = worker[r][w]
      BY <1>3, WorkFrame
    <2>4. CASE Receive(s, v)
      <3>1. \E rec : rec.pc # "exited" /\ SetWorker(s, v, rec)
        BY <2>4 DEF Receive
      <3>2. worker'[r][v].pc # "exited"
        BY <1>3, <3>1, SetWorkerFrame
      <3>3. \A w \in Workers : worker[r][w].pc # "exited"
        BY <1>3, <2>4 DEF Receive, DrainOK
      <3>4. \A w \in Workers : worker'[r][w].pc # "exited"
        BY <2>3, <3>2, <3>3
      <3>5. phase[r] \notin {"down", "starting"}
        BY <1>3, <2>4 DEF Receive, DrainOK
      <3>6. QED
        BY <1>1, <2>2, <3>4, <3>5 DEF DrainOK
    <2>5. CASE WorkerExits(s, v)
      <3>1. phase[r] = "draining" /\ jobChan[r] = <<>> /\ jobChan' = jobChan
        BY <1>3, <2>5 DEF WorkerExits, ChannelEnded
      <3>2. QED
        BY <1>1, <2>2, <3>1 DEF DrainOK, Leaving
    <2>6. CASE FinishExecution(s, v) \/ WriteBackJob(s, v) \/ Notify(s, v)
      <3>1. jobChan' = jobChan
        BY <2>6 DEF FinishExecution, WriteBackJob, Notify
      <3>2. \E rec : rec.pc # "exited" /\ SetWorker(s, v, rec)
        <4>1. worker[s][v] \in [pc : WorkerPCs, exec : 0 .. Len(executions), status : ExecStatuses]
          BY DEF TypeOK
        <4>2. [worker[s][v] EXCEPT !.pc = "notifying"].pc = "notifying"
          BY <4>1
        <4>3. CASE WriteBackJob(s, v)
          BY <4>2, <4>3 DEF WriteBackJob
        <4>4. CASE FinishExecution(s, v)
          BY <4>4 DEF FinishExecution
        <4>5. CASE Notify(s, v)
          BY <4>5 DEF Notify, IdleWorker
        <4>6. QED
          BY <2>6, <4>3, <4>4, <4>5
      <3>3. worker'[r][v].pc # "exited"
        BY <1>3, <3>2, SetWorkerFrame
      <3>4. \A w \in Workers : worker'[r][w].pc = "exited" => worker[r][w].pc = "exited"
        BY <2>3, <3>3
      <3>5. phase[r] \notin {"down", "starting"}
        BY <1>3, <2>6 DEF FinishExecution, WriteBackJob, Notify, DrainOK
      <3>6. QED
        BY <1>1, <2>2, <3>1, <3>4, <3>5 DEF DrainOK
    <2>7. QED
      BY <2>4, <2>5, <2>6 DEF Work
  <1>4. QED
    BY <1>2, <1>3

\* The steps of the process.
LEMMA DrainProcess ==
  ASSUME TypeOK, NEW s \in Replicas, NEW r \in Replicas, DrainOK(r),
         \/ Start(s) \/ Crash(s) \/ Terminate(s) \/ RecoverStale(s) \/ GraceExpires(s)
         \/ Shutdown(s)
  PROVE  DrainOK(r)'
  <1>1. CASE Start(s) \/ Crash(s)
    <2>1. CASE r # s
      <3>1. /\ phase'[r] = phase[r] /\ loop'[r] = loop[r] /\ jobChan'[r] = jobChan[r]
            /\ worker'[r] = worker[r]
        BY <1>1, <2>1 DEF Start, Crash, ResetProcess, TypeOK
      <3>2. QED
        BY <3>1, DrainSame
    <2>2. CASE r = s
      <3>1. /\ phase'[r] \in {"down", "starting"} /\ \A w \in Workers : worker'[r][w].pc = "idle"
            /\ loop'[r] = "select" /\ jobChan'[r] = <<>>
        BY <1>1, <2>2 DEF Start, Crash, ResetProcess, TypeOK, IdleWorker
      <3>2. QED
        BY <3>1 DEF DrainOK, Leaving
    <2>3. QED
      BY <2>1, <2>2
  <1>2. CASE Terminate(s) \/ GraceExpires(s)
    BY <1>2, DrainSame DEF Terminate, GraceExpires
  <1>3. CASE RecoverStale(s) \/ Shutdown(s)
    <2>1. UNCHANGED <<loop, jobChan, worker>>
      BY <1>3 DEF RecoverStale, Shutdown, ExitLoop, Drained, Return
    <2>2. CASE r # s
      <3>1. phase'[r] = phase[r]
        BY <1>3, <2>2 DEF RecoverStale, Shutdown, ExitLoop, Drained, Return, TypeOK
      <3>2. QED
        BY <2>1, <3>1, DrainSame
    <2>3. CASE r = s
      <3>1. \/ phase[r] = "starting" /\ phase'[r] = "running"
            \/ phase[r] = "running" /\ phase'[r] = "draining" /\ loop[r] = "select"
            \/ phase[r] = "draining" /\ phase'[r] = "flushing" /\ AllExited(r)
            \/ phase[r] = "flushing" /\ phase'[r] = "stopped"
        BY <1>3, <2>3 DEF RecoverStale, Shutdown, ExitLoop, Drained, Return, TypeOK
      <3>2. QED
        BY <2>1, <3>1 DEF DrainOK, AllExited, Leaving
    <2>4. QED
      BY <2>2, <2>3
  <1>4. QED
    BY <1>1, <1>2, <1>3

LEMMA DrainStep == TypeOK /\ DrainInv /\ [Next]_vars => DrainInv'
  <1> SUFFICES ASSUME TypeOK, DrainInv, [Next]_vars, NEW r \in Replicas
               PROVE  DrainOK(r)'
    BY DEF DrainInv
  <1>1. DrainOK(r)
    BY DEF DrainInv
  <1>2. CASE TimePasses \/ UNCHANGED vars
    BY <1>1, <1>2, DrainSame DEF TimePasses, vars, procVars
  <1>3. ASSUME NEW s \in Replicas,
               \/ Start(s) \/ Crash(s) \/ Terminate(s) \/ RecoverStale(s) \/ GraceExpires(s)
               \/ Shutdown(s)
        PROVE  DrainOK(r)'
    BY <1>1, <1>3, DrainProcess
  <1>4. ASSUME NEW s \in Replicas, Tick(s) PROVE DrainOK(r)'
    BY <1>1, <1>4, DrainTick
  <1>5. ASSUME NEW s \in Replicas, NEW w \in Workers, Work(s, w) PROVE DrainOK(r)'
    BY <1>1, <1>5, DrainWork
  <1>6. QED
    BY <1>2, <1>3, <1>4, <1>5 DEF Next

LEMMA DrainedHoldsNothing ==
  TypeOK /\ ControlOK /\ DrainInv => NothingHeldAfterDrain
  <1> SUFFICES ASSUME TypeOK, ControlOK, DrainInv,
                      NEW r \in Replicas, phase[r] \in {"flushing", "stopped"}
               PROVE  Held(r) = {} /\ DOMAIN scan[r] = {}
    BY DEF NothingHeldAfterDrain
  <1>1. DrainOK(r)
    BY DEF DrainInv
  <1>2. AllExited(r) /\ loop[r] = "select"
    BY <1>1 DEF DrainOK, Leaving
  <1>3. pending[r] = <<>> /\ DOMAIN scan[r] = {}
    BY <1>2 DEF ControlOK
  <1>4. PICK w \in Workers : TRUE
    BY ConstantsAssumption
  <1>5. jobChan[r] = <<>>
    BY <1>1, <1>2, <1>4 DEF DrainOK, AllExited
  <1>6. \A v \in Workers : ~Busy(r, v)
    BY <1>2 DEF AllExited, Busy
  <1>7. QED
    BY <1>3, <1>5, <1>6 DEF Held, Elements, BusyWith

LEMMA DrainInit == Fresh => DrainInv
  <1> SUFFICES ASSUME Fresh, NEW r \in Replicas
               PROVE  DrainOK(r)
    BY DEF DrainInv
  <1>1. /\ phase[r] = "down" /\ \A w \in Workers : worker[r][w].pc = "idle"
        /\ loop[r] = "select" /\ jobChan[r] = <<>>
    BY DEF Fresh, IdleWorker
  <1>2. QED
    BY <1>1 DEF DrainOK, Leaving

\* When Run is past <-done, nothing it claimed is left on its heap and no claim
\* transaction is open: no worker can be at work, and the list and the channel are
\* empty, whatever was in them when the signal came.
THEOREM DrainLeavesNothing == Spec => []NothingHeldAfterDrain
  <1>1. Init => TypeOK /\ ControlOK /\ DrainInv
    BY InitTyped, DrainInit DEF Init
  <1>2. (TypeOK /\ ControlOK /\ DrainInv) /\ [Next]_vars => (TypeOK /\ ControlOK /\ DrainInv)'
    BY StepTyped, DrainStep
  <1>3. QED
    BY <1>1, <1>2, DrainedHoldsNothing, PTL DEF Spec

\* The joint invariant of the safety properties and the drain.
LEMMA PipelineInvariant == Spec => [](SafetyInv /\ DrainInv)
  <1>1. Init => DrainInv
    BY DrainInit DEF Init
  <1>2. SafetyInv /\ DrainInv /\ [Next]_vars => DrainInv'
    BY DrainStep DEF SafetyInv
  <1>3. QED
    BY <1>1, <1>2, SafetyInvariant, PTL DEF Spec

-----------------------------------------------------------------------------
(* No claim gets lost.                                                      *)

LEMMA UnsavedKept ==
  ASSUME NEW s \in Replicas, pending'[s] = pending[s], jobChan'[s] = jobChan[s],
         \A w \in Workers : Running(s, w) => Running(s, w)' /\ worker'[s][w].exec = worker[s][w].exec
  PROVE  Unsaved(s) \subseteq Unsaved(s)'
  BY DEF Unsaved, Elements, RunningWith

\* A process that does not run has nothing to save.
LEMMA NothingToSave ==
  ASSUME TypeOK, ControlOK, DrainInv, NEW r \in Replicas, phase[r] \in {"down", "stopped"}
  PROVE  Unsaved(r) = {}
  <1>1. CASE phase[r] = "stopped"
    BY <1>1, DrainedHoldsNothing, UnsavedHeld DEF NothingHeldAfterDrain
  <1>2. CASE phase[r] = "down"
    <2>1. loop[r] = "select" /\ jobChan[r] = <<>> /\ \A w \in Workers : ~Running(r, w)
      BY <1>2 DEF DrainInv, DrainOK, Running
    <2>2. pending[r] = <<>>
      BY <2>1 DEF ControlOK
    <2>3. QED
      BY <2>1, <2>2 DEF Unsaved, Elements, RunningWith
  <1>3. QED
    BY <1>1, <1>2

\* The row a save leaves says something else than running, unless it fails.
LEMMA SavedRow ==
  ASSUME TypeOK, NEW e \in DOMAIN executions, NEW status \in ExecStatuses, status # "running",
         NEW reason \in Reasons, NEW fault, fault \notin Faults,
         SaveOutcome(e, status, reason, fault)
  PROVE  executions'[e].status # "running"
  <1>1. executions[e] \in ExecRows
    BY DEF TypeOK
  <1> DEFINE row == WithOutcome(executions[e], status, reason)
  <1>2. executions' = [executions EXCEPT ![e] = row]
    BY DEF SaveOutcome
  <1>3. executions'[e] = row
    BY <1>2
  <1>4. row.status # "running"
    <2>1. CASE executions[e].status = "deleted"
      BY <2>1 DEF WithOutcome
    <2>2. CASE executions[e].status # "deleted"
      BY <1>1, <2>2 DEF WithOutcome, ExecRows
    <2>3. QED
      BY <2>1, <2>2
  <1>5. QED
    BY <1>3, <1>4

LEMMA MarkDropsOne ==
  ASSUME SafetyInv, "mark" \notin Faults, NEW r \in Replicas,
         AbandonOnShutdown(r) \/ MarkSaturated(r), NEW s \in Replicas, NEW e \in Unsaved(s)
  PROVE  e \in Unsaved(s)' \/ LetGo(s, e)
  <1> DEFINE d == Head(pending[r])
             n == Len(executions)
  <1>1. TypeOK /\ ControlOK /\ InClaimOrder /\ HeldApart
    BY DEF SafetyInv
  <1>2. /\ d \in Unsaved(r) /\ d \in DOMAIN executions
        /\ \/ UNCHANGED executions
           \/ SaveOutcome(d, "error", "shutdown", "mark")
           \/ SaveOutcome(d, "error", "saturated", "mark")
    BY <1>1, MarkedIsLetGo
  <1>3. /\ loop[r] \in {"dispatching", "marking"} /\ UNCHANGED <<jobChan, worker>>
        /\ pending' = [pending EXCEPT ![r] = Tail(pending[r])]
    BY DEF AbandonOnShutdown, MarkSaturated, Rest
  <1>4. CASE s # r
    <2>1. pending'[s] = pending[s]
      BY <1>1, <1>3, <1>4 DEF TypeOK
    <2>2. QED
      BY <1>3, <2>1, UnsavedKept DEF Running
  <1>5. CASE s = r /\ e # d
    <2>1. pending[r] \in Seq(1 .. n) /\ pending[r] # <<>> /\ pending'[r] = Tail(pending[r])
      BY <1>1, <1>3, HandedOver DEF TypeOK
    <2>2. /\ DOMAIN pending'[r] = 1 .. Len(pending[r]) - 1
          /\ DOMAIN pending[r] = 1 .. Len(pending[r]) /\ Len(pending[r]) \in Nat
          /\ Head(pending[r]) = pending[r][1]
          /\ \A i \in DOMAIN pending'[r] : pending'[r][i] = pending[r][i + 1]
      BY <2>1, TailElements
    <2>3. ASSUME NEW i \in DOMAIN pending[r], e = pending[r][i]
          PROVE  e \in Elements(pending'[r])
      <3>1. i # 1
        BY <1>5, <2>2, <2>3
      <3>2. i - 1 \in DOMAIN pending'[r] /\ pending'[r][i - 1] = pending[r][i]
        BY <2>2, <3>1
      <3>3. QED
        BY <2>3, <3>2 DEF Elements
    <2>4. QED
      BY <1>3, <1>5, <2>3 DEF Unsaved, Elements, RunningWith, Running
  <1>6. CASE s = r /\ e = d
    <2>1. CASE loop[r] = "marking" /\ ctxDone[r]
      BY <1>6, <2>1 DEF LetGo
    <2>2. CASE ~(loop[r] = "marking" /\ ctxDone[r])
      <3>1. \/ SaveOutcome(d, "error", "shutdown", "mark")
            \/ SaveOutcome(d, "error", "saturated", "mark")
        BY <2>2 DEF AbandonOnShutdown, MarkSaturated, SaveAbandoned
      <3> HIDE DEF d
      <3>2. executions'[d].status # "running"
        BY <1>1, <1>2, <3>1, SavedRow DEF ExecStatuses, Reasons
      <3>3. QED
        BY <1>6, <3>2 DEF LetGo
    <2>3. QED
      BY <2>1, <2>2
  <1>7. QED
    BY <1>4, <1>5, <1>6

LEMMA FinishDropsOne ==
  ASSUME SafetyInv, "save" \notin Faults, NEW r \in Replicas, NEW w \in Workers,
         FinishExecution(r, w), NEW s \in Replicas, NEW e \in Unsaved(s)
  PROVE  e \in Unsaved(s)' \/ LetGo(s, e)
  <1> DEFINE d == worker[r][w].exec
  <1>1. TypeOK /\ ControlOK /\ InClaimOrder /\ HeldApart
    BY DEF SafetyInv
  <1>2. /\ d \in Unsaved(r) /\ d \in DOMAIN executions
        /\ \E status \in Terminal : SaveOutcome(d, status, "executor", "save")
    BY <1>1, FinishedIsLetGo
  <1>3. /\ UNCHANGED <<pending, jobChan>>
        /\ \A u \in Replicas, v \in Workers : u # r \/ v # w => worker'[u][v] = worker[u][v]
    BY <1>1, WorkFrame DEF Work, FinishExecution
  <1>4. CASE e = d
    <2> HIDE DEF d
    <2>1. executions'[d].status # "running"
      BY <1>1, <1>2, SavedRow DEF Terminal, ExecStatuses, Reasons
    <2>2. QED
      BY <1>4, <2>1 DEF LetGo
  <1>5. CASE e # d
    BY <1>3, <1>5 DEF Unsaved, Elements, RunningWith, Running
  <1>6. QED
    BY <1>4, <1>5

\* Taking the head from a queue takes nothing else.
LEMMA TailKeeps ==
  ASSUME NEW S, NEW q \in Seq(S), q # <<>>
  PROVE  Elements(q) \subseteq Elements(Tail(q)) \cup {Head(q)}
  <1>1. /\ DOMAIN Tail(q) = 1 .. Len(q) - 1
        /\ DOMAIN q = 1 .. Len(q) /\ Len(q) \in Nat /\ Head(q) = q[1]
        /\ \A i \in DOMAIN Tail(q) : Tail(q)[i] = q[i + 1]
    BY TailElements
  <1>2. ASSUME NEW i \in DOMAIN q, i # 1
        PROVE  q[i] \in Elements(Tail(q))
    <2>1. i - 1 \in DOMAIN Tail(q) /\ Tail(q)[i - 1] = q[i]
      BY <1>1, <1>2
    <2>2. QED
      BY <2>1 DEF Elements
  <1>3. QED
    BY <1>1, <1>2 DEF Elements

\* The hand-over keeps a claim in the replica.
LEMMA SendKeeps ==
  ASSUME TypeOK, ControlOK, NEW r \in Replicas, Send(r), NEW s \in Replicas
  PROVE  Unsaved(s) \subseteq Unsaved(s)'
  <1> DEFINE n == Len(executions)
             x == Head(pending[r])
  <1>1. UNCHANGED worker
    BY DEF Send
  <1>2. CASE s # r
    BY <1>1, <1>2, UnsavedKept DEF Send, TypeOK, Running
  <1>3. CASE s = r
    <2>1. /\ pending[r] \in Seq(1 .. n) /\ pending[r] # <<>>
          /\ jobChan[r] \in Seq(1 .. n) /\ x \in 1 .. n
      BY HandedOver DEF Send, TypeOK
    <2>2. pending'[r] = Tail(pending[r]) /\ jobChan'[r] = Append(jobChan[r], x)
      BY DEF Send, Rest, TypeOK
    <2>3. Elements(pending[r]) \subseteq Elements(Tail(pending[r])) \cup {x}
      BY <2>1, TailKeeps
    <2>4. Elements(jobChan[r]) \cup {x} \subseteq Elements(Append(jobChan[r], x))
      <3> HIDE DEF x, n
      <3>1. /\ DOMAIN jobChan[r] = 1 .. Len(jobChan[r]) /\ Len(jobChan[r]) \in Nat
            /\ DOMAIN Append(jobChan[r], x) = 1 .. Len(jobChan[r]) + 1
            /\ \A i \in 1 .. Len(jobChan[r]) : Append(jobChan[r], x)[i] = jobChan[r][i]
            /\ Append(jobChan[r], x)[Len(jobChan[r]) + 1] = x
        BY <2>1, AppendElements
      <3>2. QED
        BY <3>1 DEF Elements
    <2>5. QED
      BY <1>1, <1>3, <2>2, <2>3, <2>4 DEF Unsaved, RunningWith, Running
  <1>4. QED
    BY <1>2, <1>3

LEMMA ReceiveKeeps ==
  ASSUME TypeOK, NEW r \in Replicas, NEW w \in Workers, Receive(r, w), NEW s \in Replicas
  PROVE  Unsaved(s) \subseteq Unsaved(s)'
  <1> DEFINE n == Len(executions)
             x == Head(jobChan[r])
  <1>1. UNCHANGED pending /\ \A u \in Replicas : u # r => worker'[u] = worker[u] /\ jobChan'[u] = jobChan[u]
    BY WorkFrame DEF Work
  <1>2. CASE s # r
    BY <1>1, <1>2, UnsavedKept DEF Running
  <1>3. CASE s = r
    <2>1. /\ jobChan[r] \in Seq(1 .. n) /\ jobChan[r] # <<>> /\ jobChan'[r] = Tail(jobChan[r])
          /\ ~Running(r, w) /\ Running(r, w)' /\ worker'[r][w].exec = x
          /\ \A v \in Workers : v # w => worker'[r][v] = worker[r][v]
      BY DEF Receive, SetWorker, TypeOK, Running
    <2>2. Elements(jobChan[r]) \subseteq Elements(Tail(jobChan[r])) \cup {x}
      BY <2>1, TailKeeps
    <2>3. x \in RunningWith(r)' /\ RunningWith(r) \subseteq RunningWith(r)'
      BY <2>1 DEF RunningWith, Running
    <2>4. QED
      BY <1>1, <1>3, <2>1, <2>2, <2>3 DEF Unsaved
  <1>4. QED
    BY <1>2, <1>3

LEMMA NeverDroppedStep ==
  ASSUME SafetyInv, DrainInv, {"mark", "save"} \cap Faults = {}, [Next]_vars,
         NEW s \in Replicas, NEW e \in Unsaved(s)
  PROVE  e \in Unsaved(s)' \/ LetGo(s, e)
  <1>1. TypeOK /\ ControlOK
    BY DEF SafetyInv
  <1>2. CASE UNCHANGED <<pending, jobChan, worker>>
    BY <1>2, UnsavedKept DEF Running
  <1>3. ASSUME NEW r \in Replicas, Start(r) \/ Crash(r)
        PROVE  e \in Unsaved(s)' \/ LetGo(s, e)
    <2>1. CASE s = r
      <3>1. ~Start(r)
        BY <1>1, <2>1, NothingToSave DEF Start
      <3>2. phase'[r] = "down"
        BY <1>1, <1>3, <3>1 DEF Crash, TypeOK
      <3>3. QED
        BY <2>1, <3>2 DEF LetGo
    <2>2. CASE s # r
      <3>1. pending'[s] = pending[s] /\ jobChan'[s] = jobChan[s] /\ worker'[s] = worker[s]
        BY <1>1, <1>3, <2>2 DEF Start, Crash, ResetProcess, TypeOK
      <3>2. QED
        BY <3>1, UnsavedKept DEF Running
    <2>3. QED
      BY <2>1, <2>2
  <1>4. ASSUME NEW r \in Replicas, CommitClaim(r)
        PROVE  e \in Unsaved(s)'
    <2>1. pending[r] = <<>> /\ UNCHANGED <<jobChan, worker>>
      BY <1>1, <1>4 DEF CommitClaim, ControlOK
    <2>2. \A u \in Replicas : u # r => pending'[u] = pending[u]
      BY <1>1, <1>4 DEF CommitClaim, TypeOK
    <2>3. QED
      BY <2>1, <2>2 DEF Unsaved, Elements, RunningWith, Running
  <1>5. ASSUME NEW r \in Replicas, NEW w \in Workers,
               WriteBackJob(r, w) \/ Notify(r, w) \/ WorkerExits(r, w)
        PROVE  e \in Unsaved(s)'
    <2>1. UNCHANGED <<pending, jobChan>> /\ ~Running(r, w)
      BY <1>5 DEF WriteBackJob, Notify, WorkerExits, Running
    <2>2. \A u \in Replicas, v \in Workers : u # r \/ v # w => worker'[u][v] = worker[u][v]
      BY <1>1, <1>5, WorkFrame DEF Work
    <2>3. QED
      BY <2>1, <2>2, UnsavedKept DEF Running
  <1>6. QED
    <2>1. CASE TimePasses \/ UNCHANGED vars
      BY <1>2, <2>1 DEF TimePasses, vars
    <2>2. ASSUME NEW r \in Replicas,
                 \/ Start(r) \/ Crash(r) \/ Terminate(r) \/ RecoverStale(r)
                 \/ GraceExpires(r) \/ Shutdown(r)
          PROVE  e \in Unsaved(s)' \/ LetGo(s, e)
      <3>1. CASE Terminate(r) \/ RecoverStale(r) \/ GraceExpires(r) \/ Shutdown(r)
        BY <1>2, <3>1 DEF Terminate, RecoverStale, GraceExpires, Shutdown, ExitLoop, Drained, Return
      <3>2. QED
        BY <1>3, <2>2, <3>1
    <2>3. ASSUME NEW r \in Replicas, Tick(r) PROVE e \in Unsaved(s)' \/ LetGo(s, e)
      <3>1. CASE ScanDue(r) \/ AdvanceNextRun(r) \/ LoseCommit(r) \/ RollbackClaim(r) \/ Saturate(r)
        BY <1>2, <3>1 DEF ScanDue, AdvanceNextRun, LoseCommit, RollbackClaim, Saturate
      <3>2. CASE Send(r)
        BY <1>1, <3>2, SendKeeps
      <3>3. CASE AbandonOnShutdown(r) \/ MarkSaturated(r)
        BY <3>3, MarkDropsOne
      <3>4. QED
        BY <1>4, <2>3, <3>1, <3>2, <3>3 DEF Tick
    <2>4. ASSUME NEW r \in Replicas, NEW w \in Workers, Work(r, w)
          PROVE  e \in Unsaved(s)' \/ LetGo(s, e)
      <3>1. CASE Receive(r, w)
        BY <1>1, <3>1, ReceiveKeeps
      <3>2. CASE FinishExecution(r, w)
        BY <3>2, FinishDropsOne
      <3>3. QED
        BY <1>5, <2>4, <3>1, <3>2 DEF Work
    <2>5. QED
      BY <2>1, <2>2, <2>3, <2>4 DEF Next

\* While the statements that write outcomes succeed, a live replica gives a claim up
\* only with an outcome in its row, but for the race of markFailed with the cancelled
\* context; a drain drops nothing, and neither does a full channel.
THEOREM ClaimsAreKept ==
  ASSUME {"mark", "save"} \cap Faults = {}
  PROVE  Spec => NeverDropped
  <1>1. SafetyInv /\ DrainInv /\ [Next]_vars =>
          \A r \in Replicas : \A e \in Unsaved(r) : e \in Unsaved(r)' \/ LetGo(r, e)
    BY NeverDroppedStep
  <1>2. QED
    BY <1>1, PipelineInvariant, PTL DEF Spec, NeverDropped

-----------------------------------------------------------------------------
(* Notifications.                                                           *)

\* The row of an execution that a worker has settled is as the worker left it, and
\* no row is deleted.
Settled(e) == executions[e].error = "executor" /\ executions[e].status \in Terminal
Ends(e)    == Wanted(claims[e].row.condition, executions[e].status)

AtReport(r, w) == worker[r][w].pc \in {"writing", "notifying"}

RowsSettled ==
  /\ \A e \in DOMAIN executions :
       /\ executions[e].status # "deleted"
       /\ executions[e].error = "executor" => executions[e].status \in Terminal
  /\ \A r \in Replicas, w \in Workers : AtReport(r, w) =>
       Settled(worker[r][w].exec) /\ executions[worker[r][w].exec].status = worker[r][w].status
  /\ \A e \in dispatched : Settled(e) /\ Ends(e)

\* What a worker has settled is being reported or has been, as its job asks.
ReportsMade ==
  \A e \in DOMAIN executions : executions[e].error = "executor" =>
    \/ \E r \in Replicas, w \in Workers : AtReport(r, w) /\ worker[r][w].exec = e
    \/ e \in dispatched <=> Ends(e)

LEMMA NotifyRule ==
  ASSUME NEW c \in Conditions, NEW status \in Terminal
  PROVE  ShouldNotify(c, status) <=> Wanted(c, status)
  BY DEF ShouldNotify, Wanted, IsFailure, Conditions, Terminal

LEMMA ClaimsStay ==
  ASSUME TypeOK, ControlOK, [Next]_vars, NEW e \in DOMAIN claims
  PROVE  claims'[e] = claims[e]
  <1>1. ASSUME NEW r \in Replicas, CommitClaim(r) \/ LoseCommit(r)
        PROVE  claims'[e] = claims[e]
    BY <1>1, CommittedRows DEF CommitClaim, LoseCommit
  <1>2. CASE UNCHANGED claims
    BY <1>2
  <1>3. CASE TimePasses \/ UNCHANGED vars
    BY <1>2, <1>3 DEF TimePasses, vars, dbVars
  <1>4. ASSUME NEW r \in Replicas,
               \/ Start(r) \/ Crash(r) \/ Terminate(r) \/ RecoverStale(r) \/ GraceExpires(r)
               \/ Shutdown(r)
        PROVE  claims'[e] = claims[e]
    BY <1>2, <1>4 DEF Start, Crash, Terminate, RecoverStale, GraceExpires, Shutdown, ExitLoop,
                      Drained, Return, dbVars
  <1>5. ASSUME NEW r \in Replicas, Tick(r) PROVE claims'[e] = claims[e]
    <2>1. CASE \/ ScanDue(r) \/ AdvanceNextRun(r) \/ RollbackClaim(r) \/ Send(r)
               \/ AbandonOnShutdown(r) \/ Saturate(r) \/ MarkSaturated(r)
      BY <1>2, <2>1 DEF ScanDue, AdvanceNextRun, RollbackClaim, Send, AbandonOnShutdown,
                        Saturate, MarkSaturated, dbVars
    <2>2. QED
      BY <1>1, <1>5, <2>1 DEF Tick
  <1>6. ASSUME NEW r \in Replicas, NEW w \in Workers, Work(r, w) PROVE claims'[e] = claims[e]
    BY <1>2, <1>6 DEF Work, Receive, FinishExecution, WriteBackJob, Notify, WorkerExits, dbVars
  <1>7. QED
    BY <1>3, <1>4, <1>5, <1>6 DEF Next

\* A saved row, when the statement does not fail and the row is there.
LEMMA StoredRow ==
  ASSUME TypeOK, NEW e \in DOMAIN executions, NEW status \in ExecStatuses, NEW reason \in Reasons,
         NEW fault, SaveOutcome(e, status, reason, fault), executions[e].status # "deleted"
  PROVE  /\ \A d \in DOMAIN executions : d # e => executions'[d] = executions[d]
         /\ DOMAIN executions' = DOMAIN executions
         /\ \/ executions'[e].status = status /\ executions'[e].error = reason
            \/ fault \in Faults /\ executions' = executions
  <1>1. executions[e] \in ExecRows
    BY DEF TypeOK
  <1> DEFINE row == WithOutcome(executions[e], status, reason)
  <1>2. row.status = status /\ row.error = reason
    BY <1>1 DEF WithOutcome, ExecRows
  <1>3. executions' = [executions EXCEPT ![e] = row] \/ (fault \in Faults /\ executions' = executions)
    BY DEF SaveOutcome
  <1> HIDE DEF row
  <1>4. QED
    BY <1>2, <1>3

\* What a step does to the row of e.
RowKept(e) == e \in DOMAIN executions /\ executions'[e] = executions[e]
RowFinished(e, r, w) ==
  /\ FinishExecution(r, w) /\ e = worker[r][w].exec
  /\ executions'[e].error = "executor" /\ executions'[e].status \in Terminal
  /\ worker'[r][w] = [pc |-> "writing", exec |-> e, status |-> executions'[e].status]

LEMMA FinishedRow ==
  ASSUME SafetyInv, "save" \notin Faults,
         \A d \in DOMAIN executions : executions[d].status # "deleted",
         NEW r \in Replicas, NEW w \in Workers, FinishExecution(r, w),
         NEW x, x = worker[r][w].exec
  PROVE  /\ x \in DOMAIN executions /\ RowFinished(x, r, w)
         /\ DOMAIN executions' = DOMAIN executions
         /\ \A c \in DOMAIN executions : c # x => executions'[c] = executions[c]
  <1>1. TypeOK /\ ControlOK /\ InClaimOrder /\ HeldApart
    BY DEF SafetyInv
  <1>2. x \in DOMAIN executions
    BY <1>1, FinishedIsLetGo
  <1>3. PICK status \in Terminal :
          /\ SaveOutcome(x, status, "executor", "save")
          /\ SetWorker(r, w, [pc |-> "writing", exec |-> x, status |-> status])
    BY OutcomesAreTerminal DEF FinishExecution
  <1>4. worker'[r][w] = [pc |-> "writing", exec |-> x, status |-> status]
    BY <1>1, <1>3, SetWorkerFrame
  <1>5. /\ DOMAIN executions' = DOMAIN executions
        /\ \A c \in DOMAIN executions : c # x => executions'[c] = executions[c]
        /\ executions'[x].status = status /\ executions'[x].error = "executor"
    BY <1>1, <1>2, <1>3, StoredRow DEF Terminal, ExecStatuses, Reasons
  <1>6. QED
    BY <1>2, <1>4, <1>5 DEF RowFinished

LEMMA RowChange ==
  ASSUME SafetyInv, "save" \notin Faults, [Next]_vars, NEW e \in DOMAIN executions',
         \A d \in DOMAIN executions : executions[d].status # "deleted"
  PROVE  \/ RowKept(e)
         \/ executions'[e].error # "executor" /\ executions'[e].status # "deleted"
         \/ \E r \in Replicas, w \in Workers : RowFinished(e, r, w)
  <1> DEFINE Goal == \/ RowKept(e)
                     \/ executions'[e].error # "executor" /\ executions'[e].status # "deleted"
                     \/ \E r \in Replicas, w \in Workers : RowFinished(e, r, w)
  <1>1. TypeOK /\ ControlOK /\ InClaimOrder /\ HeldApart
    BY DEF SafetyInv
  <1>2. CASE UNCHANGED executions
    BY <1>2 DEF RowKept
  <1>3. ASSUME NEW r \in Replicas, RecoverStale(r) PROVE Goal
    <2>1. /\ DOMAIN executions' = DOMAIN executions
          /\ \/ executions'[e] = executions[e]
             \/ executions'[e] = WithOutcome(executions[e], "error", "stale")
      BY <1>3 DEF RecoverStale
    <2>2. executions[e] \in ExecRows /\ executions[e].status # "deleted"
      BY <1>1, <2>1 DEF TypeOK
    <2>3. WithOutcome(executions[e], "error", "stale").error = "stale"
      BY <2>2 DEF WithOutcome, ExecRows
    <2>4. WithOutcome(executions[e], "error", "stale").status = "error"
      BY <2>2 DEF WithOutcome, ExecRows
    <2>5. QED
      BY <2>1, <2>3, <2>4 DEF RowKept
  <1>4. ASSUME NEW r \in Replicas, AbandonOnShutdown(r) \/ MarkSaturated(r) PROVE Goal
    <2> DEFINE d == Head(pending[r])
    <2>1. /\ d \in DOMAIN executions
          /\ \/ UNCHANGED executions
             \/ SaveOutcome(d, "error", "shutdown", "mark")
             \/ SaveOutcome(d, "error", "saturated", "mark")
      BY <1>1, <1>4, MarkedIsLetGo
    <2> HIDE DEF d
    <2>2. \/ UNCHANGED executions
          \/ /\ DOMAIN executions' = DOMAIN executions
             /\ \A c \in DOMAIN executions : c # d => executions'[c] = executions[c]
             /\ executions'[d].status = "error" /\ executions'[d].error # "executor"
      BY <1>1, <2>1, StoredRow DEF ExecStatuses, Reasons
    <2>3. QED
      BY <1>2, <2>2 DEF RowKept
  <1>5. ASSUME NEW r \in Replicas, NEW w \in Workers, FinishExecution(r, w) PROVE Goal
    <2>1. PICK d : d = worker[r][w].exec
      OBVIOUS
    <2>2. /\ RowFinished(d, r, w) /\ DOMAIN executions' = DOMAIN executions
          /\ \A c \in DOMAIN executions : c # d => executions'[c] = executions[c]
      BY <1>5, <2>1, FinishedRow
    <2>3. QED
      BY <2>2 DEF RowKept
  <1>6. ASSUME NEW r \in Replicas, CommitClaim(r) \/ LoseCommit(r) PROVE Goal
    <2>1. CommitWrites(r)
      BY <1>6 DEF CommitClaim, LoseCommit
    <2>2. CASE e \in DOMAIN executions
      BY <1>1, <2>1, <2>2, CommitWritesTyped DEF RowKept
    <2>3. CASE e \notin DOMAIN executions
      <3> DEFINE n == Len(executions)
                 k == Len(batch[r])
      <3>1. /\ n \in Nat /\ k \in Nat /\ DOMAIN executions = 1 .. n
            /\ DOMAIN executions' = 1 .. n + k
        BY <1>1, <2>1, CommittedRows
      <3>2. \A i \in 1 .. k : executions'[n + i] =
              [job |-> batch[r][i], status |-> "running", error |-> "none",
               startedAt |-> claimedAt[r]]
        BY <1>1, <2>1, CommittedRows
      <3> HIDE DEF n, k
      <3>3. PICK i \in 1 .. k : n + i = e
        <4>1. e - n \in 1 .. k /\ n + (e - n) = e
          BY <2>3, <3>1
        <4>2. QED
          BY <4>1
      <3>4. executions'[e] = [job |-> batch[r][i], status |-> "running", error |-> "none",
                              startedAt |-> claimedAt[r]]
        BY <3>2, <3>3
      <3>5. executions'[e].error = "none" /\ executions'[e].status = "running"
        BY <3>4
      <3>6. QED
        BY <3>5
    <2>4. QED
      BY <2>2, <2>3
  <1>7. QED
    <2>1. CASE TimePasses \/ UNCHANGED vars
      BY <1>2, <2>1 DEF TimePasses, vars, dbVars
    <2>2. ASSUME NEW r \in Replicas,
                 \/ Start(r) \/ Crash(r) \/ Terminate(r) \/ RecoverStale(r)
                 \/ GraceExpires(r) \/ Shutdown(r)
          PROVE  Goal
      <3>1. CASE Start(r) \/ Crash(r) \/ Terminate(r) \/ GraceExpires(r) \/ Shutdown(r)
        BY <1>2, <3>1 DEF Start, Crash, Terminate, GraceExpires, Shutdown, ExitLoop, Drained,
                          Return, dbVars
      <3>2. QED
        BY <1>3, <2>2, <3>1
    <2>3. ASSUME NEW r \in Replicas, Tick(r) PROVE Goal
      <3>1. CASE ScanDue(r) \/ AdvanceNextRun(r) \/ RollbackClaim(r) \/ Send(r) \/ Saturate(r)
        BY <1>2, <3>1 DEF ScanDue, AdvanceNextRun, RollbackClaim, Send, Saturate, dbVars
      <3>2. QED
        BY <1>4, <1>6, <2>3, <3>1 DEF Tick
    <2>4. ASSUME NEW r \in Replicas, NEW w \in Workers, Work(r, w) PROVE Goal
      <3>1. CASE Receive(r, w) \/ WriteBackJob(r, w) \/ Notify(r, w) \/ WorkerExits(r, w)
        BY <1>2, <3>1 DEF Receive, WriteBackJob, Notify, WorkerExits, dbVars
      <3>2. QED
        BY <1>5, <2>4, <3>1 DEF Work
    <2>5. QED
      BY <2>1, <2>2, <2>3, <2>4 DEF Next

\* Who reports after a step has just finished or has reported before, and who reports
\* goes on, notifies or goes down with its process.
SameReporter(r, w) ==
  /\ AtReport(r, w) /\ AtReport(r, w)'
  /\ worker'[r][w].exec = worker[r][w].exec /\ worker'[r][w].status = worker[r][w].status

LEMMA WorkReports ==
  ASSUME TypeOK, NEW s \in Replicas, NEW v \in Workers, Work(s, v), NEW r \in Replicas, NEW w \in Workers
  PROVE  /\ AtReport(r, w)' => SameReporter(r, w) \/ FinishExecution(r, w)
         /\ AtReport(r, w) => SameReporter(r, w) \/ Notify(r, w)
  <1>1. CASE r # s \/ w # v
    <2>1. worker'[r][w] = worker[r][w]
      BY <1>1, WorkFrame
    <2>2. QED
      BY <2>1 DEF AtReport, SameReporter
  <1>2. CASE r = s /\ w = v
    <2>1. CASE Receive(s, v) \/ WorkerExits(s, v)
      <3>1. ~AtReport(s, v)
        BY <2>1 DEF Receive, WorkerExits, AtReport
      <3>2. \E rec : rec.pc \in {"executing", "cancelled", "exited"} /\ SetWorker(s, v, rec)
        BY <2>1 DEF Receive, WorkerExits, IdleWorker
      <3>3. ~AtReport(s, v)'
        BY <3>2, SetWorkerFrame DEF AtReport
      <3>4. QED
        BY <1>2, <3>1, <3>3
    <2>2. CASE FinishExecution(s, v)
      BY <1>2, <2>2 DEF FinishExecution, AtReport
    <2>3. CASE WriteBackJob(s, v)
      <3> DEFINE next == [worker[s][v] EXCEPT !.pc = "notifying"]
      <3>1. worker[s][v] \in [pc : WorkerPCs, exec : 0 .. Len(executions), status : ExecStatuses]
        BY DEF TypeOK
      <3>2. next.pc = "notifying" /\ next.exec = worker[s][v].exec /\ next.status = worker[s][v].status
        BY <3>1
      <3>3. SetWorker(s, v, next) /\ AtReport(s, v)
        BY <2>3 DEF WriteBackJob, AtReport
      <3>4. worker'[s][v] = next
        BY <3>3, SetWorkerFrame
      <3> HIDE DEF next
      <3>5. QED
        BY <1>2, <3>2, <3>3, <3>4 DEF SameReporter, AtReport
    <2>4. CASE Notify(s, v)
      <3>1. SetWorker(s, v, IdleWorker)
        BY <2>4 DEF Notify
      <3>2. worker'[s][v].pc = "idle"
        BY <3>1, SetWorkerFrame DEF IdleWorker
      <3>3. QED
        BY <1>2, <2>4, <3>2 DEF AtReport
    <2>5. QED
      BY <2>1, <2>2, <2>3, <2>4 DEF Work
  <1>3. QED
    BY <1>1, <1>2

LEMMA Reports ==
  ASSUME SafetyInv, DrainInv, [Next]_vars, NEW r \in Replicas, NEW w \in Workers
  PROVE  /\ AtReport(r, w)' => SameReporter(r, w) \/ FinishExecution(r, w)
         /\ AtReport(r, w) => SameReporter(r, w) \/ Notify(r, w) \/ "crash" \in Faults
  <1> DEFINE Goal == /\ AtReport(r, w)' => SameReporter(r, w) \/ FinishExecution(r, w)
                     /\ AtReport(r, w) => SameReporter(r, w) \/ Notify(r, w) \/ "crash" \in Faults
  <1>1. TypeOK /\ ControlOK
    BY DEF SafetyInv
  <1>2. CASE worker'[r] = worker[r]
    BY <1>2 DEF AtReport, SameReporter
  <1>3. ASSUME NEW s \in Replicas, Start(s) \/ Crash(s) PROVE Goal
    <2>1. CASE r # s
      BY <1>1, <1>2, <1>3, <2>1 DEF Start, Crash, ResetProcess, TypeOK
    <2>2. CASE r = s
      <3>1. ~AtReport(r, w)'
        BY <1>1, <1>3, <2>2 DEF Start, Crash, ResetProcess, TypeOK, IdleWorker, AtReport
      <3>2. Start(r) => ~AtReport(r, w)
        BY DEF Start, DrainInv, DrainOK, AllExited, AtReport
      <3>3. QED
        BY <1>3, <2>2, <3>1, <3>2 DEF Crash
    <2>3. QED
      BY <2>1, <2>2
  <1>4. CASE UNCHANGED worker
    BY <1>2, <1>4
  <1>5. CASE TimePasses \/ UNCHANGED vars
    BY <1>4, <1>5 DEF TimePasses, vars
  <1>6. ASSUME NEW s \in Replicas,
               Terminate(s) \/ RecoverStale(s) \/ GraceExpires(s) \/ Shutdown(s) \/ Tick(s)
        PROVE  Goal
    BY <1>4, <1>6 DEF Terminate, RecoverStale, GraceExpires, Shutdown, ExitLoop, Drained, Return,
         Tick, ScanDue, AdvanceNextRun, CommitClaim, LoseCommit, RollbackClaim, Send,
         AbandonOnShutdown, Saturate, MarkSaturated
  <1>7. ASSUME NEW s \in Replicas, NEW v \in Workers, Work(s, v) PROVE Goal
    BY <1>1, <1>7, WorkReports
  <1>8. QED
    BY <1>3, <1>5, <1>6, <1>7 DEF Next

\* Only Notify hands an execution to the dispatcher, that of its worker, if its outcome
\* is one its job asks for.
LEMMA DispatchedStep ==
  ASSUME [Next]_vars
  PROVE  UNCHANGED dispatched \/ \E r \in Replicas, w \in Workers : Notify(r, w)
  <1>1. CASE TimePasses \/ UNCHANGED vars
    BY <1>1 DEF TimePasses, vars
  <1>2. ASSUME NEW r \in Replicas,
               \/ Start(r) \/ Crash(r) \/ Terminate(r) \/ RecoverStale(r) \/ GraceExpires(r)
               \/ Shutdown(r)
        PROVE  UNCHANGED dispatched
    BY <1>2 DEF Start, Crash, Terminate, RecoverStale, GraceExpires, Shutdown, ExitLoop, Drained,
                Return
  <1>3. ASSUME NEW r \in Replicas, Tick(r) PROVE UNCHANGED dispatched
    BY <1>3 DEF Tick, ScanDue, AdvanceNextRun, CommitClaim, LoseCommit, RollbackClaim, Send,
                AbandonOnShutdown, Saturate, MarkSaturated
  <1>4. ASSUME NEW r \in Replicas, NEW w \in Workers, Work(r, w)
        PROVE  UNCHANGED dispatched \/ Notify(r, w)
    BY <1>4 DEF Work, Receive, FinishExecution, WriteBackJob, WorkerExits
  <1>5. QED
    BY <1>1, <1>2, <1>3, <1>4 DEF Next

LEMMA NotifyDispatches ==
  ASSUME SafetyInv, RowsSettled, NEW r \in Replicas, NEW w \in Workers, Notify(r, w)
  PROVE  LET e == worker[r][w].exec IN
         /\ Settled(e) /\ e \in DOMAIN executions
         /\ dispatched' = IF Ends(e) THEN dispatched \cup {e} ELSE dispatched
  <1> DEFINE e == worker[r][w].exec
  <1>1. AtReport(r, w) /\ Busy(r, w)
    BY DEF Notify, AtReport, Busy
  <1>2. Settled(e) /\ executions[e].status = worker[r][w].status /\ executions[e].status \in Terminal
    BY <1>1 DEF RowsSettled, Settled
  <1>3. TypeOK /\ ControlOK
    BY DEF SafetyInv
  <1>4. e \in DOMAIN executions
    BY <1>1, <1>3 DEF ControlOK
  <1>5. claims[e].row.condition \in Conditions
    <2>1. claims \in Seq(JobClaims) /\ e \in DOMAIN claims
      BY <1>3, <1>4, LenProperties DEF TypeOK
    <2>2. claims[e] \in JobClaims
      BY <2>1, ElementOfSeq, LenProperties
    <2>3. QED
      BY <2>2 DEF JobClaims, JobRows
  <1>6. ShouldNotify(claims[e].row.condition, worker[r][w].status) <=> Ends(e)
    BY <1>2, <1>5, NotifyRule DEF Ends
  <1>7. dispatched' = IF ShouldNotify(claims[e].row.condition, worker[r][w].status)
                      THEN dispatched \cup {e} ELSE dispatched
    BY DEF Notify
  <1>8. QED
    BY <1>2, <1>4, <1>6, <1>7

LEMMA RowsSettledStep ==
  ASSUME SafetyInv, DrainInv, RowsSettled, "save" \notin Faults, [Next]_vars
  PROVE  RowsSettled'
  <1>1. TypeOK /\ ControlOK /\ TypeOK' /\ ControlOK'
    BY StepTyped DEF SafetyInv
  <1>2. DOMAIN claims = DOMAIN executions
    BY <1>1, LenProperties DEF TypeOK
  <1>3. ASSUME NEW e \in DOMAIN executions'
        PROVE  /\ executions'[e].status # "deleted"
               /\ executions'[e].error = "executor" => executions'[e].status \in Terminal
    <2>1. \/ RowKept(e)
          \/ executions'[e].error # "executor" /\ executions'[e].status # "deleted"
          \/ \E r \in Replicas, w \in Workers : RowFinished(e, r, w)
      BY <1>3, RowChange DEF RowsSettled
    <2>2. CASE RowKept(e)
      BY <2>2 DEF RowKept, RowsSettled
    <2>3. ASSUME NEW r \in Replicas, NEW w \in Workers, RowFinished(e, r, w)
          PROVE  executions'[e].status \in Terminal
      BY <2>3 DEF RowFinished
    <2>4. QED
      BY <2>1, <2>2, <2>3 DEF Terminal
  <1>4. ASSUME NEW e \in DOMAIN executions, Settled(e)
        PROVE  Settled(e)' /\ executions'[e] = executions[e] /\ claims'[e] = claims[e]
    <2>1. executions'[e] = executions[e]
      BY <1>4, FinalStep DEF Settled
    <2>2. QED
      BY <1>1, <1>2, <1>4, <2>1, ClaimsStay DEF Settled
  <1>5. ASSUME NEW r \in Replicas, NEW w \in Workers, AtReport(r, w)'
        PROVE  /\ Settled(worker[r][w].exec)'
               /\ executions'[worker'[r][w].exec].status = worker'[r][w].status
    <2>1. PICK e : e = worker'[r][w].exec
      OBVIOUS
    <2>2. CASE SameReporter(r, w)
      <3>1. Busy(r, w) /\ worker[r][w].exec = e /\ worker'[r][w].status = worker[r][w].status
        BY <2>1, <2>2 DEF SameReporter, AtReport, Busy
      <3>2. e \in DOMAIN executions
        BY <1>1, <3>1 DEF ControlOK
      <3>3. Settled(e) /\ executions[e].status = worker[r][w].status
        BY <2>2, <3>1 DEF RowsSettled, SameReporter
      <3>4. QED
        BY <1>4, <2>1, <3>1, <3>2, <3>3
    <2>3. CASE FinishExecution(r, w)
      <3>1. PICK d : d = worker[r][w].exec
        OBVIOUS
      <3>2. RowFinished(d, r, w)
        BY <2>3, <3>1, FinishedRow DEF RowsSettled
      <3>3. /\ worker'[r][w].exec = d /\ worker'[r][w].status = executions'[d].status
            /\ executions'[d].error = "executor" /\ executions'[d].status \in Terminal
        BY <3>2 DEF RowFinished
      <3>4. QED
        BY <3>3 DEF Settled
    <2>4. QED
      BY <1>5, <2>2, <2>3, Reports
  <1>6. ASSUME NEW e \in dispatched'
        PROVE  Settled(e)' /\ Ends(e)'
    <2>1. e \in DOMAIN executions /\ Settled(e) /\ Ends(e)
      <3>1. CASE e \in dispatched
        BY <1>1, <3>1, LenProperties DEF RowsSettled, TypeOK
      <3>2. CASE e \notin dispatched
        <4>1. PICK r \in Replicas, w \in Workers : Notify(r, w)
          BY <1>6, <3>2, DispatchedStep
        <4>2. QED
          BY <1>6, <3>2, <4>1, NotifyDispatches
      <3>3. QED
        BY <3>1, <3>2
    <2>2. QED
      BY <1>4, <2>1 DEF Ends
  <1>7. QED
    BY <1>3, <1>5, <1>6 DEF RowsSettled

LEMMA ReportsMadeStep ==
  ASSUME SafetyInv, DrainInv, RowsSettled, ReportsMade, {"save", "crash"} \cap Faults = {},
         [Next]_vars
  PROVE  ReportsMade'
  <1>1. TypeOK /\ ControlOK
    BY DEF SafetyInv
  <1>2. DOMAIN claims = DOMAIN executions
    BY <1>1, LenProperties DEF TypeOK
  <1> SUFFICES ASSUME NEW e \in DOMAIN executions', executions'[e].error = "executor"
               PROVE  \/ \E r \in Replicas, w \in Workers : AtReport(r, w)' /\ worker'[r][w].exec = e
                      \/ e \in dispatched' <=> Ends(e)'
    BY DEF ReportsMade
  <1>3. CASE \E r \in Replicas, w \in Workers : RowFinished(e, r, w)
    <2>1. PICK r \in Replicas, w \in Workers : RowFinished(e, r, w)
      BY <1>3
    <2>2. AtReport(r, w)' /\ worker'[r][w].exec = e
      BY <2>1 DEF RowFinished, AtReport
    <2>3. QED
      BY <2>2
  <1>4. CASE RowKept(e)
    <2>1. e \in DOMAIN executions /\ executions'[e] = executions[e] /\ claims'[e] = claims[e]
      BY <1>1, <1>2, <1>4, ClaimsStay DEF RowKept
    <2>2. Ends(e)' <=> Ends(e)
      BY <2>1 DEF Ends
    <2>3. ASSUME NEW r \in Replicas, NEW w \in Workers, Notify(r, w), worker[r][w].exec = e
          PROVE  e \in dispatched' <=> Ends(e)
      <3>1. dispatched' = IF Ends(e) THEN dispatched \cup {e} ELSE dispatched
        BY <2>3, NotifyDispatches
      <3>2. e \in dispatched => Ends(e)
        BY DEF RowsSettled
      <3>3. QED
        BY <3>1, <3>2
    <2>4. CASE \E r \in Replicas, w \in Workers : AtReport(r, w) /\ worker[r][w].exec = e
      <3>1. PICK r \in Replicas, w \in Workers : AtReport(r, w) /\ worker[r][w].exec = e
        BY <2>4
      <3>2. SameReporter(r, w) \/ Notify(r, w)
        BY <3>1, Reports
      <3>3. CASE SameReporter(r, w)
        BY <3>1, <3>3 DEF SameReporter
      <3>4. CASE Notify(r, w)
        BY <2>2, <2>3, <3>1, <3>4
      <3>5. QED
        BY <3>2, <3>3, <3>4
    <2>5. CASE e \in dispatched <=> Ends(e)
      <3>1. CASE UNCHANGED dispatched
        BY <2>2, <2>5, <3>1
      <3>2. ASSUME NEW r \in Replicas, NEW w \in Workers, Notify(r, w)
            PROVE  e \in dispatched' <=> Ends(e)
        <4>1. CASE worker[r][w].exec = e
          BY <2>3, <3>2, <4>1
        <4>2. CASE worker[r][w].exec # e
          <5>1. e \in dispatched' <=> e \in dispatched
            BY <3>2, <4>2, NotifyDispatches
          <5>2. QED
            BY <2>5, <5>1
        <4>3. QED
          BY <4>1, <4>2
      <3>3. QED
        BY <2>2, <3>1, <3>2, DispatchedStep
    <2>6. QED
      BY <2>1, <2>4, <2>5 DEF ReportsMade
  <1>5. QED
    BY <1>3, <1>4, RowChange DEF RowsSettled

LEMMA ReportsInit == Fresh => RowsSettled /\ ReportsMade
  <1> SUFFICES ASSUME Fresh
               PROVE  RowsSettled /\ ReportsMade
    OBVIOUS
  <1>1. DOMAIN executions = {} /\ dispatched = {}
    BY DEF Fresh
  <1>2. \A r \in Replicas, w \in Workers : ~AtReport(r, w)
    BY DEF Fresh, IdleWorker, AtReport
  <1>3. QED
    BY <1>1, <1>2 DEF RowsSettled, ReportsMade

\* While outcomes can be saved, a notification is only sent of a stored outcome of an
\* executor that the condition asks for, whatever crashes and is recovered meanwhile:
\* never of a row left running or closed by a recovery.
THEOREM NoUnwantedReport ==
  ASSUME "save" \notin Faults
  PROVE  Spec => []NotifiedOnlyIfWanted
  <1>1. Init => RowsSettled
    BY ReportsInit DEF Init
  <1>2. SafetyInv /\ DrainInv /\ RowsSettled /\ [Next]_vars => RowsSettled'
    BY RowsSettledStep
  <1>3. RowsSettled => NotifiedOnlyIfWanted
    BY DEF RowsSettled, Settled, Ends, NotifiedOnlyIfWanted
  <1>4. QED
    BY <1>1, <1>2, <1>3, PipelineInvariant, PTL DEF Spec

\* Without a failing save and without a crash the notifier is called exactly for the
\* executions whose outcome their condition asks for, once their worker is done.
THEOREM WantedReportsAreMade ==
  ASSUME {"save", "crash"} \cap Faults = {}
  PROVE  Spec => []NotifiedIffWanted
  <1>1. Init => RowsSettled /\ ReportsMade
    BY ReportsInit DEF Init
  <1>2. SafetyInv /\ DrainInv /\ RowsSettled /\ ReportsMade /\ [Next]_vars =>
          RowsSettled' /\ ReportsMade'
    BY RowsSettledStep, ReportsMadeStep
  <1>3. ReportsMade => NotifiedIffWanted
    <2>1. SUFFICES ASSUME ReportsMade, NEW e \in DOMAIN executions, executions[e].error = "executor",
                          \A r \in Replicas : e \notin Held(r)
                   PROVE  e \in dispatched <=> Ends(e)
      BY DEF NotifiedIffWanted, Ends
    <2>2. ASSUME NEW r \in Replicas, NEW w \in Workers, AtReport(r, w), worker[r][w].exec = e
          PROVE  FALSE
      <3>1. e \in BusyWith(r)
        BY <2>2 DEF AtReport, BusyWith, Busy
      <3>2. QED
        BY <2>1, <3>1 DEF Held
    <2>3. QED
      BY <2>1, <2>2 DEF ReportsMade
  <1>4. QED
    BY <1>1, <1>2, <1>3, PipelineInvariant, PTL DEF Spec

-----------------------------------------------------------------------------
(* Claims and the clock.                                                    *)

SameClaims ==
  /\ DOMAIN executions' = DOMAIN executions
  /\ \A e \in DOMAIN executions :
       /\ executions'[e].job = executions[e].job
       /\ executions'[e].startedAt = executions[e].startedAt
  /\ UNCHANGED claims

LEMMA SavedIsSame ==
  ASSUME TypeOK, NEW x \in DOMAIN executions, NEW status, NEW reason, NEW fault,
         SaveOutcome(x, status, reason, fault), UNCHANGED claims
  PROVE  SameClaims
  <1>1. executions[x] \in ExecRows
    BY DEF TypeOK
  <1> DEFINE row == WithOutcome(executions[x], status, reason)
  <1>2. row.job = executions[x].job /\ row.startedAt = executions[x].startedAt
    BY <1>1 DEF WithOutcome, ExecRows
  <1>3. executions' = [executions EXCEPT ![x] = row] \/ UNCHANGED executions
    BY DEF SaveOutcome
  <1> HIDE DEF row
  <1>4. QED
    BY <1>2, <1>3 DEF SameClaims

\* Only a commit adds claims, and nobody changes what an execution was claimed for.
LEMMA ClaimsOnlyGrow ==
  ASSUME SafetyInv, [Next]_vars
  PROVE  SameClaims \/ \E r \in Replicas : CommitClaim(r) \/ LoseCommit(r)
  <1>1. TypeOK /\ ControlOK /\ InClaimOrder /\ HeldApart
    BY DEF SafetyInv
  <1>2. ASSUME UNCHANGED <<executions, claims>> PROVE SameClaims
    BY <1>2 DEF SameClaims
  <1>3. ASSUME NEW r \in Replicas, RecoverStale(r) PROVE SameClaims
    <2>1. CASE UNCHANGED executions
      BY <1>2, <1>3, <2>1 DEF RecoverStale
    <2>2. ASSUME NEW t \in ReplicaTimes,
                 executions' = [e \in DOMAIN executions |->
                   IF Stale(executions[e], t) THEN WithOutcome(executions[e], "error", "stale")
                   ELSE executions[e]]
          PROVE  SameClaims
      <3>1. ASSUME NEW e \in DOMAIN executions
            PROVE  /\ WithOutcome(executions[e], "error", "stale").job = executions[e].job
                   /\ WithOutcome(executions[e], "error", "stale").startedAt
                        = executions[e].startedAt
        <4>1. executions[e] \in ExecRows
          BY <1>1 DEF TypeOK
        <4>2. QED
          BY <4>1 DEF WithOutcome, ExecRows
      <3>2. QED
        BY <1>3, <2>2, <3>1 DEF SameClaims, RecoverStale
    <2>3. QED
      BY <1>3, <2>1, <2>2 DEF RecoverStale
  <1>4. ASSUME NEW r \in Replicas, Tick(r), ~(CommitClaim(r) \/ LoseCommit(r))
        PROVE  SameClaims
    <2>1. CASE ScanDue(r) \/ AdvanceNextRun(r) \/ RollbackClaim(r) \/ Send(r) \/ Saturate(r)
      BY <1>2, <2>1 DEF ScanDue, AdvanceNextRun, RollbackClaim, Send, Saturate, dbVars
    <2>2. CASE AbandonOnShutdown(r) \/ MarkSaturated(r)
      <3> DEFINE d == Head(pending[r])
      <3>1. /\ d \in DOMAIN executions
            /\ \/ UNCHANGED executions
               \/ SaveOutcome(d, "error", "shutdown", "mark")
               \/ SaveOutcome(d, "error", "saturated", "mark")
        BY <1>1, <2>2, MarkedIsLetGo
      <3>2. UNCHANGED claims
        BY <2>2 DEF AbandonOnShutdown, MarkSaturated
      <3> HIDE DEF d
      <3>3. QED
        BY <1>1, <1>2, <3>1, <3>2, SavedIsSame
    <2>3. QED
      BY <1>4, <2>1, <2>2 DEF Tick
  <1>5. ASSUME NEW r \in Replicas, NEW w \in Workers, Work(r, w) PROVE SameClaims
    <2>1. CASE FinishExecution(r, w)
      <3> DEFINE d == worker[r][w].exec
      <3>1. d \in DOMAIN executions /\ \E status \in Terminal : SaveOutcome(d, status, "executor", "save")
        BY <1>1, <2>1, FinishedIsLetGo
      <3>2. UNCHANGED claims
        BY <2>1 DEF FinishExecution
      <3> HIDE DEF d
      <3>3. QED
        BY <1>1, <3>1, <3>2, SavedIsSame
    <2>2. CASE Receive(r, w) \/ WriteBackJob(r, w) \/ Notify(r, w) \/ WorkerExits(r, w)
      BY <1>2, <2>2 DEF Receive, WriteBackJob, Notify, WorkerExits, dbVars
    <2>3. QED
      BY <1>5, <2>1, <2>2 DEF Work
  <1>6. CASE TimePasses \/ UNCHANGED vars
    BY <1>2, <1>6 DEF TimePasses, vars, dbVars
  <1>7. ASSUME NEW r \in Replicas,
               Start(r) \/ Crash(r) \/ Terminate(r) \/ GraceExpires(r) \/ Shutdown(r)
        PROVE  SameClaims
    BY <1>2, <1>7 DEF Start, Crash, Terminate, GraceExpires, Shutdown, ExitLoop, Drained,
                      Return, dbVars
  <1>8. QED
    BY <1>3, <1>4, <1>5, <1>6, <1>7 DEF Next

\* What a commit adds, row by row.
LEMMA NewRow ==
  ASSUME TypeOK, ControlOK, NEW r \in Replicas, CommitWrites(r),
         NEW e \in DOMAIN executions', e \notin DOMAIN executions
  PROVE  \E i \in DOMAIN batch[r] :
           /\ e = Len(executions) + i
           /\ executions'[e].job = batch[r][i] /\ executions'[e].startedAt = claimedAt[r]
           /\ claims'[e].row = AdvancedRow(r, batch[r][i])
           /\ claims'[e].slot = scan[r][batch[r][i]].nextRun
  <1> DEFINE n == Len(executions)
             k == Len(batch[r])
  <1>1. /\ n \in Nat /\ k \in Nat /\ DOMAIN executions = 1 .. n /\ DOMAIN executions' = 1 .. n + k
        /\ \A i \in 1 .. k : /\ executions'[n + i] = [job |-> batch[r][i], status |-> "running",
                                                      error |-> "none", startedAt |-> claimedAt[r]]
                             /\ claims'[n + i].row = AdvancedRow(r, batch[r][i])
                             /\ claims'[n + i].slot = scan[r][batch[r][i]].nextRun
    BY CommittedRows
  <1>2. DOMAIN batch[r] = 1 .. k
    BY LenProperties DEF TypeOK
  <1> HIDE DEF k
  <1>3. e - n \in 1 .. k /\ n + (e - n) = e
    <2> HIDE DEF n
    <2>1. QED
      BY <1>1
  <1>4. executions'[n + (e - n)] = [job |-> batch[r][e - n], status |-> "running",
                                    error |-> "none", startedAt |-> claimedAt[r]]
    BY <1>1, <1>3
  <1>5. /\ claims'[n + (e - n)].row = AdvancedRow(r, batch[r][e - n])
        /\ claims'[n + (e - n)].slot = scan[r][batch[r][e - n]].nextRun
    BY <1>1, <1>3
  <1>6. executions'[e].job = batch[r][e - n] /\ executions'[e].startedAt = claimedAt[r]
    BY <1>3, <1>4
  <1>7. QED
    BY <1>2, <1>3, <1>5, <1>6

\* What a step does to the claim transaction of s, and to what it was read with.
TransactionSame(s) ==
  /\ scan'[s] = scan[s] /\ batch'[s] = batch[s] /\ claimedAt'[s] = claimedAt[s]
  /\ loop'[s] = "advanced" => loop[s] = "advanced"
TransactionOver(s) ==
  /\ DOMAIN scan'[s] = {} /\ batch'[s] = <<>> /\ claimedAt'[s] \in {claimedAt[s], 1}
  /\ loop'[s] # "advanced"

LEMMA TransactionSteps ==
  ASSUME TypeOK, [Next]_vars, NEW s \in Replicas
  PROVE  TransactionSame(s) \/ TransactionOver(s) \/ ScanDue(s) \/ AdvanceNextRun(s)
  <1> USE DEF TransactionSame, TransactionOver
  <1>1. CASE UNCHANGED <<scan, claimedAt, batch, loop>>
    BY <1>1
  <1>2. ASSUME NEW r \in Replicas, ResetProcess(r)
        PROVE  TransactionSame(s) \/ TransactionOver(s)
    BY <1>2, EmptyScanType DEF ResetProcess, TypeOK
  <1>3. ASSUME NEW r \in Replicas, EndTransaction(r), NEW pc,
               loop' = [loop EXCEPT ![r] = pc], pc # "advanced"
        PROVE  TransactionSame(s) \/ TransactionOver(s)
    BY <1>3, EmptyScanType DEF EndTransaction, TypeOK
  <1>4. ASSUME NEW r \in Replicas, NEW pc, UNCHANGED claimVars,
               loop' = [loop EXCEPT ![r] = pc], pc # "advanced"
        PROVE  TransactionSame(s)
    BY <1>4 DEF claimVars, TypeOK
  <1>5. \A q : LoopWith(q) # "advanced"
    BY DEF LoopWith
  <1>6. CASE TimePasses \/ UNCHANGED vars
    BY <1>1, <1>6 DEF TimePasses, vars, claimVars
  <1>7. ASSUME NEW r \in Replicas, Start(r) \/ Crash(r) \/ Terminate(r) \/ RecoverStale(r)
                                     \/ GraceExpires(r) \/ Shutdown(r)
        PROVE  TransactionSame(s) \/ TransactionOver(s)
    <2>1. CASE Start(r) \/ Crash(r)
      BY <1>2, <2>1 DEF Start, Crash
    <2>2. CASE Terminate(r) \/ RecoverStale(r) \/ GraceExpires(r) \/ Shutdown(r)
      BY <1>1, <2>2 DEF Terminate, RecoverStale, GraceExpires, Shutdown, ExitLoop, Drained, Return,
                        claimVars
    <2>3. QED
      BY <1>7, <2>1, <2>2
  <1>8. ASSUME NEW r \in Replicas, Tick(r)
        PROVE  TransactionSame(s) \/ TransactionOver(s) \/ ScanDue(s) \/ AdvanceNextRun(s)
    <2>1. CASE ScanDue(r) \/ AdvanceNextRun(r)
      <3>1. CASE r = s
        BY <2>1, <3>1
      <3>2. CASE r # s
        BY <2>1, <3>2 DEF ScanDue, AdvanceNextRun, TypeOK
      <3>3. QED
        BY <3>1, <3>2
    <2>2. CASE CommitClaim(r)
      BY <1>3, <1>5, <2>2 DEF CommitClaim
    <2>3. CASE LoseCommit(r) \/ RollbackClaim(r)
      <3>1. EndTransaction(r) /\ loop' = [loop EXCEPT ![r] = "select"]
        BY <2>3 DEF LoseCommit, RollbackClaim
      <3>2. QED
        BY <1>3, <3>1
    <2>4. CASE Send(r) \/ AbandonOnShutdown(r) \/ MarkSaturated(r)
      <3>1. UNCHANGED claimVars /\ loop' = [loop EXCEPT ![r] = LoopWith(Rest(r))]
        BY <2>4 DEF Send, AbandonOnShutdown, MarkSaturated
      <3>2. QED
        BY <1>4, <1>5, <3>1
    <2>5. CASE Saturate(r)
      BY <1>4, <2>5 DEF Saturate
    <2>6. QED
      BY <1>8, <2>1, <2>2, <2>3, <2>4, <2>5 DEF Tick
  <1>9. ASSUME NEW r \in Replicas, NEW w \in Workers, Work(r, w) PROVE TransactionSame(s)
    BY <1>1, <1>9 DEF Work, Receive, FinishExecution, WriteBackJob, Notify, WorkerExits, claimVars
  <1>10. QED
    BY <1>6, <1>7, <1>8, <1>9 DEF Next

\* A batch holds rows whose schedule parses, read from an open transaction.
BatchParses ==
  \A r \in Replicas : \A i \in DOMAIN batch[r] : Parses(scan[r][batch[r][i]].schedule)

LEMMA BatchParsesStep ==
  ASSUME TypeOK, ControlOK, BatchParses, [Next]_vars
  PROVE  BatchParses'
  <1> SUFFICES ASSUME NEW s \in Replicas, NEW i \in DOMAIN batch'[s]
               PROVE  Parses(scan'[s][batch'[s][i]].schedule)
    BY DEF BatchParses, Parses
  <1>1. CASE TransactionSame(s)
    BY <1>1 DEF TransactionSame, BatchParses
  <1>2. CASE TransactionOver(s)
    BY <1>2 DEF TransactionOver
  <1>3. CASE ScanDue(s)
    BY <1>3 DEF ScanDue, ControlOK
  <1>4. CASE AdvanceNextRun(s)
    <2> DEFINE S == {j \in DOMAIN scan[s] : Parses(scan[s][j].schedule)}
    <2>1. PICK q \in InDueOrder(S, scan[s]) : batch' = [batch EXCEPT ![s] = q]
      BY <1>4 DEF AdvanceNextRun, Advanced, Parsing
    <2>2. q \in [1 .. Cardinality(S) -> S] /\ batch'[s] = q
      BY <2>1 DEF InDueOrder, TypeOK
    <2>3. scan'[s] = scan[s]
      BY <1>4 DEF AdvanceNextRun
    <2>4. q[i] \in S
      BY <2>2
    <2>5. QED
      BY <2>2, <2>3, <2>4
  <1>5. QED
    BY <1>1, <1>2, <1>3, <1>4, TransactionSteps

\* What the theorems on claims ask of the schedules: those that parse have a next time.
EverNext == \A s \in Schedules \ Corrupt, t \in Times : CronNext[s][t] # ZeroTime

\* A claim comes from a row its transaction has locked, and the row's next_run_at is
\* later than the claim's date.
LEMMA NewClaim ==
  ASSUME EverNext, TypeOK, ControlOK, BatchParses, NEW r \in Replicas, CommitWrites(r),
         NEW e \in DOMAIN executions', e \notin DOMAIN executions
  PROVE  /\ executions'[e].startedAt = claimedAt[r] /\ claims'[e].row.nextRun > claimedAt[r]
         /\ \E j \in DOMAIN scan[r] : claims'[e].slot = scan[r][j].nextRun
  <1>1. PICK i \in DOMAIN batch[r] :
          /\ executions'[e].startedAt = claimedAt[r]
          /\ claims'[e].row = AdvancedRow(r, batch[r][i])
          /\ claims'[e].slot = scan[r][batch[r][i]].nextRun
    BY NewRow
  <1> DEFINE j == batch[r][i]
             t == CronNext[scan[r][j].schedule][claimedAt[r]]
  <1>2. j \in DOMAIN scan[r] /\ Parses(scan[r][j].schedule)
    BY DEF ControlOK, BatchParses
  <1>3. scan[r][j] \in JobRows /\ claimedAt[r] \in Times
    BY <1>2 DEF TypeOK
  <1>4. AdvancedRow(r, j).nextRun = t
    BY <1>3 DEF AdvancedRow, NextRun, JobRows
  <1>5. t > claimedAt[r]
    BY <1>2, <1>3, CronAssumption DEF EverNext, JobRows, Parses
  <1> HIDE DEF j, t
  <1>6. QED
    BY <1>1, <1>2, <1>4, <1>5 DEF j

\* Where every schedule that parses has a next time, a claim advances the job past
\* the time it was claimed at: what the run claim_never_advances refutes fails only
\* for schedules the library finds no time for (ClaimDue, sched.Next).
THEOREM ClaimsAdvance ==
  ASSUME EverNext
  PROVE  Spec => []ClaimAdvances
  <1>1. Init => ClaimAdvances /\ BatchParses
    <2> SUFFICES ASSUME Init PROVE ClaimAdvances /\ BatchParses
      OBVIOUS
    <2>1. DOMAIN claims = {} /\ \A r \in Replicas : DOMAIN batch[r] = {}
      BY DEF Init, Fresh
    <2>2. QED
      BY <2>1 DEF ClaimAdvances, BatchParses
  <1>2. ASSUME SafetyInv, SafetyInv', ClaimAdvances, BatchParses, [Next]_vars
        PROVE  ClaimAdvances' /\ BatchParses'
    <2>1. TypeOK /\ ControlOK /\ TypeOK'
      BY <1>2 DEF SafetyInv
    <2>2. BatchParses'
      BY <1>2, <2>1, BatchParsesStep
    <2>3. /\ DOMAIN claims = DOMAIN executions /\ DOMAIN claims' = DOMAIN executions'
      BY <2>1, LenProperties DEF TypeOK
    <2>4. ASSUME SameClaims PROVE ClaimAdvances'
      BY <1>2, <2>3, <2>4 DEF ClaimAdvances, SameClaims
    <2>5. ASSUME NEW r \in Replicas, CommitClaim(r) \/ LoseCommit(r),
                 NEW e \in DOMAIN claims'
          PROVE  claims'[e].row.nextRun > executions'[e].startedAt
      <3>1. CommitWrites(r)
        BY <2>5 DEF CommitClaim, LoseCommit
      <3>2. CASE e \in DOMAIN executions
        BY <1>2, <2>1, <2>3, <3>1, <3>2, CommitWritesTyped, CommittedRows DEF ClaimAdvances
      <3>3. CASE e \notin DOMAIN executions
        BY <1>2, <2>1, <2>3, <2>5, <3>1, <3>3, NewClaim
      <3>4. QED
        BY <3>2, <3>3
    <2>6. ClaimAdvances'
      BY <1>2, <2>4, <2>5, ClaimsOnlyGrow DEF ClaimAdvances
    <2>7. QED
      BY <2>2, <2>6
  <1>3. QED
    BY <1>1, <1>2, SafetyInvariant, PTL DEF Spec

\* The clock does not run backwards.
LEMMA ClockAdvances ==
  ASSUME TypeOK, [Next]_vars
  PROVE  now \in Nat /\ now' \in Nat /\ now <= now' /\ now >= 1
  <1>1. now \in Nat /\ now >= 1
    BY DEF TypeOK, Times
  <1>2. CASE UNCHANGED now
    BY <1>1, <1>2
  <1>3. CASE TimePasses
    BY <1>1, <1>3 DEF TimePasses
  <1>4. ASSUME NEW r \in Replicas,
               \/ Start(r) \/ Crash(r) \/ Terminate(r) \/ RecoverStale(r) \/ GraceExpires(r)
               \/ Tick(r) \/ Shutdown(r)
        PROVE  UNCHANGED now
    BY <1>4 DEF Start, Crash, Terminate, RecoverStale, GraceExpires, Shutdown, ExitLoop, Drained,
                Return, Tick, ScanDue, AdvanceNextRun, CommitClaim, LoseCommit, RollbackClaim, Send,
                AbandonOnShutdown, Saturate, MarkSaturated
  <1>5. ASSUME NEW r \in Replicas, NEW w \in Workers, Work(r, w) PROVE UNCHANGED now
    BY <1>5 DEF Work, Receive, FinishExecution, WriteBackJob, Notify, WorkerExits
  <1>6. CASE UNCHANGED vars
    BY <1>2, <1>6 DEF vars
  <1>7. QED
    BY <1>2, <1>3, <1>4, <1>5, <1>6 DEF Next

\* A locked row was due when it was read, and its slot is not later than the date of
\* the claim but for what the clocks differ.
ScanIsDue ==
  \A r \in Replicas : \A j \in DOMAIN scan[r] :
    /\ scan[r][j].nextRun <= now
    /\ loop[r] = "advanced" => scan[r][j].nextRun <= claimedAt[r] + ClockSkew

LEMMA ScanIsDueStep ==
  ASSUME TypeOK, TypeOK', ScanIsDue, [Next]_vars
  PROVE  ScanIsDue'
  <1> SUFFICES ASSUME NEW s \in Replicas, NEW j \in DOMAIN scan'[s]
               PROVE  /\ scan'[s][j].nextRun <= now'
                      /\ loop'[s] = "advanced" => scan'[s][j].nextRun <= claimedAt'[s] + ClockSkew
    BY DEF ScanIsDue
  <1>1. now \in Nat /\ now' \in Nat /\ now <= now' /\ ClockSkew \in Nat
    BY ClockAdvances, ConstantsAssumption
  <1>2. scan'[s][j].nextRun \in Int
    <2>1. scan'[s][j] \in JobRows
      BY DEF TypeOK
    <2>2. QED
      BY <2>1 DEF JobRows, Timestamps, NoTime
  <1>3. CASE TransactionSame(s)
    <2>1. scan'[s] = scan[s] /\ claimedAt'[s] = claimedAt[s]
          /\ (loop'[s] = "advanced" => loop[s] = "advanced")
      BY <1>3 DEF TransactionSame
    <2>2. /\ scan'[s][j].nextRun <= now
          /\ loop[s] = "advanced" => scan'[s][j].nextRun <= claimedAt'[s] + ClockSkew
      BY <2>1 DEF ScanIsDue
    <2>3. QED
      BY <1>1, <1>2, <2>1, <2>2
  <1>4. CASE TransactionOver(s)
    BY <1>4 DEF TransactionOver
  <1>5. CASE ScanDue(s)
    <2>1. PICK S \in EarliestDue : scan' = [scan EXCEPT ![s] = [i \in S |-> jobs[i]]]
      BY <1>5 DEF ScanDue
    <2>2. scan'[s] = [i \in S |-> jobs[i]]
      BY <2>1 DEF TypeOK
    <2>3. j \in S /\ scan'[s][j] = jobs[j]
      BY <2>2
    <2>4. Due(j)
      BY <2>3 DEF EarliestDue, Claimable
    <2>5. loop'[s] = "scanned" /\ UNCHANGED now
      BY <1>5 DEF ScanDue, TypeOK
    <2>6. QED
      BY <2>3, <2>4, <2>5 DEF Due
  <1>6. CASE AdvanceNextRun(s)
    <2>1. PICK t \in ReplicaTimes : claimedAt' = [claimedAt EXCEPT ![s] = t]
      BY <1>6 DEF AdvanceNextRun
    <2>2. claimedAt'[s] = t /\ t \in Nat /\ now - ClockSkew <= t
      BY <2>1 DEF TypeOK, ReplicaTimes, Times
    <2>3. UNCHANGED <<scan, now>>
      BY <1>6 DEF AdvanceNextRun
    <2>4. scan'[s][j].nextRun <= now
      BY <2>3 DEF ScanIsDue
    <2>5. QED
      BY <1>1, <1>2, <2>2, <2>3, <2>4
  <1>7. QED
    BY <1>3, <1>4, <1>5, <1>6, TransactionSteps

\* Where every schedule that parses has a next time, each claim moves next_run_at past
\* the slot it serves, back at most by what the claiming replica's clock is behind the
\* database's: with clocks that agree no slot is served twice, on however many replicas.
THEOREM SlotsAdvance ==
  ASSUME EverNext
  PROVE  Spec => []SlotsMoveOn
  <1>1. Init => SlotsMoveOn /\ BatchParses /\ ScanIsDue
    <2> SUFFICES ASSUME Init PROVE SlotsMoveOn /\ BatchParses /\ ScanIsDue
      OBVIOUS
    <2>1. /\ DOMAIN claims = {}
          /\ \A r \in Replicas : DOMAIN batch[r] = {} /\ DOMAIN scan[r] = {}
      BY EmptyScanType DEF Init, Fresh
    <2>2. QED
      BY <2>1 DEF SlotsMoveOn, BatchParses, ScanIsDue
  <1>2. ASSUME SafetyInv, SafetyInv', SlotsMoveOn, BatchParses, ScanIsDue, [Next]_vars
        PROVE  SlotsMoveOn' /\ BatchParses' /\ ScanIsDue'
    <2>1. TypeOK /\ ControlOK /\ TypeOK'
      BY <1>2 DEF SafetyInv
    <2>2. BatchParses' /\ ScanIsDue'
      BY <1>2, <2>1, BatchParsesStep, ScanIsDueStep
    <2>3. DOMAIN claims = DOMAIN executions /\ DOMAIN claims' = DOMAIN executions'
      BY <2>1, LenProperties DEF TypeOK
    <2>4. ASSUME SameClaims PROVE SlotsMoveOn'
      BY <1>2, <2>4 DEF SlotsMoveOn, SameClaims
    <2>5. ASSUME NEW r \in Replicas, CommitClaim(r) \/ LoseCommit(r), NEW e \in DOMAIN claims'
          PROVE  claims'[e].row.nextRun + ClockSkew > claims'[e].slot
      <3>1. CommitWrites(r) /\ loop[r] = "advanced"
        BY <2>5 DEF CommitClaim, LoseCommit
      <3>2. CASE e \in DOMAIN executions
        BY <1>2, <2>1, <2>3, <3>1, <3>2, CommittedRows DEF SlotsMoveOn
      <3>3. CASE e \notin DOMAIN executions
        <4>1. /\ claims'[e].row.nextRun > claimedAt[r]
              /\ \E j \in DOMAIN scan[r] : claims'[e].slot = scan[r][j].nextRun
          BY <1>2, <2>1, <2>3, <2>5, <3>1, <3>3, NewClaim
        <4>2. claims'[e].slot <= claimedAt[r] + ClockSkew
          BY <1>2, <3>1, <4>1 DEF ScanIsDue
        <4>3. claims'[e] \in JobClaims
          BY <2>1, <2>5, ElementOfSeq, LenProperties DEF TypeOK
        <4>4. claims'[e].slot \in Int /\ claims'[e].row.nextRun \in Int
          <5>1. claims'[e].row \in JobRows /\ claims'[e].slot \in Timestamps
            BY <4>3 DEF JobClaims
          <5>2. claims'[e].row.nextRun \in Timestamps
            BY <5>1 DEF JobRows
          <5>3. QED
            BY <5>1, <5>2 DEF Timestamps, NoTime
        <4>5. claimedAt[r] \in Nat /\ ClockSkew \in Nat
          <5>1. claimedAt[r] \in Times
            BY <2>1 DEF TypeOK
          <5>2. QED
            BY <5>1, ConstantsAssumption DEF Times
        <4> DEFINE slot == claims'[e].slot
                   next == claims'[e].row.nextRun
        <4>6. /\ slot \in Int /\ next \in Int /\ next > claimedAt[r]
              /\ slot <= claimedAt[r] + ClockSkew
          BY <4>1, <4>2, <4>4
        <4> HIDE DEF slot, next
        <4>7. next + ClockSkew > slot
          BY <4>5, <4>6
        <4>8. QED
          BY <4>7 DEF slot, next
      <3>4. QED
        BY <3>2, <3>3
    <2>6. SlotsMoveOn'
      BY <1>2, <2>4, <2>5, ClaimsOnlyGrow DEF SlotsMoveOn
    <2>7. QED
      BY <2>2, <2>6
  <1>3. QED
    BY <1>1, <1>2, SafetyInvariant, PTL DEF Spec

\* The executions of one job are dated in the order of their ids, on whichever replicas
\* they were claimed, up to what two replicas' clocks may differ (started_at of
\* ClaimDue, which lists sort by).
StartsInOrder ==
  \A d, e \in DOMAIN executions :
    d < e /\ executions[d].job = executions[e].job
      => executions[d].startedAt <= executions[e].startedAt + 2 * ClockSkew

\* No claim is dated later than its replica's clock may be, and the job of an open
\* transaction was not claimed at a later moment than this transaction's, for nobody
\* else can claim it: its dates exceed this one at most by what two clocks differ.
StartsKnown ==
  /\ \A r \in Replicas : claimedAt[r] <= now + ClockSkew
  /\ \A e \in DOMAIN executions : executions[e].startedAt <= now + ClockSkew
  /\ \A r \in Replicas : loop[r] = "advanced" => \A e \in DOMAIN executions :
       executions[e].job \in DOMAIN scan[r]
         => executions[e].startedAt <= claimedAt[r] + 2 * ClockSkew

\* An execution after a step is an old one, or one of a commit's batch.
OldRow(e) ==
  /\ e \in DOMAIN executions
  /\ executions'[e].job = executions[e].job /\ executions'[e].startedAt = executions[e].startedAt
BatchRow(e, r) ==
  /\ CommitClaim(r) \/ LoseCommit(r)
  /\ e \notin DOMAIN executions /\ e > Len(executions)
  /\ executions'[e].job \in DOMAIN scan[r] /\ executions'[e].startedAt = claimedAt[r]

LEMMA RowsAfter ==
  ASSUME SafetyInv, [Next]_vars
  PROVE  \/ \A e \in DOMAIN executions' : OldRow(e)
         \/ \E r \in Replicas : \A e \in DOMAIN executions' : OldRow(e) \/ BatchRow(e, r)
  <1>1. TypeOK /\ ControlOK
    BY DEF SafetyInv
  <1>2. CASE SameClaims
    BY <1>2 DEF SameClaims, OldRow
  <1>3. ASSUME NEW r \in Replicas, CommitClaim(r) \/ LoseCommit(r), NEW e \in DOMAIN executions'
        PROVE  OldRow(e) \/ BatchRow(e, r)
    <2>1. CommitWrites(r)
      BY <1>3 DEF CommitClaim, LoseCommit
    <2>2. CASE e \in DOMAIN executions
      BY <1>1, <2>1, <2>2, CommitWritesTyped DEF OldRow
    <2>3. CASE e \notin DOMAIN executions
      <3>1. PICK i \in DOMAIN batch[r] :
              /\ e = Len(executions) + i
              /\ executions'[e].job = batch[r][i] /\ executions'[e].startedAt = claimedAt[r]
        BY <1>1, <1>3, <2>1, <2>3, NewRow
      <3>2. batch[r][i] \in DOMAIN scan[r]
        BY <1>1 DEF ControlOK
      <3>3. i \in Nat /\ i >= 1 /\ Len(executions) \in Nat
        BY <1>1, LenProperties DEF TypeOK
      <3>4. e > Len(executions)
        BY <3>1, <3>3
      <3>5. QED
        BY <1>3, <2>3, <3>1, <3>2, <3>4 DEF BatchRow
    <2>4. QED
      BY <2>2, <2>3
  <1>4. QED
    BY <1>2, <1>3, ClaimsOnlyGrow

LEMMA StartsKnownStep ==
  ASSUME SafetyInv, SafetyInv', StartsKnown, [Next]_vars
  PROVE  StartsKnown'
  <1>1. TypeOK /\ ControlOK /\ TypeOK' /\ ClaimReadsStayCurrent
    BY DEF SafetyInv
  <1>2. now \in Nat /\ now' \in Nat /\ now <= now' /\ now >= 1 /\ ClockSkew \in Nat
    BY <1>1, ClockAdvances, ConstantsAssumption
  <1>3. \A r \in Replicas : claimedAt[r] \in Nat /\ claimedAt'[r] \in Nat
    BY <1>1 DEF TypeOK, Times
  <1>4. \A e \in DOMAIN executions : executions[e].startedAt \in Nat
    <2>1. \A e \in DOMAIN executions : executions[e] \in ExecRows
      BY <1>1 DEF TypeOK
    <2>2. QED
      BY <2>1 DEF ExecRows, Times
  <1>5. ASSUME NEW r \in Replicas PROVE claimedAt'[r] <= now' + ClockSkew
    <2>1. claimedAt'[r] \in {claimedAt[r], 1} \/ claimedAt'[r] <= now + ClockSkew
      <3>1. CASE TransactionSame(r) \/ TransactionOver(r)
        BY <3>1 DEF TransactionSame, TransactionOver
      <3>2. CASE ScanDue(r)
        BY <1>1, <3>2 DEF ScanDue, TypeOK
      <3>3. CASE AdvanceNextRun(r)
        BY <1>1, <3>3 DEF AdvanceNextRun, ReplicaTimes, TypeOK
      <3>4. QED
        BY <1>1, <3>1, <3>2, <3>3, TransactionSteps
    <2>2. QED
      BY <1>2, <1>3, <2>1 DEF StartsKnown
  <1>6. ASSUME NEW e \in DOMAIN executions' PROVE executions'[e].startedAt <= now' + ClockSkew
    <2>1. CASE OldRow(e)
      BY <1>2, <1>4, <2>1 DEF OldRow, StartsKnown
    <2>2. ASSUME NEW r \in Replicas, BatchRow(e, r) PROVE executions'[e].startedAt <= now' + ClockSkew
      BY <1>2, <1>3, <2>2 DEF BatchRow, StartsKnown
    <2>3. QED
      BY <2>1, <2>2, RowsAfter
  <1>7. ASSUME NEW r \in Replicas, loop'[r] = "advanced", NEW e \in DOMAIN executions',
               executions'[e].job \in DOMAIN scan'[r]
        PROVE  executions'[e].startedAt <= claimedAt'[r] + 2 * ClockSkew
    <2>1. ~TransactionOver(r) /\ ~ScanDue(r)
      BY <1>1, <1>7 DEF TransactionOver, ScanDue, TypeOK
    <2>2. CASE AdvanceNextRun(r)
      <3>1. UNCHANGED executions /\ claimedAt'[r] >= now - ClockSkew
        BY <1>1, <2>2 DEF AdvanceNextRun, ReplicaTimes, TypeOK, dbVars
      <3>2. executions'[e].startedAt \in Nat /\ executions'[e].startedAt <= now + ClockSkew
        BY <1>4, <3>1 DEF StartsKnown
      <3>3. QED
        BY <1>2, <1>3, <3>1, <3>2
    <2>3. CASE TransactionSame(r)
      <3>1. loop[r] = "advanced" /\ scan'[r] = scan[r] /\ claimedAt'[r] = claimedAt[r]
        BY <1>7, <2>3 DEF TransactionSame
      <3>2. CASE OldRow(e)
        BY <1>7, <3>1, <3>2 DEF OldRow, StartsKnown
      <3>3. ASSUME NEW s \in Replicas, BatchRow(e, s) PROVE FALSE
        <4>1. s = r
          BY <1>1, <1>7, <3>1, <3>3 DEF BatchRow, ClaimReadsStayCurrent
        <4>2. DOMAIN scan'[r] = {}
          BY <1>1, <3>3, <4>1, EmptyScanType
             DEF BatchRow, CommitClaim, LoseCommit, EndTransaction, TypeOK
        <4>3. QED
          BY <1>7, <4>2
      <3>4. QED
        BY <3>2, <3>3, RowsAfter
    <2>4. QED
      BY <1>1, <2>1, <2>2, <2>3, TransactionSteps
  <1>8. QED
    BY <1>5, <1>6, <1>7 DEF StartsKnown

\* Replicas that claim one job in turn date its executions in turn, if their clocks
\* agree, and otherwise out of turn by no more than twice ClockSkew: what holds the
\* order is the row lock of ClaimDue, under which the date is taken.
THEOREM StartsFollowIds == Spec => []StartsInOrder
  <1>1. Init => StartsKnown /\ StartsInOrder
    <2> SUFFICES ASSUME Init PROVE StartsKnown /\ StartsInOrder
      OBVIOUS
    <2>1. DOMAIN executions = {} /\ now = 1 /\ \A r \in Replicas : claimedAt[r] = 1
      BY DEF Init, Fresh
    <2>2. ClockSkew \in Nat
      BY ConstantsAssumption
    <2>3. QED
      BY <2>1, <2>2 DEF StartsKnown, StartsInOrder
  <1>2. ASSUME SafetyInv, SafetyInv', StartsKnown, StartsInOrder, [Next]_vars
        PROVE  StartsKnown' /\ StartsInOrder'
    <2>1. TypeOK /\ ControlOK
      BY <1>2 DEF SafetyInv
    <2>2. DOMAIN executions = 1 .. Len(executions) /\ Len(executions) \in Nat
      BY <2>1, LenProperties DEF TypeOK
    <2>3. ASSUME NEW d \in DOMAIN executions', NEW e \in DOMAIN executions', d < e,
                 executions'[d].job = executions'[e].job
          PROVE  executions'[d].startedAt <= executions'[e].startedAt + 2 * ClockSkew
      <3>1. CASE OldRow(d) /\ OldRow(e)
        BY <1>2, <2>3, <3>1 DEF OldRow, StartsInOrder
      <3>2. ASSUME NEW r \in Replicas, OldRow(d), BatchRow(e, r)
            PROVE  executions'[d].startedAt <= executions'[e].startedAt + 2 * ClockSkew
        <4>1. loop[r] = "advanced"
          BY <3>2 DEF BatchRow, CommitClaim, LoseCommit
        <4>2. QED
          BY <1>2, <2>3, <3>2, <4>1 DEF OldRow, BatchRow, StartsKnown
      <3>3. ASSUME NEW r \in Replicas, BatchRow(d, r), BatchRow(e, r)
            PROVE  executions'[d].startedAt <= executions'[e].startedAt + 2 * ClockSkew
        <4>1. claimedAt[r] \in Nat /\ ClockSkew \in Nat
          BY <2>1, ConstantsAssumption DEF TypeOK, Times
        <4>2. QED
          BY <3>3, <4>1 DEF BatchRow
      <3>4. ASSUME NEW r \in Replicas, BatchRow(d, r) PROVE ~OldRow(e)
        <4>1. d > Len(executions)
          BY <3>4 DEF BatchRow
        <4>2. d \in Nat
          BY <1>2, LenProperties DEF SafetyInv, TypeOK
        <4>3. QED
          BY <2>2, <2>3, <4>1, <4>2 DEF OldRow
      <3>5. QED
        BY <1>2, <3>1, <3>2, <3>3, <3>4, RowsAfter
    <2>4. QED
      BY <1>2, <2>3, StartsKnownStep DEF StartsInOrder
  <1>3. QED
    BY <1>1, <1>2, SafetyInvariant, PTL DEF Spec
=============================================================================
