------------------------------- MODULE AppProofs -------------------------------
(****************************************************************************)
(* The process around the scheduler: what is proved of the scheduler holds  *)
(* inside it, and the pool is closed when nobody is left to use it; for     *)
(* every number of replicas, workers, jobs and requests.                    *)
(****************************************************************************)
EXTENDS App, LedgerProofs

\* Every step of the process is a step of the scheduler or leaves it alone.
LEMMA AppStepMaps == [AppNext]_appVars => [Next]_vars
  <1> SUFFICES ASSUME [AppNext]_appVars
               PROVE  [Next]_vars
    OBVIOUS
  <1>1. CASE UNCHANGED appVars \/ (TimePasses /\ UNCHANGED processVars)
    BY <1>1 DEF appVars, Next
  <1>2. ASSUME NEW r \in Replicas,
               \/ RecoverStale(r) \/ GraceExpires(r) \/ Tick(r) \/ Shutdown(r)
               \/ \E w \in Workers : Work(r, w)
        PROVE  [Next]_vars
    BY <1>2 DEF Next
  <1>3. ASSUME NEW r \in Replicas, Connect(r) \/ Kill(r) \/ CancelScheduler(r)
        PROVE  [Next]_vars
    <2>1. Start(r) \/ Crash(r) \/ Terminate(r) \/ UNCHANGED vars
      BY <1>3 DEF Connect, Kill, CancelScheduler
    <2>2. QED
      BY <2>1 DEF Next
  <1>4. ASSUME NEW r \in Replicas,
               \/ Boot(r) \/ Signal(r) \/ FailConnect(r) \/ ExitWithError(r) \/ CloseApp(r)
               \/ Exit(r) \/ ServerStep(r) \/ FailServe(r) \/ ShutdownTimesOut(r)
               \/ Accept(r) \/ Answer(r)
        PROVE  UNCHANGED vars
    BY <1>4 DEF Boot, Signal, FailConnect, ExitWithError, CloseApp, Exit, ServerStep, Listen,
                ServeReturns, BeginShutdown, EndShutdown, FailServe, ShutdownTimesOut, Accept, Answer
  <1>5. QED
    BY <1>1, <1>2, <1>3, <1>4 DEF AppNext, MainStep

\* A process does to the tables and the goroutines of the scheduler what Scheduler.tla
\* allows, so whatever holds of the scheduler holds in the process.
THEOREM AppImplementsScheduler == AppSpec => Spec
  <1>1. AppInit => Init
    BY DEF AppInit
  <1>2. QED
    BY <1>1, AppStepMaps, PTL DEF AppSpec, Spec

\* So inside the process, too, the tables see only what the ledger allows: the web
\* server, a failed start or a forced exit never settles, reports or reopens an
\* execution (app.Run around Scheduler.Run).
THEOREM AppImplementsLedger == AppSpec => LedgerSpec
  BY AppImplementsScheduler, SchedulerImplementsLedger

-----------------------------------------------------------------------------
(* The invariant of the process.                                            *)

ProcessTypeOK ==
  /\ main \in [Replicas -> Alive \cup Ended]
  /\ signalled \in [Replicas -> BOOLEAN]
  /\ server \in [Replicas -> {"new", "listening", "closing", "closed", "failed"}]
  /\ closer \in [Replicas -> {"waiting", "shutting", "done", "timedout"}]
  /\ inflight \in [Replicas -> 0 .. MaxRequests]
  /\ pool \in [Replicas -> {"none", "open", "closed"}]

ProcessInv == ProcessTypeOK /\ \A r \in Replicas : ProcessOK(r)

LEMMA AppTyped ==
  ASSUME ProcessTypeOK, [AppNext]_appVars
  PROVE  ProcessTypeOK'
  <1>1. CASE UNCHANGED processVars
    BY <1>1 DEF ProcessTypeOK, processVars
  <1>2. ASSUME NEW r \in Replicas,
               Connect(r) \/ FailConnect(r) \/ ExitWithError(r) \/ CloseApp(r) \/ Exit(r)
        PROVE  ProcessTypeOK'
    BY <1>2, AppAssumption
       DEF ProcessTypeOK, Connect, FailConnect, ExitWithError, CloseApp, Exit, Alive, Ended
  <1>3. ASSUME NEW r \in Replicas, Boot(r) \/ Signal(r) \/ Kill(r)
        PROVE  ProcessTypeOK'
    <2>1. CASE Boot(r)
      BY <2>1, AppAssumption DEF ProcessTypeOK, Boot, Alive, Ended
    <2>2. CASE Signal(r)
      BY <2>2 DEF ProcessTypeOK, Signal
    <2>3. CASE Kill(r)
      <3>1. /\ main' = [main EXCEPT ![r] = "off"] /\ pool' = [pool EXCEPT ![r] = "none"]
            /\ inflight' = [inflight EXCEPT ![r] = 0] /\ UNCHANGED <<signalled, server, closer>>
        BY <2>3 DEF Kill
      <3>2. QED
        BY <3>1, AppAssumption DEF ProcessTypeOK, Alive, Ended
    <2>4. QED
      BY <1>3, <2>1, <2>2, <2>3
  <1>4. ASSUME NEW r \in Replicas,
               \/ Listen(r) \/ ServeReturns(r) \/ BeginShutdown(r) \/ EndShutdown(r)
               \/ FailServe(r) \/ ShutdownTimesOut(r)
        PROVE  ProcessTypeOK'
    BY <1>4 DEF ProcessTypeOK, Listen, ServeReturns, BeginShutdown, EndShutdown, FailServe,
                ShutdownTimesOut, SetServer, SetCloser
  <1>5. ASSUME NEW r \in Replicas, Accept(r) \/ Answer(r)
        PROVE  ProcessTypeOK'
    BY <1>5, AppAssumption DEF ProcessTypeOK, Accept, Answer
  <1>6. QED
    BY <1>1, <1>2, <1>3, <1>4, <1>5 DEF AppNext, MainStep, ServerStep, CancelScheduler, appVars

\* The steps of the scheduler inside the process do not bring a stopped one to life.
LEMMA StoppedStays ==
  ASSUME TypeOK, NEW r \in Replicas, phase[r] \in {"down", "stopped"}, NEW s \in Replicas,
         \/ RecoverStale(s) \/ GraceExpires(s) \/ Tick(s) \/ Shutdown(s) \/ Terminate(s)
         \/ \E w \in Workers : Work(s, w)
  PROVE  phase'[r] = phase[r]
  <1>1. CASE GraceExpires(s) \/ Terminate(s)
    BY <1>1 DEF GraceExpires, Terminate
  <1>2. CASE RecoverStale(s) \/ Shutdown(s)
    BY <1>2 DEF RecoverStale, Shutdown, ExitLoop, Drained, Return, TypeOK
  <1>3. CASE Tick(s)
    BY <1>3 DEF Tick, ScanDue, AdvanceNextRun, CommitClaim, LoseCommit, RollbackClaim, Send,
                AbandonOnShutdown, Saturate, MarkSaturated, procVars
  <1>4. CASE \E w \in Workers : Work(s, w)
    BY <1>4 DEF Work, Receive, FinishExecution, WriteBackJob, Notify, WorkerExits, procVars
  <1>5. QED
    BY <1>1, <1>2, <1>3, <1>4

\* What ProcessOK says of r depends on r alone.
LEMMA ProcessSame ==
  ASSUME NEW r, ProcessOK(r), main'[r] = main[r], pool'[r] = pool[r], inflight'[r] = inflight[r],
         closer'[r] = closer[r], server'[r] = server[r],
         main[r] # "running" => phase'[r] = phase[r]
  PROVE  ProcessOK(r)'
  BY DEF ProcessOK
\* The fields of r after a step of r.
LEMMA ProcessOKStep ==
  ASSUME TypeOK, TypeOK', ProcessInv, [AppNext]_appVars, NEW r \in Replicas
  PROVE  ProcessOK(r)'
  <1>1. ProcessTypeOK /\ ProcessOK(r)
    BY DEF ProcessInv
  <1>2. CASE UNCHANGED appVars \/ (TimePasses /\ UNCHANGED processVars)
    BY <1>1, <1>2, ProcessSame DEF appVars, processVars, TimePasses, vars, procVars
  <1>3. ASSUME NEW s \in Replicas, UNCHANGED processVars,
               \/ RecoverStale(s) \/ GraceExpires(s) \/ Tick(s) \/ Shutdown(s) \/ Terminate(s)
               \/ \E w \in Workers : Work(s, w)
        PROVE  ProcessOK(r)'
    <2>1. main[r] # "running" => phase'[r] = phase[r]
      <3>1. main[r] # "running" => phase[r] \in {"down", "stopped"}
        BY <1>1 DEF ProcessOK
      <3>2. QED
        BY <1>3, <3>1, StoppedStays
    <2>2. QED
      BY <1>1, <1>3, <2>1, ProcessSame DEF processVars
  <1>4. ASSUME NEW s \in Replicas, Connect(s) \/ Kill(s) \/ Boot(s)
        PROVE  ProcessOK(r)'
    <2>1. CASE r # s
      <3>1. phase'[r] = phase[r]
        BY <1>4, <2>1 DEF Connect, Kill, Boot, Start, Crash, vars, procVars, TypeOK
      <3>2. /\ main'[r] = main[r] /\ pool'[r] = pool[r] /\ inflight'[r] = inflight[r]
            /\ closer'[r] = closer[r] /\ server'[r] = server[r]
        BY <1>1, <1>4, <2>1 DEF Connect, Kill, Boot, ProcessTypeOK
      <3>3. QED
        BY <1>1, <3>1, <3>2, ProcessSame
    <2>2. CASE r = s /\ Connect(s)
      <3>1. /\ main'[r] = "running" /\ pool'[r] = "open" /\ inflight'[r] = inflight[r]
            /\ closer'[r] = closer[r] /\ server'[r] = server[r]
        BY <1>1, <2>2 DEF Connect, ProcessTypeOK
      <3>2. QED
        BY <1>1, <3>1 DEF ProcessOK
    <2>3. CASE r = s /\ Kill(s)
      <3>1. /\ main'[r] = "off" /\ pool'[r] = "none" /\ inflight'[r] = 0
            /\ closer'[r] = closer[r] /\ server'[r] = server[r]
        BY <1>1, <2>3 DEF Kill, ProcessTypeOK
      <3>2. phase'[r] \in {"down", "stopped"}
        BY <2>3 DEF Kill, Crash, vars, procVars, TypeOK
      <3>3. QED
        BY <1>1, <3>1, <3>2 DEF ProcessOK
    <2>4. CASE r = s /\ Boot(s)
      <3>1. /\ main'[r] = "booting" /\ pool'[r] = "none" /\ inflight'[r] = 0
            /\ closer'[r] = "waiting" /\ server'[r] = "new" /\ phase'[r] \in {"down", "stopped"}
        BY <1>1, <2>4 DEF Boot, ProcessTypeOK, vars, procVars
      <3>2. QED
        BY <3>1 DEF ProcessOK
    <2>5. QED
      BY <1>4, <2>1, <2>2, <2>3, <2>4
  <1>5. ASSUME NEW s \in Replicas,
               \/ Signal(s) \/ FailConnect(s) \/ ExitWithError(s) \/ CloseApp(s) \/ Exit(s)
        PROVE  ProcessOK(r)'
    <2>1. UNCHANGED phase
      BY <1>5 DEF Signal, FailConnect, ExitWithError, CloseApp, Exit, vars, procVars
    <2>2. CASE r # s
      <3>1. /\ main'[r] = main[r] /\ pool'[r] = pool[r] /\ inflight'[r] = inflight[r]
            /\ closer'[r] = closer[r] /\ server'[r] = server[r]
        BY <1>1, <1>5, <2>2
           DEF Signal, FailConnect, ExitWithError, CloseApp, Exit, ProcessTypeOK
      <3>2. QED
        BY <1>1, <2>1, <3>1, ProcessSame
    <2>3. CASE r = s /\ (Signal(s) \/ FailConnect(s) \/ Exit(s))
      <3>1. /\ pool'[r] = pool[r] /\ inflight'[r] = inflight[r]
            /\ closer'[r] = closer[r] /\ server'[r] = server[r]
            /\ \/ main'[r] = main[r]
               \/ main[r] = "booting" /\ main'[r] = "exit1"
               \/ main[r] = "closing" /\ main'[r] = "exit0"
        BY <1>1, <2>3 DEF Signal, FailConnect, Exit, ProcessTypeOK
      <3>2. QED
        BY <1>1, <2>1, <3>1 DEF ProcessOK
    <2>4. CASE r = s /\ ExitWithError(s)
      <3>1. /\ main'[r] = "exit1" /\ pool'[r] = "none" /\ inflight'[r] = 0
            /\ closer'[r] = closer[r] /\ server'[r] = server[r] /\ phase[r] = "stopped"
        BY <1>1, <2>4 DEF ExitWithError, AllReturned, ProcessTypeOK
      <3>2. QED
        BY <1>1, <2>1, <3>1 DEF ProcessOK
    <2>5. CASE r = s /\ CloseApp(s)
      <3>1. /\ main'[r] = "closing" /\ pool'[r] = "closed" /\ inflight'[r] = inflight[r]
            /\ closer'[r] = closer[r] /\ server'[r] = server[r] /\ phase[r] = "stopped"
            /\ closer[r] = "done"
        BY <1>1, <2>5 DEF CloseApp, AllReturned, Failed, ProcessTypeOK
      <3>2. QED
        BY <1>1, <2>1, <3>1 DEF ProcessOK
    <2>6. QED
      BY <1>5, <2>2, <2>3, <2>4, <2>5
  <1>6. ASSUME NEW s \in Replicas,
               \/ Listen(s) \/ ServeReturns(s) \/ BeginShutdown(s) \/ EndShutdown(s) \/ FailServe(s)
               \/ ShutdownTimesOut(s) \/ Accept(s) \/ Answer(s)
        PROVE  ProcessOK(r)'
    <2>1. UNCHANGED <<phase, main, pool>>
      BY <1>6 DEF Listen, ServeReturns, BeginShutdown, EndShutdown, FailServe, ShutdownTimesOut,
                  Accept, Answer,
                  vars, procVars
    <2>2. CASE r # s
      <3>1. inflight'[r] = inflight[r] /\ closer'[r] = closer[r] /\ server'[r] = server[r]
        BY <1>1, <1>6, <2>2
           DEF Listen, ServeReturns, BeginShutdown, EndShutdown, FailServe, ShutdownTimesOut,
                  Accept, Answer,
               SetServer, SetCloser, ProcessTypeOK
      <3>2. QED
        BY <1>1, <2>1, <3>1, ProcessSame
    <2>3. CASE r = s /\ (Accept(s) \/ Answer(s))
      <3>1. /\ closer'[r] = closer[r] /\ server'[r] = server[r]
            /\ \/ main[r] = "running" /\ server[r] = "listening"
               \/ inflight[r] # 0
        BY <1>1, <2>3 DEF Accept, Answer, ProcessTypeOK
      <3>2. QED
        BY <1>1, <2>1, <3>1 DEF ProcessOK
    <2>4. CASE r = s /\ (\/ Listen(s) \/ ServeReturns(s) \/ BeginShutdown(s)
                         \/ EndShutdown(s) \/ FailServe(s) \/ ShutdownTimesOut(s))
      <3>1. inflight'[r] = inflight[r]
        BY <2>4 DEF Listen, ServeReturns, BeginShutdown, EndShutdown, FailServe, ShutdownTimesOut
      <3>2. /\ closer'[r] # "waiting" => server'[r] # "listening"
            /\ closer'[r] = "done" => inflight[r] = 0
        <4>1. CASE Listen(s) \/ ServeReturns(s) \/ FailServe(s)
          BY <1>1, <2>4, <4>1 DEF Listen, ServeReturns, FailServe, SetServer, ProcessTypeOK, ProcessOK
        <4>2. CASE BeginShutdown(s)
          BY <1>1, <2>4, <4>2 DEF BeginShutdown, SetServer, SetCloser, ProcessTypeOK
        <4>3. CASE EndShutdown(s) \/ ShutdownTimesOut(s)
          BY <1>1, <2>4, <4>3
             DEF EndShutdown, ShutdownTimesOut, Quiet, SetCloser, ProcessTypeOK, ProcessOK
        <4>4. QED
          BY <2>4, <4>1, <4>2, <4>3
      <3>3. QED
        BY <1>1, <2>1, <3>1, <3>2 DEF ProcessOK
    <2>5. QED
      BY <1>6, <2>2, <2>3, <2>4
  <1>7. QED
    BY <1>2, <1>3, <1>4, <1>5, <1>6 DEF AppNext, MainStep, ServerStep, CancelScheduler

LEMMA ProcessInit == AppInit => ProcessInv
  <1> SUFFICES ASSUME AppInit
               PROVE  ProcessInv
    OBVIOUS
  <1>1. ProcessTypeOK
    BY AppAssumption DEF AppInit, ProcessTypeOK, Alive, Ended
  <1>2. \A r \in Replicas : ProcessOK(r)
    BY DEF AppInit, Init, Fresh, ProcessOK
  <1>3. QED
    BY <1>1, <1>2 DEF ProcessInv

LEMMA ProcessInvariant == AppSpec => []ProcessInv
  <1>1. TypeOK /\ TypeOK' /\ ProcessInv /\ [AppNext]_appVars => ProcessInv'
    BY AppTyped, ProcessOKStep DEF ProcessInv
  <1>2. QED
    BY <1>1, ProcessInit, AppImplementsScheduler, TypeCorrect, PTL DEF AppSpec

-----------------------------------------------------------------------------
(* What holds of every run of the program.                                  *)

\* The invariant of the process: the pool is open exactly while main waits for the
\* group, and once main goes on the scheduler has stopped and no handler runs.
THEOREM ProcessIsOrderly == AppSpec => []AppInv
  <1>1. TypeOK /\ ProcessInv => AppInv
    BY DEF AppInv, AppTypeOK, ProcessInv, ProcessTypeOK
  <1>2. QED
    BY <1>1, ProcessInvariant, AppImplementsScheduler, TypeCorrect, PTL

\* The pool is closed when no handler, no worker and no claim transaction is left.
THEOREM PoolIsClosedLast == AppSpec => []PoolOutlivesUsers
  <1>1. ProcessInv /\ NothingHeldAfterDrain => PoolOutlivesUsers
    BY DEF ProcessInv, ProcessOK, NothingHeldAfterDrain, PoolOutlivesUsers
  <1>2. QED
    BY <1>1, ProcessInvariant, AppImplementsScheduler, DrainLeavesNothing, PTL

\* A process that ends by itself has given every claim up, and cuts off a request only
\* after the shutdown of the server has timed out.
THEOREM EndIsOrderly == AppSpec => LeavesNothing
  <1>1. ASSUME ProcessInv, NothingHeldAfterDrain, [AppNext]_appVars, NEW r \in Replicas,
               EndsItself(r)
        PROVE  Held(r) = {} /\ (inflight[r] # 0 => closer[r] = "timedout" /\ main'[r] = "exit1")
    <2>1. ProcessTypeOK /\ ProcessOK(r)
      BY <1>1 DEF ProcessInv
    <2>2. ExitWithError(r) \/ CloseApp(r)
      <3>1. UNCHANGED main => FALSE
        BY <1>1 DEF EndsItself
      <3>2. ASSUME NEW s \in Replicas,
                   \/ Boot(s) \/ Connect(s) \/ FailConnect(s) \/ Exit(s) \/ Kill(s)
                   \/ ExitWithError(s) \/ CloseApp(s)
            PROVE  ExitWithError(r) \/ CloseApp(r)
        <4>1. s = r
          BY <1>1, <2>1, <3>2 DEF Boot, Connect, FailConnect, Exit, Kill, ExitWithError, CloseApp,
                                  EndsItself, ProcessTypeOK
        <4>2. CASE Boot(s) \/ Connect(s) \/ FailConnect(s) \/ Exit(s) \/ Kill(s)
          BY <1>1, <2>1, <4>1, <4>2 DEF Boot, Connect, FailConnect, Exit, Kill, EndsItself,
                                        ProcessTypeOK, Ended
        <4>3. QED
          BY <3>2, <4>1, <4>2
      <3>3. QED
        BY <1>1, <3>1, <3>2
           DEF AppNext, MainStep, ServerStep, CancelScheduler, Signal, Listen, ServeReturns, BeginShutdown,
               EndShutdown, FailServe, ShutdownTimesOut, Accept, Answer, appVars, processVars
    <2>3. phase[r] = "stopped"
      BY <2>2 DEF ExitWithError, CloseApp, AllReturned
    <2>4. inflight[r] # 0 => closer[r] = "timedout" /\ main'[r] = "exit1"
      BY <2>1, <2>2 DEF ExitWithError, CloseApp, AllReturned, Failed, ProcessOK, ProcessTypeOK
    <2>5. QED
      BY <1>1, <2>3, <2>4 DEF NothingHeldAfterDrain
  <1>2. ProcessInv /\ NothingHeldAfterDrain /\ [AppNext]_appVars =>
          \A r \in Replicas : EndsItself(r) =>
            /\ Held(r) = {}
            /\ inflight[r] # 0 => closer[r] = "timedout" /\ main'[r] = "exit1"
    BY <1>1
  <1>3. QED
    BY <1>2, ProcessInvariant, AppImplementsScheduler, DrainLeavesNothing, PTL
       DEF AppSpec, LeavesNothing
=============================================================================
