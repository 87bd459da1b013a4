---------------------------------- MODULE App ----------------------------------
(****************************************************************************)
(* One process of SignalFlow (cmd/signalflow/main.go, internal/app/app.go): *)
(* main, the error group of app.Run with the HTTP server, its shutdown and  *)
(* the scheduler, the requests in flight and the connection pool that all   *)
(* of them use.                                                             *)
(*                                                                          *)
(* The scheduler's own steps are those of Scheduler.tla.  What is there an  *)
(* event from outside comes from here: a process starts it, cancels its     *)
(* context and waits for its Run.                                           *)
(****************************************************************************)
EXTENDS SchedulerProperties

CONSTANTS
  AppFaults,   \* "connect": the database is not reached; "serve": no listener, or it fails
  MaxRequests  \* bound: requests in flight in one process

ASSUME AppAssumption ==
  AppFaults \subseteq {"connect", "serve"} /\ MaxRequests \in Nat

VARIABLES
  main,       \* where main stands
  signalled,  \* a SIGTERM or SIGINT has reached the process
  server,     \* the goroutine of ListenAndServe
  closer,     \* the goroutine of srv.Shutdown
  inflight,   \* requests whose handler runs
  pool        \* the connection pool

processVars == <<main, signalled, server, closer, inflight, pool>>
appVars     == <<vars, processVars>>

Alive == {"booting", "running", "closing"}
Ended == {"off", "exit0", "exit1"}

AppTypeOK ==
  /\ TypeOK
  /\ main \in [Replicas -> Alive \cup Ended]
  /\ signalled \in [Replicas -> BOOLEAN]
  /\ server \in [Replicas -> {"new", "listening", "closing", "closed", "failed"}]
  /\ closer \in [Replicas -> {"waiting", "shutting", "done", "timedout"}]
  /\ inflight \in [Replicas -> 0 .. MaxRequests]
  /\ pool \in [Replicas -> {"none", "open", "closed"}]

AppInit ==
  /\ Init
  /\ main = [r \in Replicas |-> "off"]
  /\ signalled = [r \in Replicas |-> FALSE]
  /\ server = [r \in Replicas |-> "new"]
  /\ closer = [r \in Replicas |-> "waiting"]
  /\ inflight = [r \in Replicas |-> 0]
  /\ pool = [r \in Replicas |-> "none"]

\* What main knows of the rest: the pool is open while it waits for the group, and
\* once it goes on, nobody else is left.
ProcessOK(r) ==
  /\ main[r] = "running" <=> pool[r] = "open"
  /\ pool[r] = "closed" => main[r] \in {"closing", "exit0"}
  /\ main[r] # "running" => phase[r] \in {"down", "stopped"} /\ inflight[r] = 0
  /\ main[r] \in {"closing", "exit0"} => phase[r] = "stopped"
  /\ closer[r] # "waiting" => server[r] # "listening"
  /\ closer[r] = "done" => inflight[r] = 0

AppInv == AppTypeOK /\ \A r \in Replicas : ProcessOK(r)

\* gctx is cancelled by a signal and by the first goroutine that returns an error.
OnlySignal(r) == signalled[r]    \* mutant: a group without a context
Cancelled(r) == signalled[r] \/ server[r] = "failed" \/ closer[r] = "timedout"

-----------------------------------------------------------------------------
(* main: start and end.                                                     *)

\* A process starts.
Boot(r) ==
  /\ main[r] \in Ended
  /\ phase[r] \in {"down", "stopped"}
  /\ starts[r] < MaxStarts
  /\ main' = [main EXCEPT ![r] = "booting"]
  /\ signalled' = [signalled EXCEPT ![r] = FALSE]
  /\ server' = [server EXCEPT ![r] = "new"]
  /\ closer' = [closer EXCEPT ![r] = "waiting"]
  /\ inflight' = [inflight EXCEPT ![r] = 0]
  /\ pool' = [pool EXCEPT ![r] = "none"]
  /\ UNCHANGED vars

\* app.New connects, and app.Run starts the three goroutines.
Connect(r) ==
  /\ main[r] = "booting"
  /\ Start(r)
  /\ main' = [main EXCEPT ![r] = "running"]
  /\ pool' = [pool EXCEPT ![r] = "open"]
  /\ UNCHANGED <<signalled, server, closer, inflight>>

\* os.Exit(1)
FailConnect(r) ==
  /\ main[r] = "booting"
  /\ "connect" \in AppFaults \/ signalled[r]
  /\ main' = [main EXCEPT ![r] = "exit1"]
  /\ UNCHANGED <<vars, signalled, server, closer, inflight, pool>>

\* signal.NotifyContext; a second signal changes nothing.
Signal(r) ==
  /\ main[r] \in Alive
  /\ ~signalled[r]
  /\ signalled' = [signalled EXCEPT ![r] = TRUE]
  /\ UNCHANGED <<vars, main, server, closer, inflight, pool>>

\* The cancellation of gctx reaches the scheduler.
CancelScheduler(r) ==
  /\ Cancelled(r)
  /\ Terminate(r)
  /\ UNCHANGED processVars

\* g.Wait waits for all three and returns the first error.
FirstReturn(r) ==    \* mutant: the group is not waited for
  server[r] \in {"closed", "failed"}
AllReturned(r) ==
  /\ server[r] \in {"closed", "failed"}
  /\ closer[r] \in {"done", "timedout"}
  /\ phase[r] = "stopped"
Failed(r) == server[r] = "failed" \/ closer[r] = "timedout"

\* An error ends the process at once: no deferred call runs, open connections
\* and the pool go with it.
ExitWithError(r) ==
  /\ main[r] = "running"
  /\ AllReturned(r)
  /\ Failed(r)
  /\ main' = [main EXCEPT ![r] = "exit1"]
  /\ inflight' = [inflight EXCEPT ![r] = 0]
  /\ pool' = [pool EXCEPT ![r] = "none"]
  /\ UNCHANGED <<vars, signalled, server, closer>>

\* Without an error main returns, and the deferred Close closes the pool.
CloseApp(r) ==
  /\ main[r] = "running"
  /\ AllReturned(r)
  /\ ~Failed(r)
  /\ main' = [main EXCEPT ![r] = "closing"]
  /\ pool' = [pool EXCEPT ![r] = "closed"]
  /\ UNCHANGED <<vars, signalled, server, closer, inflight>>

Exit(r) ==
  /\ main[r] = "closing"
  /\ main' = [main EXCEPT ![r] = "exit0"]
  /\ UNCHANGED <<vars, signalled, server, closer, inflight, pool>>

\* SIGKILL, a node that goes away.
Kill(r) ==
  /\ "crash" \in Faults
  /\ main[r] \in Alive
  /\ \/ Crash(r)
     \/ phase[r] \in {"down", "stopped"} /\ UNCHANGED vars
  /\ main' = [main EXCEPT ![r] = "off"]
  /\ inflight' = [inflight EXCEPT ![r] = 0]
  /\ pool' = [pool EXCEPT ![r] = "none"]
  /\ UNCHANGED <<signalled, server, closer>>

-----------------------------------------------------------------------------
(* The HTTP server.                                                         *)

SetServer(r, state) == server' = [server EXCEPT ![r] = state]

\* ListenAndServe; after Shutdown it returns ErrServerClosed, which is no error,
\* without having listened.
Listen(r) ==
  /\ main[r] = "running"
  /\ server[r] = "new"
  /\ SetServer(r, IF closer[r] = "waiting" THEN "listening" ELSE "closed")
  /\ UNCHANGED <<vars, main, signalled, closer, inflight, pool>>

\* The listener is closed under it: ErrServerClosed, no error.
ServeReturns(r) ==
  /\ main[r] = "running"
  /\ server[r] = "closing"
  /\ SetServer(r, "closed")
  /\ UNCHANGED <<vars, main, signalled, closer, inflight, pool>>

\* The port is taken, or Accept fails for good; the error may also have come just
\* before Shutdown, which then finds a server that is about to return it.
FailServe(r) ==
  /\ "serve" \in AppFaults
  /\ main[r] = "running"
  /\ server[r] \in {"new", "listening", "closing"}
  /\ SetServer(r, "failed")
  /\ UNCHANGED <<vars, main, signalled, closer, inflight, pool>>

\* A request comes in and its handler starts.
Accept(r) ==
  /\ main[r] = "running"
  /\ server[r] = "listening"
  /\ inflight[r] < MaxRequests
  /\ inflight' = [inflight EXCEPT ![r] = @ + 1]
  /\ UNCHANGED <<vars, main, signalled, server, closer, pool>>

\* A handler answers, by the timeout of the router at the latest.
Answer(r) ==
  /\ main[r] \in Alive
  /\ inflight[r] > 0
  /\ inflight' = [inflight EXCEPT ![r] = @ - 1]
  /\ UNCHANGED <<vars, main, signalled, server, closer, pool>>

-----------------------------------------------------------------------------
(* The goroutine that shuts the server down.                                *)

SetCloser(r, state) == closer' = [closer EXCEPT ![r] = state]

\* <-gctx.Done(), then Shutdown closes the listener.
BeginShutdown(r) ==
  /\ main[r] = "running"
  /\ closer[r] = "waiting"
  /\ Cancelled(r)
  /\ SetCloser(r, "shutting")
  /\ SetServer(r, IF server[r] = "listening" THEN "closing" ELSE server[r])
  /\ UNCHANGED <<vars, main, signalled, inflight, pool>>

NoneLeft(r) == inflight[r] >= 0    \* mutant: Close, not Shutdown
Quiet(r) == inflight[r] = 0

EndShutdown(r) ==
  /\ main[r] = "running"
  /\ closer[r] = "shutting"
  /\ Quiet(r)
  /\ SetCloser(r, "done")
  /\ UNCHANGED <<vars, main, signalled, server, inflight, pool>>

\* shutdownTimeout: Shutdown returns an error, the handlers run on.
ShutdownTimesOut(r) ==
  /\ main[r] = "running"
  /\ closer[r] = "shutting"
  /\ ~Quiet(r)
  /\ SetCloser(r, "timedout")
  /\ UNCHANGED <<vars, main, signalled, server, inflight, pool>>

-----------------------------------------------------------------------------
ServerStep(r) == Listen(r) \/ ServeReturns(r) \/ BeginShutdown(r) \/ EndShutdown(r)
MainStep(r) ==
  Connect(r) \/ FailConnect(r) \/ ExitWithError(r) \/ CloseApp(r) \/ Exit(r)

AppNext ==
  \/ TimePasses /\ UNCHANGED processVars
  \/ \E r \in Replicas :
       \/ /\ \/ RecoverStale(r) \/ GraceExpires(r) \/ Tick(r) \/ Shutdown(r)
             \/ \E w \in Workers : Work(r, w)
          /\ UNCHANGED processVars
       \/ Boot(r) \/ Signal(r) \/ Kill(r) \/ MainStep(r) \/ CancelScheduler(r)
       \/ ServerStep(r) \/ FailServe(r) \/ ShutdownTimesOut(r)
       \/ Accept(r) \/ Answer(r)

AppSpec == AppInit /\ [][AppNext]_appVars

\* Besides the scheduler's goroutines, main, the server's goroutines and the
\* handlers go on; a cancellation reaches who waits for it.  Nothing is assumed of
\* starts, signals, requests, failures and the shutdown timer.
AppFairSpec ==
  /\ AppSpec /\ Fairness
  /\ \A r \in Replicas :
       /\ WF_appVars(MainStep(r)) /\ WF_appVars(CancelScheduler(r))
       /\ WF_appVars(ServerStep(r)) /\ WF_appVars(Answer(r))

-----------------------------------------------------------------------------
(* Properties.                                                              *)

\* Nobody is left who would use the pool when it is closed: no handler, no worker,
\* no claim transaction (the deferred Close in main against the three goroutines
\* of app.Run and the drain of the scheduler).
PoolOutlivesUsers ==
  \A r \in Replicas : pool[r] = "closed" =>
    inflight[r] = 0 /\ phase[r] = "stopped" /\ Held(r) = {} /\ DOMAIN scan[r] = {}

\* A process that ends by itself leaves no claim behind, and cuts a request off
\* only when Shutdown has waited for it in vain (g.Wait, shutdownTimeout, os.Exit).
EndsItself(r) == main[r] = "running" /\ main'[r] # "running" /\ main'[r] # "off"
LeavesNothing ==
  [][\A r \in Replicas : EndsItself(r) =>
       /\ Held(r) = {}
       /\ inflight[r] # 0 => closer[r] = "timedout" /\ main'[r] = "exit1"]_appVars

\* Whatever ends one goroutine of the group ends the process: after a signal, a
\* failing listener or a failing shutdown it does not linger half alive, with a
\* server and no scheduler or the reverse (errgroup.WithContext, gctx).
FailureEndsProcess ==
  \A r \in Replicas : (signalled[r] \/ Failed(r)) ~> main[r] \in Ended
=============================================================================
