------------------------- MODULE SchedulerProperties -------------------------
(****************************************************************************)
(* What the scheduler owes the tables and the jobs' owners.  Each property  *)
(* names the code it is about; Scheduler.tla models that code.              *)
(****************************************************************************)
EXTENDS Scheduler

Elements(q) == {q[i] : i \in DOMAIN q}
Distinct(q) == \A i, k \in DOMAIN q : q[i] = q[k] => i = k

Busy(r, w)    == worker[r][w].pc \in {"executing", "cancelled", "writing", "notifying"}
Running(r, w) == worker[r][w].pc \in {"executing", "cancelled"}

BusyWith(r)    == {worker[r][w].exec : w \in {v \in Workers : Busy(r, v)}}
RunningWith(r) == {worker[r][w].exec : w \in {v \in Workers : Running(r, v)}}

\* Executions some goroutine of r is responsible for, and those of them whose
\* outcome is not written yet.
Held(r)  == Elements(pending[r]) \cup Elements(jobChan[r]) \cup BusyWith(r)
Unsaved(r) == Elements(pending[r]) \cup Elements(jobChan[r]) \cup RunningWith(r)

-----------------------------------------------------------------------------
(* Safety.                                                                  *)

\* No execution is held by two replicas.
HeldApart ==
  \A r, s \in Replicas : r # s => Held(r) \cap Held(s) = {}

\* An execution is in one place of one replica: once in its list of claims or
\* once in its channel or with one worker.  Two workers never run one claim
\* (ClaimDue, tick, worker).
AtMostOneHolder ==
  /\ HeldApart
  /\ \A r \in Replicas :
       /\ Distinct(pending[r]) /\ Distinct(jobChan[r])
       /\ Elements(pending[r]) \cap Elements(jobChan[r]) = {}
       /\ BusyWith(r) \cap (Elements(pending[r]) \cup Elements(jobChan[r])) = {}
       /\ \A v, w \in Workers :
            Busy(r, v) /\ Busy(r, w) /\ worker[r][v].exec = worker[r][w].exec => v = w

\* As long as a claim waits or runs its row is still open: nobody but the
\* recovery of another replica has given it an outcome (tick, markFailed,
\* executeJob, RecoverStaleRunning).
UnsavedRowsAreOpen ==
  \A r \in Replicas : \A e \in Unsaved(r) :
    executions[e].status \in {"running", "deleted"} \/ executions[e].error = "stale"

\* What the claim transaction read is what it updates: until it ends nobody
\* changes the rows it has locked, and no other replica reads them for a claim
\* (FOR UPDATE SKIP LOCKED in ClaimDue against the UPDATE of executeJob).
ClaimReadsStayCurrent ==
  /\ \A r \in Replicas : \A j \in DOMAIN scan[r] : jobs[j] = scan[r][j]
  /\ \A r, s \in Replicas : r # s => DOMAIN scan[r] \cap DOMAIN scan[s] = {}

\* When Run is past <-done nothing it claimed is left on its heap, and it has
\* no transaction open (the drain in Run).
NothingHeldAfterDrain ==
  \A r \in Replicas : phase[r] \in {"flushing", "stopped"} =>
    Held(r) = {} /\ DOMAIN scan[r] = {}

\* What the owner of a job asked for with its condition.
Wanted(condition, status) ==
  CASE condition = "always"    -> TRUE
    [] condition = "malformed" -> FALSE
    [] condition = "success"   -> status = "success"
    [] OTHER                   -> status \in {"failure", "error"}

\* The notifier is called exactly for the executions whose stored outcome the
\* condition of the claimed job asks for, once their worker is done with them
\* (shouldNotify and the end of executeJob).
NotifiedIffWanted ==
  \A e \in DOMAIN executions :
    (executions[e].error = "executor" /\ \A r \in Replicas : e \notin Held(r))
      => (e \in dispatched <=> Wanted(claims[e].row.condition, executions[e].status))

\* A notification is only sent of an outcome an executor returned, that is stored and
\* stays, and that the claimed job's condition asks for: never of a row that still says
\* running or that a recovery, by another replica and perhaps just before, has closed
\* (the order of Update and Dispatch in executeJob against RecoverStaleRunning).
NotifiedOnlyIfWanted ==
  \A e \in dispatched :
    /\ executions[e].error = "executor"
    /\ Wanted(claims[e].row.condition, executions[e].status)

\* A claim moves next_run_at past the slot it serves, or, where the replica's clock is
\* behind the database's, back by less than the clocks differ: no slot is served twice
\* while the clocks agree (now() in the SELECT against time.Now() in nextRun).
SlotsMoveOn ==
  \A e \in DOMAIN claims : claims[e].row.nextRun + ClockSkew > claims[e].slot

-----------------------------------------------------------------------------
(* The inductive invariant behind the safety properties.                    *)

\* What the program counters say of the data: pending is in use exactly while
\* claims are handed over, rows are locked only inside the transaction, a batch
\* holds locked rows, a busy worker has a claim.
ControlOK ==
  \A r \in Replicas :
    /\ loop[r] \in {"dispatching", "marking"} <=> pending[r] # <<>>
    /\ loop[r] \notin {"scanned", "advanced"} => DOMAIN scan[r] = {}
    /\ loop[r] # "advanced" => batch[r] = <<>>
    /\ \A i \in DOMAIN batch[r] : batch[r][i] \in DOMAIN scan[r]
    /\ \A w \in Workers : Busy(r, w) => worker[r][w].exec \in DOMAIN executions

\* Claims move through a replica in the order of their ids: those with workers
\* are older than those in the channel, and these than the pending ones.
Ordered(r) ==
  /\ \A i, k \in DOMAIN pending[r] : i < k => pending[r][i] < pending[r][k]
  /\ \A i, k \in DOMAIN jobChan[r] : i < k => jobChan[r][i] < jobChan[r][k]
  /\ \A i \in DOMAIN jobChan[r], k \in DOMAIN pending[r] : jobChan[r][i] < pending[r][k]
  /\ \A w \in Workers : Busy(r, w) =>
       /\ \A i \in DOMAIN jobChan[r] : worker[r][w].exec < jobChan[r][i]
       /\ \A i \in DOMAIN pending[r] : worker[r][w].exec < pending[r][i]
  /\ \A v, w \in Workers :
       Busy(r, v) /\ Busy(r, w) /\ worker[r][v].exec = worker[r][w].exec => v = w

InClaimOrder == \A r \in Replicas : Ordered(r)

SafetyInv ==
  TypeOK /\ ControlOK /\ ClaimReadsStayCurrent /\ InClaimOrder /\ HeldApart
  /\ UnsavedRowsAreOpen

-----------------------------------------------------------------------------
(* What a step may never do.                                                *)

\* The replica gives a claim up only with an outcome in its row, except when
\* the process dies and in the race of markFailed with the cancelled context
\* (tick, markFailed, executeJob).
LetGo(r, e) ==
  \/ executions'[e].status # "running"
  \/ phase'[r] = "down"
  \/ loop[r] = "marking" /\ ctxDone[r]

NeverDropped ==
  [][\A r \in Replicas : \A e \in Unsaved(r) : e \in Unsaved(r)' \/ LetGo(r, e)]_vars

\* The outcome of an execution is final: only one that recoverStale gave to an
\* execution still in progress is ever replaced (ExecutionRepository.Update has
\* no condition on the old status).
OutcomeIsFinal ==
  [][\A e \in DOMAIN executions :
       executions[e].status \in Terminal /\ executions[e].error # "stale"
         => executions'[e] = executions[e]]_vars

-----------------------------------------------------------------------------
(* The abstract specification.                                              *)

\* Where execution e stands for an observer who does not see the replicas.
Stage(e) ==
  IF \E r \in Replicas : e \in Unsaved(r) THEN "held"
  ELSE IF \E r \in Replicas : e \in BusyWith(r) THEN "reporting"
  ELSE "closed"

LedgerEntries ==
  [e \in DOMAIN executions |->
     [job |-> executions[e].job, outcome |-> executions[e].status, stage |-> Stage(e)]]

L == INSTANCE Ledger WITH
       jobs <- [j \in Jobs |-> jobs[j].status],
       entries <- LedgerEntries,
       notified <- dispatched

\* Replicas, transactions, channels and workers together do to the tables what the
\* ledger allows: an execution is held by one goroutine from its claim on, gets an
\* outcome from its holder, is reported once after that, and once it is closed only
\* a recovery still writes it, and only if it says running.
LedgerSpec == L!Spec

-----------------------------------------------------------------------------
(* Liveness.                                                                *)

\* A cancelled Run returns: the drain ends, whatever the channel holds
\* (Run: break dispatchLoop, close, <-done).
DrainCompletes ==
  \A r \in Replicas : ctxDone[r] ~> phase[r] \in {"stopped", "down"}

\* Whatever is claimed leaves the pipeline again (tick, worker).
HeldIsReleased ==
  \A r \in Replicas : \A e \in 1 .. MaxExecs : e \in Held(r) ~> e \notin Held(r)

\* Due rows that stay due whatever a claim does: it skips them or leaves the zero time.
Stuck == {j \in Jobs : Due(j) /\ (jobs[j].nextRun = ZeroTime \/ ~Parses(jobs[j].schedule))}

\* The bound on executions is reached.
Exhausted == \E S \in EarliestDue : ~Fits(S)

\* Every other due job is claimed while a replica keeps running, unless the stuck rows
\* fill the LIMIT: fewer of them keep nobody out, although the SELECT finds them first
\* on every tick (ORDER BY, LIMIT and the continue of ClaimDue).
DueIsClaimed ==
  \A j \in Jobs :
    Due(j) /\ j \notin Stuck
      ~> \/ ~Due(j) \/ Exhausted \/ Cardinality(Stuck) >= ClaimLimit
         \/ \A r \in Replicas : phase[r] # "running" \/ ctxDone[r]

-----------------------------------------------------------------------------
(* What the repository says of the program and the program does not do.     *)

\* A claimed job is not due again at the time of the claim.
ClaimAdvances ==
  \A e \in DOMAIN claims : claims[e].row.nextRun > executions[e].startedAt

\* Every claim given to tick ends with a terminal state in its row unless the
\* process dies.
EveryClaimGetsOutcome ==
  [][\A r \in Replicas : \A e \in Unsaved(r) :
       \/ e \in Unsaved(r)' \/ executions'[e].status # "running" \/ phase'[r] = "down"]_vars

\* A row that a crash left running does not stay so forever: once it is older
\* than the stale age and a scheduler runs, it gets an outcome.
Orphaned(e) ==
  /\ e \in DOMAIN executions /\ Stale(executions[e], now)
  /\ \A r \in Replicas : e \notin Held(r)

OrphansAreRecovered ==
  \A e \in 1 .. MaxExecs :
    Orphaned(e) /\ (\E r \in Replicas : phase[r] = "running")
      ~> ~Orphaned(e) \/ \A r \in Replicas : phase[r] # "running"
=============================================================================
