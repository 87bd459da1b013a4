-------------------------------- MODULE Ledger --------------------------------
(****************************************************************************)
(* What SignalFlow promises of its jobs and executions, whoever works on    *)
(* them and whatever fails: the abstract specification that the scheduler   *)
(* and the job service implement (LedgerSpec in SchedulerProperties.tla).   *)
(*                                                                          *)
(* An execution is held by one goroutine, once, from the commit of its      *)
(* claim; the holder settles it or gives it up; who settled it reports it,  *)
(* at most once.  Replicas, queues, transactions and clocks are not seen.   *)
(****************************************************************************)
EXTENDS Integers, Sequences, FiniteSets

CONSTANT Jobs

VARIABLES
  jobs,      \* the status of each job
  entries,   \* the executions, in the order of their claims
  notified   \* entries whose outcome was handed to the dispatcher

ledgerVars == <<jobs, entries, notified>>

Live     == {"active", "paused", "disabled"}
Outcomes == {"success", "failure", "error"}
Stages   == {"held", "reporting", "closed"}
Entries  == [job : Jobs, outcome : {"running", "deleted"} \cup Outcomes, stage : Stages]

LedgerTypeOK ==
  /\ jobs \in [Jobs -> Live \cup {"uncreated", "deleted"}]
  /\ entries \in Seq(Entries)
  /\ notified \subseteq DOMAIN entries

LedgerInit ==
  /\ jobs \in [Jobs -> {"uncreated", "active"}]
  /\ entries = <<>>
  /\ notified = {}

\* An outcome is written to a row that is still there, or the UPDATE fails.
MayStore(entry, outcome) ==
  {entry.outcome} \cup (IF entry.outcome = "deleted" THEN {} ELSE {outcome})

SetStage(e, stage, outcome) ==
  entries' = [entries EXCEPT ![e].stage = stage, ![e].outcome = outcome]

-----------------------------------------------------------------------------
(* The owner: jobs are created, change their status and are deleted.        *)

Create(j) ==
  /\ jobs[j] = "uncreated"
  /\ jobs' = [jobs EXCEPT ![j] = "active"]
  /\ UNCHANGED <<entries, notified>>

ChangeStatus(j) ==
  /\ jobs[j] \in Live
  /\ \E status \in Live : jobs' = [jobs EXCEPT ![j] = status]
  /\ UNCHANGED <<entries, notified>>

Delete(j) ==
  /\ jobs[j] \in Live
  /\ jobs' = [jobs EXCEPT ![j] = "deleted"]
  /\ entries' = [e \in DOMAIN entries |->
       IF entries[e].job = j THEN [entries[e] EXCEPT !.outcome = "deleted"] ELSE entries[e]]
  /\ UNCHANGED notified

-----------------------------------------------------------------------------
(* The scheduler.                                                           *)

\* Some active jobs, each once, are claimed.  Either a replica holds all the new
\* entries, or, when the answer of the commit is lost, nobody holds any.
Claims == UNION {[1 .. n -> Jobs] : n \in 0 .. Cardinality(Jobs)}

Claim ==
  /\ \E q \in Claims, stage \in {"held", "closed"} :
       /\ \A i \in DOMAIN q : jobs[q[i]] = "active"
       /\ \A i, k \in DOMAIN q : q[i] = q[k] => i = k
       /\ entries' = entries \o [i \in DOMAIN q |->
            [job |-> q[i], outcome |-> "running", stage |-> stage]]
  /\ UNCHANGED <<jobs, notified>>

\* The holder is done with the work.
Settle(e) ==
  /\ entries[e].stage = "held"
  /\ \E o \in Outcomes : \E stored \in MayStore(entries[e], o) :
       SetStage(e, "reporting", stored)
  /\ UNCHANGED <<jobs, notified>>

\* The holder has no room for it, or is told to stop.
GiveUp(e) ==
  /\ entries[e].stage = "held"
  /\ \E stored \in MayStore(entries[e], "error") : SetStage(e, "closed", stored)
  /\ UNCHANGED <<jobs, notified>>

\* Somebody is notified, or nobody has asked for it.
Report(e) ==
  /\ entries[e].stage = "reporting"
  /\ SetStage(e, "closed", entries[e].outcome)
  /\ notified' \in {notified, notified \cup {e}}
  /\ UNCHANGED jobs

\* A process dies: nobody holds what it held, and its rows stay as they are.
Die ==
  /\ \E S \in SUBSET DOMAIN entries :
       entries' = [e \in DOMAIN entries |->
         IF e \in S THEN [entries[e] EXCEPT !.stage = "closed"] ELSE entries[e]]
  /\ UNCHANGED <<jobs, notified>>

\* Rows that still say running are presumed to be those of a dead process.
Presume ==
  /\ \E S \in SUBSET {e \in DOMAIN entries : entries[e].outcome = "running"} :
       entries' = [e \in DOMAIN entries |->
         IF e \in S THEN [entries[e] EXCEPT !.outcome = "error"] ELSE entries[e]]
  /\ UNCHANGED <<jobs, notified>>

LedgerNext ==
  \/ \E j \in Jobs : Create(j) \/ ChangeStatus(j) \/ Delete(j)
  \/ \E e \in DOMAIN entries : Settle(e) \/ GiveUp(e) \/ Report(e)
  \/ Claim \/ Die \/ Presume

Spec == LedgerInit /\ [][LedgerNext]_ledgerVars

-----------------------------------------------------------------------------
(* What whoever reads the tables may conclude.                              *)

\* Who was reported is done with: nobody holds it or will report it again
\* (dispatcher.Dispatch at the end of executeJob).
ReportedIsClosed == \A e \in notified : entries[e].stage = "closed"

\* An execution stays that of its job, its stages go forward and nobody takes it up
\* again; only who settled it reports it; an outcome stays once it is closed, until it
\* goes with its job.
EntryGoesOn(e) ==
  /\ e \in DOMAIN entries' /\ entries'[e].job = entries[e].job
  /\ \/ entries'[e].stage \in {entries[e].stage, "closed"}
     \/ entries[e].stage = "held" /\ entries'[e].stage = "reporting"
  /\ e \in notified => e \in notified'
  /\ e \in notified' \ notified => entries[e].stage = "reporting" /\ entries'[e].stage = "closed"
  /\ entries[e].stage = "closed" /\ entries[e].outcome \in Outcomes =>
       entries'[e].outcome \in {entries[e].outcome, "deleted"}

\* Every step of the tables lets every execution go on so (executeJob, markFailed,
\* RecoverStaleRunning, and jobs.Delete with its cascade).
LedgerGoesOn == [][\A e \in DOMAIN entries : EntryGoesOn(e)]_ledgerVars
=============================================================================
