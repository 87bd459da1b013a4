------------------------------ MODULE Dashboard ------------------------------
(****************************************************************************)
(* What the API and the dashboard read (internal/service/{dashboard,job,    *)
(* execution}.go over the lists and counts of internal/repository/postgres) *)
(* while the ledger of jobs and executions goes on.                         *)
(*                                                                          *)
(* An answer is put together from several statements without a transaction: *)
(* the four counts of the landing page, the COUNT and the SELECT of a list. *)
(* Each sees the tables of its own moment, and each may fail.               *)
(****************************************************************************)
EXTENDS Ledger

CONSTANTS
  Limit,       \* rows per page (limit)
  Faults,      \* "read": a statement may fail
  MaxChannels, \* channels of one job: the rows of one execution among the notifications
  MaxEntries   \* bound: executions ever claimed

ASSUME DashboardAssumption ==
  /\ IsFiniteSet(Jobs)
  /\ Limit \in Nat \ {0} /\ MaxChannels \in Nat /\ MaxEntries \in Nat
  /\ Faults \subseteq {"read"}

VARIABLES
  created,  \* created_at of the jobs: which one each was, 0 before
  stats,    \* the landing page on its way
  walk      \* a client that reads a list page by page

dashVars == <<ledgerVars, created, stats, walk>>

-----------------------------------------------------------------------------
(* The statements.                                                          *)

Existing == {j \in Jobs : jobs[j] \in Live}
Rows(j)  == {e \in DOMAIN entries : entries[e].job = j /\ entries[e].outcome # "deleted"}

\* Every job and execution here is of the user who asks and younger than a day.
CountOthers       == Cardinality(Existing) - 1    \* mutant: off by one
CountByUser       == Cardinality(Existing)
CountActiveByUser == Cardinality({j \in Jobs : jobs[j] = "active"})
CountFailures     == Cardinality({e \in DOMAIN entries : entries[e].outcome \in {"failure", "error"}})

\* Of the messages for an execution notified, one to each channel of its job, some
\* were accepted by now.
CountSent ==
  0 .. MaxChannels * Cardinality({e \in notified : entries[e].outcome # "deleted"})

Fields == <<"total", "active", "failures", "sent">>
ActiveFirst(i) ==    \* mutant: the columns of the page are swapped
  CASE i = 1 -> {CountActiveByUser}
    [] i = 2 -> {CountByUser}
    [] i = 3 -> {CountFailures}
    [] i = 4 -> CountSent
Answers(i) ==
  CASE Fields[i] = "total"    -> {CountByUser}
    [] Fields[i] = "active"   -> {CountActiveByUser}
    [] Fields[i] = "failures" -> {CountFailures}
    [] Fields[i] = "sent"     -> CountSent

\* ORDER BY created_at DESC, ORDER BY started_at DESC: the rows of a list and the
\* times by which they are sorted, newest first.
Lists == {"jobs"} \cup Jobs
Listed(list) == IF list = "jobs" THEN Existing ELSE Rows(list)
Times(list)  == [x \in Listed(list) |-> IF list = "jobs" THEN created[x] ELSE x]

Rank(x, time) == Cardinality({y \in DOMAIN time : time[y] > time[x]})
FromNext(list, offset, n) ==    \* mutant: OFFSET is one too far
  {x \in Listed(list) : Rank(x, Times(list)) \in offset + 1 .. offset + n}

\* LIMIT and OFFSET
Page(list, offset, n) ==
  {x \in Listed(list) : Rank(x, Times(list)) \in offset .. offset + n - 1}

-----------------------------------------------------------------------------
(* The state.                                                               *)

Answered == Len(Fields) + 1    \* no statement is left
Idle == [pc |-> 0, value |-> [i \in DOMAIN Fields |-> 0], failed |-> 0, born |-> 0]
Home == [pc |-> "idle", list |-> "jobs", offset |-> 0, total |-> 0,
         owed |-> {}, seen |-> {}, slipped |-> 0, removed |-> 0, cut |-> 0]

Items == Jobs \cup 1 .. MaxEntries
DashboardTypeOK ==
  /\ LedgerTypeOK /\ Len(entries) <= MaxEntries
  /\ created \in [Jobs -> Nat]
  /\ stats \in [pc : 0 .. Answered, value : [DOMAIN Fields -> Nat],
                 failed : 0 .. Len(Fields), born : Nat]
  /\ walk \in [pc : {"idle", "counted", "between", "done"}, list : Lists, offset : Nat,
                total : Nat, owed : SUBSET Items, seen : SUBSET Items,
                slipped : Nat, removed : Nat, cut : Nat]

DashboardInit ==
  /\ LedgerInit
  /\ jobs = [j \in Jobs |-> "uncreated"]
  /\ created = [j \in Jobs |-> 0]
  /\ stats = Idle
  /\ walk = Home

\* The tables go on until the answer is complete (a bound).  What happens to them
\* while an answer is on its way is remembered: jobs created, rows added between
\* COUNT and SELECT, rows removed.
Created == {j \in Jobs : jobs[j] # "uncreated"}
NewJobs == Created' \ Created
Added(list)   == Listed(list)' \ Listed(list)
Removed(list) == Listed(list) \ Listed(list)'

Tables ==
  /\ stats.pc # Answered /\ walk.pc # "done"
  /\ LedgerNext
  /\ Len(entries') <= MaxEntries
  /\ created' = [j \in Jobs |-> IF j \in NewJobs THEN Cardinality(Created) + 1 ELSE created[j]]
  /\ stats' = IF stats.pc \in DOMAIN Fields
              THEN [stats EXCEPT !.born = @ + Cardinality(NewJobs)] ELSE stats
  /\ \E list \in {walk.list} :
       walk' = CASE walk.pc = "counted" ->
                      [walk EXCEPT !.slipped = @ + Cardinality(Added(list)),
                                   !.removed = @ + Cardinality(Removed(list))]
                 [] walk.pc = "between" ->
                      [walk EXCEPT !.removed = @ + Cardinality(Removed(list))]
                 [] OTHER -> walk

\* Readers change nothing, so one of them shows what each can see.
Free == stats = Idle /\ walk = Home

-----------------------------------------------------------------------------
(* The landing page: Stats, rendered whatever it returns (Index).           *)

OpenPage ==
  /\ Free
  /\ stats' = [Idle EXCEPT !.pc = 1]
  /\ UNCHANGED <<ledgerVars, created, walk>>

Count ==
  /\ stats.pc \in DOMAIN Fields
  /\ \E n \in Answers(stats.pc) :
       stats' = [stats EXCEPT !.pc = @ + 1, !.value[stats.pc] = n]
  /\ UNCHANGED <<ledgerVars, created, walk>>

\* The first failing statement ends Stats: the counts after it are not asked for.
FailCount ==
  /\ "read" \in Faults
  /\ stats.pc \in DOMAIN Fields
  /\ stats' = [stats EXCEPT !.pc = Answered, !.failed = stats.pc]
  /\ UNCHANGED <<ledgerVars, created, walk>>

-----------------------------------------------------------------------------
(* A list: List of jobs, ListByJob of executions.  A client asks for page   *)
(* after page until it has read as many rows as the last total.             *)

StartWalk(list) ==
  /\ Free
  /\ walk' = [Home EXCEPT !.pc = "between", !.list = list, !.owed = Listed(list)]
  /\ UNCHANGED <<ledgerVars, created, stats>>

CountRows ==
  /\ walk.pc = "between"
  /\ walk' = [walk EXCEPT !.pc = "counted", !.total = Cardinality(Listed(walk.list)), !.slipped = 0]
  /\ UNCHANGED <<ledgerVars, created, stats>>

\* When the connection fails in between, rows.Next ends the loop like the last row
\* does, and nobody asks rows.Err: the page is cut short without an error.
Arriving == IF "read" \in Faults THEN 0 .. Limit ELSE {Limit}

SelectPage ==
  /\ walk.pc = "counted"
  /\ \E n \in Arriving : \E rows \in {Page(walk.list, walk.offset, n)} :
       walk' = [walk EXCEPT
         !.pc = IF walk.offset + Limit >= walk.total THEN "done" ELSE "between",
         !.offset = @ + Limit,
         !.seen = @ \cup rows,
         !.cut = @ + Cardinality(Page(walk.list, walk.offset, Limit) \ rows)]
  /\ UNCHANGED <<ledgerVars, created, stats>>

\* 500: the client gives up.
FailPage ==
  /\ "read" \in Faults
  /\ walk.pc \in {"between", "counted"}
  /\ walk' = Home
  /\ UNCHANGED <<ledgerVars, created, stats>>

-----------------------------------------------------------------------------
DashboardNext ==
  \/ Tables
  \/ OpenPage \/ Count \/ FailCount
  \/ (\E list \in Lists : StartWalk(list)) \/ CountRows \/ SelectPage \/ FailPage

DashboardSpec == DashboardInit /\ [][DashboardNext]_dashVars

-----------------------------------------------------------------------------
(* Properties.                                                              *)

\* The four counts are of four moments, yet they fit together but for the jobs
\* created in between: no more active jobs than jobs, and no failure and no
\* notification without a job (the order of the statements in Stats; the joins
\* of CountFailuresByUserSince and CountSentByUserSince).
StatsFit ==
  stats.pc = Answered /\ stats.failed = 0 =>
    /\ stats.value[2] <= stats.value[1] + stats.born
    /\ stats.value[1] + stats.born = 0 => stats.value[3] = 0 /\ stats.value[4] = 0

\* Who reads a list page by page misses no row that was there from the beginning
\* to the end, except one for each row that was deleted meanwhile, that was inserted
\* between the COUNT and the SELECT of the last page, or that a failing connection
\* kept back (newest first, LIMIT and OFFSET, rows.Next in List and ListByJob).
StillListed == walk.owed \cap Listed(walk.list)
WalkMissesLittle ==
  walk.pc = "done" =>
    Cardinality(StillListed \ walk.seen) <= walk.slipped + walk.removed + walk.cut

-----------------------------------------------------------------------------
(* What holds at every moment, from which the two follow (DashboardProofs). *)

\* No two jobs have the same created_at; rows that are left are of jobs that are left.
CreatedInTurn ==
  \A j \in Created :
    /\ created[j] \in 1 .. Cardinality(Created)
    /\ \A k \in Created : created[j] = created[k] => j = k
RowsOfLiveJobs ==
  \A e \in DOMAIN entries : entries[e].outcome # "deleted" => jobs[entries[e].job] \in Live

\* The counts that have come so far.
Got(i) == stats.failed = 0 /\ stats.pc > i
JobsKnown == stats.value[1] + stats.born
StatsSoFar ==
  /\ stats.failed # 0 => stats.pc = Answered
  /\ Got(1) => Cardinality(Existing) <= JobsKnown
  /\ Got(2) => stats.value[2] <= JobsKnown
  /\ \A i \in {3, 4} : Got(i) /\ JobsKnown = 0 => stats.value[i] = 0

\* The rows a list has had, the rows missed so far, and how many rows the list has at most.
Known(list) == IF list = "jobs" THEN Created ELSE DOMAIN entries
Missed == {x \in StillListed \ walk.seen : Rank(x, Times(walk.list)) < walk.offset}
WalkSoFar ==
  /\ walk.pc = "idle" => walk = Home
  /\ walk.owed \subseteq Known(walk.list)
  /\ Cardinality(Missed) <= walk.removed + walk.cut
  /\ walk.pc = "counted" => Cardinality(Listed(walk.list)) <= walk.total + walk.slipped
  /\ walk.pc = "done" => Cardinality(Listed(walk.list)) <= walk.offset + walk.slipped

\* The inductive invariant: an answer in the making is wrong by no more than what has
\* happened to the tables since it was begun (Stats; List and ListByJob, page by page).
DashboardInv ==
  DashboardTypeOK /\ CreatedInTurn /\ RowsOfLiveJobs /\ StatsSoFar /\ WalkSoFar
=============================================================================
