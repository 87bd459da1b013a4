---------------------------- MODULE DashboardProofs ----------------------------
(****************************************************************************)
(* Answers that are put together from several statements are wrong by no    *)
(* more than what has happened to the tables meanwhile: for every number of *)
(* jobs, executions and pages, and whatever statements fail.                *)
(****************************************************************************)
EXTENDS Dashboard, FiniteSetTheorems, SequenceTheorems, TLAPS

-----------------------------------------------------------------------------
(* The places of rows in a list that is sorted by distinct times.           *)

\* A set is no larger than two that cover it.
LEMMA CoverIsNoSmaller ==
  ASSUME NEW A, NEW B, NEW C, IsFiniteSet(A), IsFiniteSet(B), C \subseteq A \cup B
  PROVE  /\ IsFiniteSet(C) /\ Cardinality(C) <= Cardinality(A) + Cardinality(B)
         /\ Cardinality(A) \in Nat /\ Cardinality(B) \in Nat /\ Cardinality(C) \in Nat
  <1>1. /\ IsFiniteSet(A \cup B)
        /\ Cardinality(A \cup B) = Cardinality(A) + Cardinality(B) - Cardinality(A \cap B)
    BY FS_Union
  <1>2. IsFiniteSet(C) /\ Cardinality(C) <= Cardinality(A \cup B)
    BY <1>1, FS_Subset
  <1>3. /\ Cardinality(A) \in Nat /\ Cardinality(B) \in Nat /\ Cardinality(C) \in Nat
        /\ Cardinality(A \cap B) \in Nat /\ Cardinality(A \cup B) \in Nat
    BY <1>1, <1>2, FS_Intersection, FS_CardinalityType
  <1>4. QED
    BY <1>1, <1>2, <1>3

Sorts(time) ==
  /\ IsFiniteSet(DOMAIN time)
  /\ \A x \in DOMAIN time : time[x] \in Nat
  /\ \A x, y \in DOMAIN time : time[x] = time[y] => x = y

Newer(x, time) == {y \in DOMAIN time : time[y] > time[x]}

\* A rank is a place in the list.
LEMMA RankIsPlace ==
  ASSUME NEW time, Sorts(time), NEW x \in DOMAIN time
  PROVE  /\ IsFiniteSet(Newer(x, time))
         /\ Rank(x, time) \in Nat
         /\ Rank(x, time) < Cardinality(DOMAIN time)
  <1>1. x \notin Newer(x, time) /\ Newer(x, time) \subseteq DOMAIN time
    BY DEF Newer, Sorts
  <1>2. IsFiniteSet(Newer(x, time)) /\ Cardinality(Newer(x, time)) <= Cardinality(DOMAIN time)
    BY <1>1, FS_Subset DEF Sorts
  <1>3. Cardinality(Newer(x, time)) # Cardinality(DOMAIN time)
    BY <1>1, FS_Subset DEF Sorts
  <1>4. Cardinality(Newer(x, time)) \in Nat /\ Cardinality(DOMAIN time) \in Nat
    BY <1>2, FS_CardinalityType DEF Sorts
  <1>5. Rank(x, time) = Cardinality(Newer(x, time))
    BY DEF Rank, Newer
  <1>6. QED
    BY <1>2, <1>3, <1>4, <1>5

\* What is newer comes first.
LEMMA NewerComesFirst ==
  ASSUME NEW time, Sorts(time), NEW x \in DOMAIN time, NEW y \in DOMAIN time, time[x] > time[y]
  PROVE  Rank(x, time) < Rank(y, time)
  <1>1. Newer(x, time) \subseteq Newer(y, time) /\ x \in Newer(y, time) /\ x \notin Newer(x, time)
    BY DEF Newer, Sorts
  <1>2. IsFiniteSet(Newer(y, time))
    BY RankIsPlace
  <1>3. /\ Cardinality(Newer(x, time)) <= Cardinality(Newer(y, time))
        /\ Cardinality(Newer(x, time)) # Cardinality(Newer(y, time))
    BY <1>1, <1>2, FS_Subset
  <1>4. Rank(x, time) = Cardinality(Newer(x, time)) /\ Rank(y, time) = Cardinality(Newer(y, time))
    BY DEF Rank, Newer
  <1>5. Rank(x, time) \in Nat /\ Rank(y, time) \in Nat
    BY RankIsPlace
  <1>6. QED
    BY <1>3, <1>4, <1>5

\* No place is taken twice.
LEMMA PlacesDiffer ==
  ASSUME NEW time, Sorts(time), NEW x \in DOMAIN time, NEW y \in DOMAIN time,
         Rank(x, time) = Rank(y, time)
  PROVE  x = y
  <1>1. time[x] \in Nat /\ time[y] \in Nat
    BY DEF Sorts
  <1>2. ~ (time[x] > time[y]) /\ ~ (time[y] > time[x])
    BY NewerComesFirst, RankIsPlace
  <1>3. QED
    BY <1>1, <1>2 DEF Sorts

\* Between two places there are no more rows than places.
LEMMA RowsBetween ==
  ASSUME NEW time, Sorts(time), NEW a \in Nat, NEW b \in Nat, a <= b,
         NEW T \in SUBSET DOMAIN time, \A x \in T : a <= Rank(x, time) /\ Rank(x, time) < b
  PROVE  IsFiniteSet(T) /\ Cardinality(T) <= b - a
  <1> DEFINE place == [x \in T |-> Rank(x, time)]
             places == a .. b - 1
  <1>1. \A x \in T : Rank(x, time) \in places
    BY RankIsPlace
  <1>2. place \in Injection(T, places)
    BY <1>1, PlacesDiffer DEF Injection, IsInjective
  <1>3. IsFiniteSet(places) /\ Cardinality(places) = b - a
    BY FS_Interval
  <1> HIDE DEF place, places
  <1>4. QED
    BY <1>2, <1>3, FS_Injection

\* When some rows go and others come, a row moves up by at most the number that went.
LEMMA MovesUpLittle ==
  ASSUME NEW time, Sorts(time), NEW later, Sorts(later),
         \A y \in DOMAIN time \cap DOMAIN later : later[y] = time[y],
         NEW x \in DOMAIN time \cap DOMAIN later
  PROVE  Rank(x, time) <= Rank(x, later) + Cardinality(DOMAIN time \ DOMAIN later)
  <1> DEFINE Gone == DOMAIN time \ DOMAIN later
  <1>1. Newer(x, time) \subseteq Newer(x, later) \cup Gone
    BY DEF Newer
  <1>2. IsFiniteSet(Gone) /\ IsFiniteSet(Newer(x, later))
    BY RankIsPlace, FS_Difference DEF Sorts
  <1> HIDE DEF Gone
  <1>3. Cardinality(Newer(x, time)) <= Cardinality(Newer(x, later)) + Cardinality(Gone)
    BY <1>1, <1>2, CoverIsNoSmaller
  <1>4. QED
    BY <1>3 DEF Rank, Newer, Gone

-----------------------------------------------------------------------------
(* The ledger goes on.                                                      *)

\* What a step of the ledger keeps.
LedgerKept ==
  /\ Len(entries) <= Len(entries')
  /\ \A e \in DOMAIN entries :
       /\ entries'[e].job = entries[e].job
       /\ entries[e].outcome = "deleted" => entries'[e].outcome = "deleted"
  /\ Created \subseteq Created' /\ Existing' \subseteq Existing \cup NewJobs
  /\ \A j, k \in NewJobs : j = k

\* Entries are changed in place, none moves to another job and no row comes back.
LEMMA EntriesChanged ==
  ASSUME LedgerTypeOK, RowsOfLiveJobs,
         entries' \in [DOMAIN entries -> Entries],
         \A e \in DOMAIN entries : entries'[e].job = entries[e].job,
         \A e \in DOMAIN entries : entries[e].outcome = "deleted" => entries'[e].outcome = "deleted",
         UNCHANGED jobs, notified' \subseteq DOMAIN entries
  PROVE  LedgerTypeOK' /\ RowsOfLiveJobs' /\ LedgerKept
  <1>1. entries \in Seq(Entries) /\ DOMAIN entries = 1 .. Len(entries) /\ Len(entries) \in Nat
    BY DEF LedgerTypeOK
  <1>2. entries' \in Seq(Entries) /\ Len(entries') = Len(entries) /\ DOMAIN entries' = DOMAIN entries
    BY <1>1
  <1>3. LedgerTypeOK'
    BY <1>2 DEF LedgerTypeOK
  <1>4. RowsOfLiveJobs'
    BY <1>2 DEF RowsOfLiveJobs
  <1>5. LedgerKept
    BY <1>1, <1>2 DEF LedgerKept, Created, Existing, NewJobs
  <1>6. QED
    BY <1>3, <1>4, <1>5

\* A step that writes the stage and the outcome of one entry.
LEMMA StageIsSet ==
  ASSUME LedgerTypeOK, NEW e \in DOMAIN entries, NEW stage \in Stages,
         NEW outcome \in MayStore(entries[e], "error") \cup UNION {MayStore(entries[e], o) : o \in Outcomes},
         SetStage(e, stage, outcome)
  PROVE  /\ entries' \in [DOMAIN entries -> Entries]
         /\ \A d \in DOMAIN entries :
              /\ entries'[d].job = entries[d].job
              /\ entries[d].outcome = "deleted" => entries'[d].outcome = "deleted"
  <1>1. entries \in [DOMAIN entries -> Entries]
    BY DEF LedgerTypeOK
  <1>2. entries[e] \in Entries
    BY <1>1
  <1>3. /\ outcome \in {"running", "deleted"} \cup Outcomes
        /\ entries[e].outcome = "deleted" => outcome = "deleted"
    BY <1>2 DEF MayStore, Entries, Outcomes
  <1>4. entries' = [d \in DOMAIN entries |->
          IF d = e THEN [entries[e] EXCEPT !.stage = stage, !.outcome = outcome] ELSE entries[d]]
    BY <1>1 DEF SetStage
  <1>5. QED
    BY <1>1, <1>2, <1>3, <1>4 DEF Entries

LEMMA JobStep ==
  ASSUME LedgerTypeOK, RowsOfLiveJobs, NEW j \in Jobs,
         Create(j) \/ ChangeStatus(j) \/ Delete(j)
  PROVE  LedgerTypeOK' /\ RowsOfLiveJobs' /\ LedgerKept
  <1>1. /\ entries \in Seq(Entries) /\ entries \in [DOMAIN entries -> Entries]
        /\ DOMAIN entries = 1 .. Len(entries) /\ Len(entries) \in Nat
    BY DEF LedgerTypeOK
  <1>2. PICK status \in Live \cup {"deleted"} : jobs' = [jobs EXCEPT ![j] = status]
    BY DEF Create, ChangeStatus, Delete, Live
  <1>3. jobs' \in [Jobs -> Live \cup {"uncreated", "deleted"}]
    BY <1>2 DEF LedgerTypeOK
  <1>4. /\ Created \subseteq Created' /\ \A k \in NewJobs : k = j
        /\ Existing' \subseteq Existing \cup NewJobs
    BY <1>2 DEF Create, ChangeStatus, Delete, Created, Existing, NewJobs, LedgerTypeOK, Live
  <1>5. CASE Create(j) \/ ChangeStatus(j)
    <2>1. UNCHANGED <<entries, notified>> /\ status \in Live
      BY <1>2, <1>5 DEF Create, ChangeStatus, Live, LedgerTypeOK
    <2>2. LedgerTypeOK' /\ LedgerKept
      BY <1>1, <1>3, <1>4, <2>1 DEF LedgerTypeOK, LedgerKept
    <2>3. RowsOfLiveJobs'
      BY <1>2, <2>1 DEF RowsOfLiveJobs, LedgerTypeOK
    <2>4. QED
      BY <2>2, <2>3
  <1>6. CASE Delete(j)
    <2>1. /\ UNCHANGED notified
          /\ entries' = [e \in DOMAIN entries |->
               IF entries[e].job = j THEN [entries[e] EXCEPT !.outcome = "deleted"] ELSE entries[e]]
      BY <1>6 DEF Delete
    <2>2. /\ entries' \in [DOMAIN entries -> Entries]
          /\ \A e \in DOMAIN entries : entries'[e].job = entries[e].job
          /\ \A e \in DOMAIN entries : entries'[e].outcome # "deleted" =>
               entries[e].job # j /\ entries[e].outcome # "deleted"
      BY <1>1, <2>1 DEF Entries
    <2>3. entries' \in Seq(Entries) /\ Len(entries') = Len(entries) /\ DOMAIN entries' = DOMAIN entries
      BY <1>1, <2>2
    <2>4. LedgerTypeOK' /\ LedgerKept
      BY <1>1, <1>3, <1>4, <2>1, <2>2, <2>3 DEF LedgerTypeOK, LedgerKept
    <2>5. RowsOfLiveJobs'
      BY <1>1, <1>2, <2>2, <2>3 DEF RowsOfLiveJobs, LedgerTypeOK
    <2>6. QED
      BY <2>4, <2>5
  <1>7. QED
    BY <1>5, <1>6

LEMMA ClaimStep ==
  ASSUME LedgerTypeOK, RowsOfLiveJobs, Claim
  PROVE  LedgerTypeOK' /\ RowsOfLiveJobs' /\ LedgerKept
  <1>1. PICK q \in Claims, stage \in {"held", "closed"} :
          /\ \A i \in DOMAIN q : jobs[q[i]] = "active"
          /\ entries' = entries \o [i \in DOMAIN q |->
               [job |-> q[i], outcome |-> "running", stage |-> stage]]
    BY DEF Claim
  <1>2. PICK n \in 0 .. Cardinality(Jobs) : q \in [1 .. n -> Jobs]
    BY DEF Claims
  <1> DEFINE new == [i \in DOMAIN q |-> [job |-> q[i], outcome |-> "running", stage |-> stage]]
             m == Len(entries)
  <1>3. /\ entries \in Seq(Entries) /\ DOMAIN entries = 1 .. m /\ m \in Nat
        /\ n \in Nat
    BY DEF LedgerTypeOK
  <1>4. \A i \in 1 .. n : new[i] \in Entries /\ new[i].job = q[i]
    BY <1>2 DEF Entries, Stages
  <1>5. new \in Seq(Entries) /\ Len(new) = n
    BY <1>2, <1>3, <1>4
  <1> HIDE DEF new, m
  <1>6. /\ entries' \in Seq(Entries) /\ Len(entries') = m + n
        /\ \A e \in 1 .. m : entries'[e] = entries[e]
        /\ \A e \in m + 1 .. m + n : entries'[e] = new[e - m]
    BY <1>1, <1>3, <1>5, ConcatProperties DEF new, m
  <1>7. DOMAIN entries' = 1 .. m + n
    BY <1>6, LenProperties
  <1>8. LedgerTypeOK'
    BY <1>3, <1>6, <1>7 DEF LedgerTypeOK, Claim
  <1>9. RowsOfLiveJobs'
    <2> SUFFICES ASSUME NEW e \in 1 .. m + n, entries'[e].outcome # "deleted"
                 PROVE  jobs[entries'[e].job] \in Live
      BY <1>7 DEF RowsOfLiveJobs, Claim
    <2>1. CASE e \in 1 .. m
      BY <1>3, <1>6, <2>1 DEF RowsOfLiveJobs
    <2>2. CASE e \notin 1 .. m
      <3>1. e \in m + 1 .. m + n /\ e - m \in 1 .. n
        BY <1>3, <2>2
      <3>2. entries'[e].job = q[e - m]
        BY <1>4, <1>6, <3>1
      <3>3. QED
        BY <1>1, <1>2, <3>1, <3>2 DEF Live
    <2>3. QED
      BY <2>1, <2>2
  <1>10. LedgerKept
    BY <1>3, <1>6 DEF LedgerKept, Created, Existing, NewJobs, Claim, m
  <1>11. QED
    BY <1>8, <1>9, <1>10

LEMMA LedgerStep ==
  ASSUME LedgerTypeOK, RowsOfLiveJobs, LedgerNext
  PROVE  LedgerTypeOK' /\ RowsOfLiveJobs' /\ LedgerKept
  <1>1. entries \in [DOMAIN entries -> Entries]
    BY DEF LedgerTypeOK
  <1>2. ASSUME NEW e \in DOMAIN entries, Settle(e) \/ GiveUp(e) \/ Report(e)
        PROVE  LedgerTypeOK' /\ RowsOfLiveJobs' /\ LedgerKept
    <2>1. PICK stage \in Stages,
               outcome \in MayStore(entries[e], "error") \cup UNION {MayStore(entries[e], o) : o \in Outcomes} :
            SetStage(e, stage, outcome)
      BY <1>2 DEF Settle, GiveUp, Report, Stages, MayStore
    <2>2. UNCHANGED jobs /\ notified' \subseteq DOMAIN entries
      BY <1>2 DEF Settle, GiveUp, Report, LedgerTypeOK
    <2>3. QED
      BY <2>1, <2>2, StageIsSet, EntriesChanged
  <1>3. CASE Die
    <2>1. PICK S \in SUBSET DOMAIN entries : entries' = [e \in DOMAIN entries |->
            IF e \in S THEN [entries[e] EXCEPT !.stage = "closed"] ELSE entries[e]]
      BY <1>3 DEF Die
    <2>2. /\ entries' \in [DOMAIN entries -> Entries]
          /\ \A e \in DOMAIN entries : entries'[e].job = entries[e].job
          /\ \A e \in DOMAIN entries : entries'[e].outcome = entries[e].outcome
      BY <1>1, <2>1 DEF Entries, Stages
    <2>3. UNCHANGED jobs /\ notified' \subseteq DOMAIN entries
      BY <1>3 DEF Die, LedgerTypeOK
    <2>4. QED
      BY <2>2, <2>3, EntriesChanged
  <1>4. CASE Presume
    <2>1. PICK S \in SUBSET {e \in DOMAIN entries : entries[e].outcome = "running"} :
            entries' = [e \in DOMAIN entries |->
              IF e \in S THEN [entries[e] EXCEPT !.outcome = "error"] ELSE entries[e]]
      BY <1>4 DEF Presume
    <2>2. /\ entries' \in [DOMAIN entries -> Entries]
          /\ \A e \in DOMAIN entries : entries'[e].job = entries[e].job
          /\ \A e \in DOMAIN entries :
               entries[e].outcome = "deleted" => entries'[e].outcome = "deleted"
      BY <1>1, <2>1 DEF Entries, Outcomes
    <2>3. UNCHANGED jobs /\ notified' \subseteq DOMAIN entries
      BY <1>4 DEF Presume, LedgerTypeOK
    <2>4. QED
      BY <2>2, <2>3, EntriesChanged
  <1>5. QED
    BY <1>2, <1>3, <1>4, JobStep, ClaimStep DEF LedgerNext

-----------------------------------------------------------------------------
(* The lists before and after a step of the tables.                         *)

ListsInv == LedgerTypeOK /\ created \in [Jobs -> Nat] /\ CreatedInTurn /\ RowsOfLiveJobs

LEMMA ListIsSorted ==
  ASSUME ListsInv, NEW list
  PROVE  /\ DOMAIN Times(list) = Listed(list)
         /\ IsFiniteSet(Listed(list)) /\ Cardinality(Listed(list)) \in Nat
         /\ Sorts(Times(list))
  <1>1. Existing \subseteq Created /\ Existing \subseteq Jobs
    BY DEF Existing, Created, Live
  <1>2. Rows(list) \subseteq DOMAIN entries /\ DOMAIN entries = 1 .. Len(entries) /\ Len(entries) \in Nat
    BY DEF Rows, ListsInv, LedgerTypeOK
  <1>3. IsFiniteSet(Existing) /\ IsFiniteSet(Rows(list))
    <2>1. IsFiniteSet(1 .. Len(entries))
      BY <1>2, FS_Interval
    <2>2. QED
      BY <1>1, <1>2, <2>1, FS_Subset, DashboardAssumption DEF DashboardAssumption
  <1>4. IsFiniteSet(Listed(list)) /\ Cardinality(Listed(list)) \in Nat
    BY <1>3, FS_CardinalityType DEF Listed
  <1>5. CASE list = "jobs"
    BY <1>1, <1>4, <1>5 DEF Times, Listed, Sorts, ListsInv, CreatedInTurn
  <1>6. CASE list # "jobs"
    BY <1>2, <1>4, <1>6 DEF Times, Listed, Sorts
  <1>7. QED
    BY <1>4, <1>5, <1>6 DEF Times

LEMMA ListIsSortedNext ==
  ASSUME ListsInv', NEW list
  PROVE  /\ DOMAIN Times(list)' = Listed(list)'
         /\ IsFiniteSet(Listed(list)') /\ Cardinality(Listed(list)') \in Nat
         /\ Sorts(Times(list)')
  <1>1. Existing' \subseteq Created' /\ Existing' \subseteq Jobs
    BY DEF Existing, Created, Live
  <1>2. /\ Rows(list)' \subseteq DOMAIN entries' /\ DOMAIN entries' = 1 .. Len(entries')
        /\ Len(entries') \in Nat
    BY DEF Rows, ListsInv, LedgerTypeOK
  <1>3. IsFiniteSet(Existing') /\ IsFiniteSet(Rows(list)')
    <2>1. IsFiniteSet(1 .. Len(entries'))
      BY <1>2, FS_Interval
    <2>2. QED
      BY <1>1, <1>2, <2>1, FS_Subset, DashboardAssumption DEF DashboardAssumption
  <1>4. IsFiniteSet(Listed(list)') /\ Cardinality(Listed(list)') \in Nat
    BY <1>3, FS_CardinalityType DEF Listed
  <1>5. CASE list = "jobs"
    BY <1>1, <1>4, <1>5 DEF Times, Listed, Sorts, ListsInv, CreatedInTurn
  <1>6. CASE list # "jobs"
    BY <1>2, <1>4, <1>6 DEF Times, Listed, Sorts
  <1>7. QED
    BY <1>4, <1>5, <1>6 DEF Times

\* Jobs are created one at a time, each later than all before it.
LEMMA ListsStep ==
  ASSUME ListsInv, Tables
  PROVE  ListsInv' /\ LedgerKept
  <1>1. LedgerTypeOK' /\ RowsOfLiveJobs' /\ LedgerKept
    BY LedgerStep DEF ListsInv, Tables
  <1> DEFINE n == Cardinality(Created)
             m == Cardinality(Created')
  <1>2. IsFiniteSet(Created) /\ IsFiniteSet(Created') /\ n \in Nat /\ m \in Nat
    BY FS_Subset, FS_CardinalityType, DashboardAssumption DEF Created, DashboardAssumption
  <1>3. n <= m /\ (NewJobs # {} => n # m)
    BY <1>1, <1>2, FS_Subset DEF LedgerKept, NewJobs
  <1>4. created' = [j \in Jobs |-> IF j \in NewJobs THEN n + 1 ELSE created[j]]
    BY DEF Tables
  <1> HIDE DEF n, m
  <1>5. created' \in [Jobs -> Nat]
    BY <1>2, <1>4 DEF ListsInv
  <1>6. CreatedInTurn'
    <2> SUFFICES ASSUME NEW j \in Created'
                 PROVE  /\ created'[j] \in 1 .. m
                        /\ \A k \in Created' : created'[j] = created'[k] => j = k
      BY DEF CreatedInTurn, m
    <2>1. j \in Jobs /\ Created' = Created \cup NewJobs /\ Created \cap NewJobs = {} /\ Created' \subseteq Jobs
      BY <1>1 DEF Created, NewJobs, LedgerKept
    <2>2. \A k \in Created : created'[k] = created[k] /\ created[k] \in 1 .. n
      BY <1>4, <2>1 DEF ListsInv, CreatedInTurn, n
    <2>3. \A k \in NewJobs : created'[k] = n + 1
      BY <1>4, <2>1
    <2>4. \A k \in NewJobs : n + 1 <= m
      BY <1>2, <1>3
    <2>5. CASE j \in Created
      BY <1>2, <1>3, <2>1, <2>2, <2>3, <2>5 DEF ListsInv, CreatedInTurn
    <2>6. CASE j \in NewJobs
      <3>1. \A k \in NewJobs : k = j
        BY <1>1, <2>6 DEF LedgerKept
      <3>2. QED
        BY <1>2, <2>1, <2>2, <2>3, <2>4, <2>6, <3>1
    <2>7. QED
      BY <2>1, <2>5, <2>6
  <1>7. QED
    BY <1>1, <1>5, <1>6 DEF ListsInv

\* A row that stays on its list keeps its time.
LEMMA TimesKept ==
  ASSUME ListsInv, Tables, NEW list, NEW x \in Listed(list) \cap Listed(list)'
  PROVE  Times(list)'[x] = Times(list)[x]
  <1>1. CASE list = "jobs"
    <2>1. x \in Existing /\ x \in Created /\ x \in Jobs
      BY <1>1 DEF Listed, Existing, Created, Live
    <2>2. created'[x] = created[x]
      BY <2>1 DEF Tables, NewJobs
    <2>3. QED
      BY <1>1, <2>2 DEF Times
  <1>2. CASE list # "jobs"
    BY <1>2 DEF Times
  <1>3. QED
    BY <1>1, <1>2

-----------------------------------------------------------------------------
(* The counts.                                                              *)

LEMMA FieldsAre ==
  /\ DOMAIN Fields = 1 .. 4 /\ Len(Fields) = 4 /\ Answered = 5
  /\ Fields[1] = "total" /\ Fields[2] = "active" /\ Fields[3] = "failures" /\ Fields[4] = "sent"
  BY DEF Fields, Answered

\* Nothing is active, has failed or was sent where there is no job.
LEMMA AnswersFit ==
  ASSUME ListsInv, NEW i \in 1 .. 4, NEW n \in Answers(i)
  PROVE  /\ n \in Nat
         /\ i = 1 => n = Cardinality(Existing)
         /\ i = 2 => n <= Cardinality(Existing)
         /\ i \in {3, 4} /\ Cardinality(Existing) = 0 => n = 0
  <1> DEFINE Active == {j \in Jobs : jobs[j] = "active"}
             Failures == {e \in DOMAIN entries : entries[e].outcome \in {"failure", "error"}}
             Kept == {e \in notified : entries[e].outcome # "deleted"}
  <1>1. IsFiniteSet(Existing) /\ Active \subseteq Existing
    BY ListIsSorted DEF Listed, Existing, Live
  <1>2. IsFiniteSet(DOMAIN entries)
    BY FS_Interval DEF ListsInv, LedgerTypeOK
  <1>3. Failures \subseteq DOMAIN entries /\ Kept \subseteq DOMAIN entries
    BY DEF ListsInv, LedgerTypeOK
  <1>4. Existing = {} => Failures = {} /\ Kept = {}
    <2>1. \A e \in DOMAIN entries : entries[e].job \in Jobs
      <3>1. entries \in [DOMAIN entries -> Entries]
        BY DEF ListsInv, LedgerTypeOK
      <3>2. QED
        BY <3>1 DEF Entries
    <2>2. QED
      BY <2>1 DEF ListsInv, RowsOfLiveJobs, Existing, LedgerTypeOK
  <1> HIDE DEF Active, Failures, Kept
  <1>5. /\ IsFiniteSet(Active) /\ Cardinality(Active) <= Cardinality(Existing)
        /\ IsFiniteSet(Failures) /\ IsFiniteSet(Kept)
    BY <1>1, <1>2, <1>3, FS_Subset
  <1>6. /\ Cardinality(Existing) \in Nat /\ Cardinality(Active) \in Nat
        /\ Cardinality(Failures) \in Nat /\ Cardinality(Kept) \in Nat
    BY <1>1, <1>5, FS_CardinalityType
  <1>7. Cardinality(Existing) = 0 => Cardinality(Failures) = 0 /\ Cardinality(Kept) = 0
    BY <1>1, <1>4, FS_EmptySet
  <1>8. /\ i = 1 => n = Cardinality(Existing)
        /\ i = 2 => n = Cardinality(Active)
        /\ i = 3 => n = Cardinality(Failures)
        /\ i = 4 => n \in 0 .. MaxChannels * Cardinality(Kept)
    BY FieldsAre DEF Answers, CountByUser, CountActiveByUser, CountFailures, CountSent, Active, Failures, Kept
  <1>9. i = 4 => n \in Nat /\ (Cardinality(Kept) = 0 => n = 0)
    <2>1. MaxChannels * Cardinality(Kept) \in Nat
      BY <1>6, DashboardAssumption
    <2>2. Cardinality(Kept) = 0 => MaxChannels * Cardinality(Kept) = 0
      BY DashboardAssumption
    <2>3. QED
      BY <1>8, <2>1, <2>2
  <1>10. QED
    BY <1>5, <1>6, <1>7, <1>8, <1>9

LEMMA NewJobsCounted ==
  ASSUME ListsInv, Tables
  PROVE  /\ IsFiniteSet(NewJobs) /\ Cardinality(NewJobs) \in Nat
         /\ Cardinality(Existing') \in Nat /\ Cardinality(Existing) \in Nat
         /\ Cardinality(Existing') <= Cardinality(Existing) + Cardinality(NewJobs)
  <1>1. Existing' \subseteq Existing \cup NewJobs
    BY ListsStep DEF LedgerKept
  <1>2. IsFiniteSet(Existing) /\ IsFiniteSet(NewJobs) /\ IsFiniteSet(Existing')
    BY FS_Subset, DashboardAssumption DEF Existing, NewJobs, Created, DashboardAssumption
  <1>3. QED
    BY <1>1, <1>2, CoverIsNoSmaller

StatsType == stats \in [pc : 0 .. 5, value : [1 .. 4 -> Nat], failed : 0 .. 4, born : Nat]

LEMMA StatsStep ==
  ASSUME ListsInv, StatsType, StatsSoFar, Tables \/ OpenPage \/ Count \/ FailCount
  PROVE  StatsType' /\ StatsSoFar'
  <1> USE FieldsAre
  <1>1. CASE Tables
    <2>1. /\ Cardinality(NewJobs) \in Nat
          /\ Cardinality(Existing') \in Nat /\ Cardinality(Existing) \in Nat
          /\ Cardinality(Existing') <= Cardinality(Existing) + Cardinality(NewJobs)
      BY <1>1, NewJobsCounted
    <2>2. CASE stats.pc \in 1 .. 4
      <3>1. stats' = [stats EXCEPT !.born = @ + Cardinality(NewJobs)]
        BY <1>1, <2>2 DEF Tables
      <3>2. StatsType'
        BY <2>1, <3>1 DEF StatsType
      <3>3. /\ stats'.pc = stats.pc /\ stats'.value = stats.value /\ stats'.failed = stats.failed
            /\ JobsKnown' = JobsKnown + Cardinality(NewJobs) /\ JobsKnown \in Nat
        BY <2>1, <3>1 DEF StatsType, JobsKnown
      <3>4. \A i \in 1 .. 4 : Got(i)' = Got(i)
        BY <3>3 DEF Got
      <3>5. stats.value \in [1 .. 4 -> Nat]
        BY DEF StatsType
      <3>6. StatsSoFar'
        BY <2>1, <3>3, <3>4, <3>5 DEF StatsSoFar
      <3>7. QED
        BY <3>2, <3>6
    <2>3. CASE stats.pc \notin 1 .. 4
      <3>1. stats' = stats /\ stats.pc = 0
        BY <1>1, <2>3 DEF Tables, StatsType
      <3>2. QED
        BY <3>1 DEF StatsType, StatsSoFar, Got
    <2>4. QED
      BY <2>2, <2>3
  <1>2. CASE OpenPage
    <2>1. stats' = [Idle EXCEPT !.pc = 1]
      BY <1>2 DEF OpenPage
    <2>2. stats' = [pc |-> 1, value |-> [i \in 1 .. 4 |-> 0], failed |-> 0, born |-> 0]
      BY <2>1 DEF Idle
    <2>3. StatsType'
      BY <2>2 DEF StatsType
    <2>4. StatsSoFar'
      BY <2>2 DEF StatsSoFar, Got
    <2>5. QED
      BY <2>3, <2>4
  <1>3. CASE Count
    <2> DEFINE i == stats.pc
    <2>1. i \in 1 .. 4
      BY <1>3 DEF Count
    <2>2. PICK n \in Answers(i) : stats' = [stats EXCEPT !.pc = i + 1, !.value[i] = n]
      BY <1>3 DEF Count
    <2>3. /\ n \in Nat /\ Cardinality(Existing) \in Nat
          /\ i = 1 => n = Cardinality(Existing)
          /\ i = 2 => n <= Cardinality(Existing)
          /\ i \in {3, 4} /\ Cardinality(Existing) = 0 => n = 0
      BY <2>1, <2>2, AnswersFit, ListIsSorted DEF Listed
    <2>4. StatsType'
      <3>1. stats' = [pc |-> i + 1, value |-> [stats.value EXCEPT ![i] = n],
                      failed |-> stats.failed, born |-> stats.born]
        BY <2>2 DEF StatsType
      <3>2. i + 1 \in 0 .. 5 /\ [stats.value EXCEPT ![i] = n] \in [1 .. 4 -> Nat]
        BY <2>1, <2>3 DEF StatsType
      <3>3. stats.failed \in 0 .. 4 /\ stats.born \in Nat
        BY DEF StatsType
      <3> HIDE DEF i
      <3>4. QED
        BY <3>1, <3>2, <3>3 DEF StatsType
    <2>5. /\ stats'.pc = i + 1 /\ stats'.failed = stats.failed /\ stats'.born = stats.born
          /\ stats'.value = [stats.value EXCEPT ![i] = n] /\ stats.value \in [1 .. 4 -> Nat]
          /\ UNCHANGED Existing
      BY <1>3, <2>2 DEF StatsType, Count, ledgerVars, Existing
    <2>6. stats.failed = 0 /\ stats.born \in Nat /\ \A k \in 1 .. 4 : Got(k) <=> i > k
      BY <2>1 DEF StatsSoFar, Got, StatsType
    <2>7. \A k \in 1 .. 4 : Got(k)' <=> i + 1 > k
      BY <2>5, <2>6 DEF Got
    <2>8. StatsSoFar'
      <3>1. \A k \in 1 .. 4 : stats'.value[k] = IF k = i THEN n ELSE stats.value[k]
        BY <2>5
      <3>2. stats.value[1] \in Nat /\ stats.value[2] \in Nat /\ stats.value[3] \in Nat /\ stats.value[4] \in Nat
        BY <2>5
      <3> HIDE DEF i
      <3>3. CASE i = 1
        BY <2>3, <2>5, <2>6, <2>7, <3>1, <3>2, <3>3 DEF StatsSoFar, JobsKnown
      <3>4. CASE i # 1
        BY <2>1, <2>3, <2>5, <2>6, <2>7, <3>1, <3>2, <3>4 DEF StatsSoFar, JobsKnown
      <3>5. QED
        BY <3>3, <3>4
    <2>9. QED
      BY <2>4, <2>8
  <1>4. CASE FailCount
    <2>1. stats' = [stats EXCEPT !.pc = Answered, !.failed = stats.pc] /\ stats.pc \in 1 .. 4
      BY <1>4 DEF FailCount
    <2>2. stats' = [pc |-> 5, value |-> stats.value, failed |-> stats.pc, born |-> stats.born]
      BY <2>1 DEF StatsType
    <2>3. StatsType'
      <3>1. stats.pc \in 0 .. 4 /\ 5 \in 0 .. 5
        BY <2>1
      <3>2. stats.value \in [1 .. 4 -> Nat] /\ stats.born \in Nat
        BY DEF StatsType
      <3>3. QED
        BY <2>2, <3>1, <3>2 DEF StatsType
    <2>4. StatsSoFar'
      BY <2>1, <2>2 DEF StatsSoFar, Got
    <2>5. QED
      BY <2>3, <2>4
  <1>5. QED
    BY <1>1, <1>2, <1>3, <1>4

-----------------------------------------------------------------------------
(* The pages.                                                               *)

WalkType ==
  walk \in [pc : {"idle", "counted", "between", "done"}, list : Lists, offset : Nat,
            total : Nat, owed : SUBSET Items, seen : SUBSET Items,
            slipped : Nat, removed : Nat, cut : Nat]
WalkInv == WalkType /\ WalkSoFar /\ Len(entries) <= MaxEntries

\* What was on a list and is on it later was never off it.
LEMMA NoRowComesBack ==
  ASSUME ListsInv, Tables, NEW list
  PROVE  /\ Known(list) \subseteq Known(list)'
         /\ Known(list) \cap Listed(list)' \subseteq Listed(list)
  <1>1. LedgerKept /\ DOMAIN entries = 1 .. Len(entries) /\ Len(entries) \in Nat
    BY ListsStep DEF ListsInv, LedgerTypeOK
  <1>2. DOMAIN entries' = 1 .. Len(entries') /\ Len(entries') \in Nat
    BY ListsStep DEF ListsInv, LedgerTypeOK
  <1>3. CASE list = "jobs"
    BY <1>1, <1>3 DEF LedgerKept, Known, Listed, NewJobs
  <1>4. CASE list # "jobs"
    BY <1>1, <1>2, <1>4 DEF LedgerKept, Known, Listed, Rows
  <1>5. QED
    BY <1>3, <1>4

\* The rows that move up past the offset are no more than those that went.
LEMMA FewMovePast ==
  ASSUME ListsInv, Tables, WalkInv, UNCHANGED <<walk.offset, walk.owed, walk.seen>>,
         NEW list, walk.list = list, walk'.list = list
  PROVE  /\ Cardinality(Missed) \in Nat /\ Cardinality(Missed') \in Nat
         /\ Cardinality(Removed(list)) \in Nat
         /\ Cardinality(Missed') <= Cardinality(Missed) + Cardinality(Removed(list))
         /\ walk.owed \subseteq Known(list)'
  <1> DEFINE S == Listed(list)
             time == Times(list)
             later == Times(list)'
             Gone == Removed(list)
             Up == {x \in S \cap Listed(list)' :
                      walk.offset <= Rank(x, time) /\ Rank(x, time) < walk.offset + Cardinality(Gone)}
  <1>1. ListsInv' /\ walk.offset \in Nat /\ walk.owed \subseteq Known(list)
    BY ListsStep DEF WalkInv, WalkType, WalkSoFar
  <1>2. /\ DOMAIN time = S /\ IsFiniteSet(S) /\ Sorts(time)
        /\ DOMAIN later = Listed(list)' /\ Sorts(later)
    BY <1>1, ListIsSorted, ListIsSortedNext
  <1>3. /\ Gone = DOMAIN time \ DOMAIN later
        /\ IsFiniteSet(Gone) /\ Cardinality(Gone) \in Nat
    BY <1>2, FS_Difference, FS_CardinalityType DEF Removed
  <1>4. /\ Missed = {x \in (walk.owed \cap S) \ walk.seen : Rank(x, time) < walk.offset}
        /\ Missed' = {x \in (walk.owed \cap Listed(list)') \ walk.seen : Rank(x, later) < walk.offset}
    BY DEF Missed, StillListed
  <1>5. Missed' \subseteq Missed \cup Up
    <2> SUFFICES ASSUME NEW x \in Missed', x \notin Missed PROVE x \in Up
      OBVIOUS
    <2>1. x \in S \cap Listed(list)'
      BY <1>1, <1>4, NoRowComesBack
    <2>2. later[x] = time[x] /\ \A y \in DOMAIN time \cap DOMAIN later : later[y] = time[y]
      BY <1>2, <2>1, TimesKept
    <2>3. Rank(x, time) <= Rank(x, later) + Cardinality(Gone)
      BY <1>2, <1>3, <2>1, <2>2, MovesUpLittle
    <2>4. Rank(x, time) \in Nat /\ Rank(x, later) \in Nat
      BY <1>2, <2>1, RankIsPlace
    <2>5. Rank(x, later) < walk.offset /\ ~ (Rank(x, time) < walk.offset)
      BY <1>4, <2>1
    <2> HIDE DEF time, later, Gone
    <2>6. QED
      BY <1>1, <1>3, <2>1, <2>3, <2>4, <2>5
  <1>6. IsFiniteSet(Up) /\ Cardinality(Up) <= Cardinality(Gone)
    <2> HIDE DEF time, Gone
    <2>1. Up \subseteq DOMAIN time
      BY <1>2
    <2>2. /\ walk.offset + Cardinality(Gone) \in Nat /\ walk.offset <= walk.offset + Cardinality(Gone)
          /\ (walk.offset + Cardinality(Gone)) - walk.offset = Cardinality(Gone)
      BY <1>1, <1>3
    <2>3. \A x \in Up : walk.offset <= Rank(x, time) /\ Rank(x, time) < walk.offset + Cardinality(Gone)
      OBVIOUS
    <2> HIDE DEF Up
    <2>4. QED
      BY <1>1, <1>2, <2>1, <2>2, <2>3, RowsBetween
  <1>7. IsFiniteSet(Missed)
    BY <1>2, <1>4, FS_Subset
  <1>8. walk.owed \subseteq Known(list)'
    BY <1>1, NoRowComesBack
  <1> HIDE DEF Up, Gone
  <1>9. /\ Cardinality(Missed') <= Cardinality(Missed) + Cardinality(Up)
        /\ Cardinality(Missed) \in Nat /\ Cardinality(Missed') \in Nat /\ Cardinality(Up) \in Nat
    BY <1>5, <1>6, <1>7, CoverIsNoSmaller
  <1>10. QED
    BY <1>3, <1>6, <1>8, <1>9 DEF Gone

\* A list grows by no more than the rows that are added.
LEMMA GrowsByAdded ==
  ASSUME ListsInv, Tables, NEW list
  PROVE  /\ Cardinality(Listed(list)) \in Nat /\ Cardinality(Listed(list)') \in Nat
         /\ Cardinality(Added(list)) \in Nat
         /\ Cardinality(Listed(list)') <= Cardinality(Listed(list)) + Cardinality(Added(list))
  <1>1. IsFiniteSet(Listed(list)) /\ IsFiniteSet(Listed(list)')
    BY ListsStep, ListIsSorted, ListIsSortedNext
  <1>2. IsFiniteSet(Added(list)) /\ Listed(list)' \subseteq Listed(list) \cup Added(list)
    BY <1>1, FS_Difference DEF Added
  <1>3. QED
    BY <1>1, <1>2, CoverIsNoSmaller

LEMMA WalkBesideTables ==
  ASSUME ListsInv, WalkInv, Tables
  PROVE  WalkInv'
  <1>1. PICK list \in {walk.list} :
          walk' = CASE walk.pc = "counted" ->
                         [walk EXCEPT !.slipped = @ + Cardinality(Added(list)),
                                      !.removed = @ + Cardinality(Removed(list))]
                    [] walk.pc = "between" ->
                         [walk EXCEPT !.removed = @ + Cardinality(Removed(list))]
                    [] OTHER -> walk
    BY DEF Tables
  <1>2. Len(entries') <= MaxEntries /\ walk.pc # "done"
    BY DEF Tables
  <1>3. /\ UNCHANGED <<walk.pc, walk.list, walk.offset, walk.total, walk.owed, walk.seen, walk.cut>>
        /\ walk'.list = list /\ walk.list = list
    BY <1>1 DEF WalkInv, WalkType
  <1>4. /\ Cardinality(Missed) \in Nat /\ Cardinality(Missed') \in Nat
        /\ Cardinality(Removed(list)) \in Nat
        /\ Cardinality(Missed') <= Cardinality(Missed) + Cardinality(Removed(list))
        /\ walk.owed \subseteq Known(list)'
    BY <1>3, FewMovePast
  <1>5. /\ Cardinality(Listed(list)) \in Nat /\ Cardinality(Listed(list)') \in Nat
        /\ Cardinality(Added(list)) \in Nat
        /\ Cardinality(Listed(list)') <= Cardinality(Listed(list)) + Cardinality(Added(list))
    BY GrowsByAdded
  <1>6. /\ walk.slipped \in Nat /\ walk.removed \in Nat /\ walk.cut \in Nat /\ walk.total \in Nat
        /\ Cardinality(Missed) <= walk.removed + walk.cut
        /\ walk.pc = "counted" => Cardinality(Listed(list)) <= walk.total + walk.slipped
        /\ walk.pc = "idle" => walk = Home
    BY <1>3 DEF WalkInv, WalkType, WalkSoFar
  <1>7. walk.owed \subseteq Known(walk.list)'
    BY <1>3, <1>4
  <1>8. CASE walk.pc = "counted"
    <2>1. PICK s \in Nat, r \in Nat :
            /\ walk' = [walk EXCEPT !.slipped = s, !.removed = r]
            /\ s = walk.slipped + Cardinality(Added(list))
            /\ r = walk.removed + Cardinality(Removed(list))
      <3>1. walk' = [walk EXCEPT !.slipped = walk.slipped + Cardinality(Added(list)),
                                 !.removed = walk.removed + Cardinality(Removed(list))]
        BY <1>1, <1>8
      <3>2. /\ walk.slipped + Cardinality(Added(list)) \in Nat
            /\ walk.removed + Cardinality(Removed(list)) \in Nat
        BY <1>4, <1>5, <1>6
      <3>3. QED
        BY <3>1, <3>2
    <2>2. /\ walk'.slipped = walk.slipped + Cardinality(Added(list))
          /\ walk'.removed = walk.removed + Cardinality(Removed(list))
          /\ WalkType'
      BY <2>1 DEF WalkInv, WalkType
    <2>3. Cardinality(Missed') <= walk'.removed + walk'.cut
      BY <1>3, <1>4, <1>6, <2>2
    <2>4. Cardinality(Listed(walk.list)') <= walk'.total + walk'.slipped
      BY <1>3, <1>5, <1>6, <1>8, <2>2
    <2>5. QED
      BY <1>2, <1>3, <1>7, <1>8, <2>2, <2>3, <2>4 DEF WalkInv, WalkSoFar
  <1>9. CASE walk.pc = "between"
    <2>1. PICK r \in Nat :
            walk' = [walk EXCEPT !.removed = r] /\ r = walk.removed + Cardinality(Removed(list))
      BY <1>1, <1>4, <1>6, <1>9
    <2>2. /\ walk'.removed = walk.removed + Cardinality(Removed(list))
          /\ WalkType'
      BY <2>1 DEF WalkInv, WalkType
    <2>3. Cardinality(Missed') <= walk'.removed + walk'.cut
      BY <1>3, <1>4, <1>6, <2>2
    <2>4. QED
      BY <1>2, <1>3, <1>7, <1>9, <2>2, <2>3 DEF WalkInv, WalkSoFar
  <1>10. CASE walk.pc = "idle"
    <2>1. walk' = walk /\ walk = Home
      BY <1>1, <1>6, <1>10
    <2>2. Missed' = {} /\ Cardinality(Missed') = 0
      BY <2>1, FS_EmptySet DEF Missed, StillListed, Home
    <2>3. QED
      BY <1>2, <1>6, <1>7, <2>1, <2>2 DEF WalkInv, WalkSoFar, WalkType, Home
  <1>11. QED
    BY <1>2, <1>8, <1>9, <1>10 DEF WalkInv, WalkType

LEMMA WalkSteps ==
  ASSUME ListsInv, WalkInv, UNCHANGED <<ledgerVars, created>>,
         (\E list \in Lists : StartWalk(list)) \/ CountRows \/ FailPage
  PROVE  WalkInv'
  <1>1. Len(entries') <= MaxEntries /\ UNCHANGED <<jobs, entries, created>>
    BY DEF WalkInv, ledgerVars
  <1>2. ASSUME NEW list \in Lists, StartWalk(list) PROVE WalkInv'
    <2>1. walk' = [Home EXCEPT !.pc = "between", !.list = list, !.owed = Listed(list)]
      BY <1>2 DEF StartWalk
    <2>2. Listed(list) \subseteq Items /\ Listed(list) \subseteq Known(list)
      <3>1. DOMAIN entries \subseteq 1 .. MaxEntries
        <4>1. DOMAIN entries = 1 .. Len(entries) /\ Len(entries) \in Nat /\ Len(entries) <= MaxEntries
          BY DEF WalkInv, ListsInv, LedgerTypeOK
        <4>2. MaxEntries \in Nat
          BY DashboardAssumption DEF DashboardAssumption
        <4>3. QED
          BY <4>1, <4>2
      <3>2. Existing \subseteq Created /\ Existing \subseteq Jobs /\ Rows(list) \subseteq DOMAIN entries
        BY DEF Existing, Created, Live, Rows
      <3>3. QED
        BY <3>1, <3>2 DEF Listed, Items, Known
    <2>3. /\ WalkType' /\ walk'.pc = "between" /\ walk'.list = list /\ walk'.owed = Listed(list)
          /\ walk'.offset = 0 /\ walk'.removed = 0 /\ walk'.cut = 0
      BY <2>1, <2>2 DEF WalkType, Home
    <2>4. \A x \in Listed(list) : Rank(x, Times(list)) \in Nat
      BY ListIsSorted, RankIsPlace
    <2>5. UNCHANGED <<Listed(list), Times(list), Known(list)>>
      BY <1>1 DEF Listed, Times, Known, Existing, Rows, Created
    <2>6. /\ Missed' = {x \in StillListed' \ walk'.seen : Rank(x, Times(list)) < 0}
          /\ StillListed' \subseteq Listed(list)
      BY <2>3, <2>5 DEF Missed, StillListed
    <2>7. Missed' = {}
      BY <2>4, <2>6
    <2>8. QED
      BY <1>1, <2>2, <2>3, <2>5, <2>7, FS_EmptySet DEF WalkInv, WalkSoFar
  <1>3. CASE CountRows
    <2>1. /\ walk.pc = "between"
          /\ walk' = [walk EXCEPT !.pc = "counted", !.total = Cardinality(Listed(walk.list)), !.slipped = 0]
      BY <1>3 DEF CountRows
    <2>2. Cardinality(Listed(walk.list)) \in Nat
      BY ListIsSorted
    <2>3. /\ WalkType' /\ walk'.pc = "counted" /\ walk'.slipped = 0
          /\ walk'.total = Cardinality(Listed(walk.list))
          /\ UNCHANGED <<walk.list, walk.offset, walk.owed, walk.seen, walk.removed, walk.cut>>
      BY <2>1, <2>2 DEF WalkInv, WalkType
    <2>4. UNCHANGED <<Listed(walk.list), Times(walk.list), Known(walk.list)>>
      BY <1>1, <2>3 DEF Listed, Times, Known, Existing, Rows, Created
    <2>5. UNCHANGED Missed
      BY <2>3, <2>4 DEF Missed, StillListed
    <2>6. QED
      BY <1>1, <2>2, <2>3, <2>4, <2>5 DEF WalkInv, WalkSoFar
  <1>4. CASE FailPage
    <2>1. walk' = Home
      BY <1>4 DEF FailPage
    <2>2. Missed' = {} /\ Cardinality(Missed') = 0
      BY <2>1, FS_EmptySet DEF Missed, StillListed, Home
    <2>3. QED
      BY <1>1, <2>1, <2>2 DEF WalkInv, WalkSoFar, WalkType, Home, Lists
  <1>5. QED
    BY <1>2, <1>3, <1>4

\* A page moves the offset on by its size, and what it lacks is counted.
LEMMA PageStep ==
  ASSUME ListsInv, WalkInv, UNCHANGED <<ledgerVars, created>>, SelectPage
  PROVE  WalkInv'
  <1> DEFINE list == walk.list
             full == Page(list, walk.offset, Limit)
  <1>1. PICK n \in Arriving :
          walk' = [walk EXCEPT
            !.pc = IF walk.offset + Limit >= walk.total THEN "done" ELSE "between",
            !.offset = @ + Limit, !.seen = @ \cup Page(list, walk.offset, n),
            !.cut = @ + Cardinality(full \ Page(list, walk.offset, n))]
    BY DEF SelectPage
  <1> DEFINE rows == Page(list, walk.offset, n)
  <1>2. /\ IsFiniteSet(Listed(list)) /\ Cardinality(Listed(list)) \in Nat
        /\ DOMAIN Times(list) = Listed(list) /\ Sorts(Times(list))
        /\ \A x \in Listed(list) : Rank(x, Times(list)) \in Nat
    BY ListIsSorted, RankIsPlace
  <1>3. rows \subseteq Listed(list) /\ full \subseteq Listed(list)
    BY <1>1 DEF Page
  <1>4. IsFiniteSet(full \ rows) /\ Cardinality(full \ rows) \in Nat
    BY <1>2, <1>3, FS_Subset, FS_Difference, FS_CardinalityType
  <1>5. Listed(list) \subseteq Items
    <2>1. DOMAIN entries = 1 .. Len(entries) /\ Len(entries) \in Nat /\ Len(entries) <= MaxEntries
      BY DEF WalkInv, ListsInv, LedgerTypeOK
    <2>2. DOMAIN entries \subseteq 1 .. MaxEntries
      BY <2>1, DashboardAssumption DEF DashboardAssumption
    <2>3. QED
      BY <2>2 DEF Listed, Existing, Rows, Items
  <1>6. /\ walk \in [pc : {"idle", "counted", "between", "done"}, list : Lists, offset : Nat,
                     total : Nat, owed : SUBSET Items, seen : SUBSET Items,
                     slipped : Nat, removed : Nat, cut : Nat]
        /\ Limit \in Nat
    BY DashboardAssumption DEF WalkInv, WalkType, DashboardAssumption
  <1>7. PICK pc \in {"done", "between"}, offset \in Nat, seen \in SUBSET Items, cut \in Nat :
          /\ walk' = [walk EXCEPT !.pc = pc, !.offset = offset, !.seen = seen, !.cut = cut]
          /\ pc = "done" => offset >= walk.total
          /\ offset = walk.offset + Limit
          /\ seen = walk.seen \cup rows
          /\ cut = walk.cut + Cardinality(full \ rows)
    <2>1. walk.offset + Limit \in Nat /\ walk.cut + Cardinality(full \ rows) \in Nat
      BY <1>4, <1>6
    <2>2. walk.seen \cup rows \in SUBSET Items
      BY <1>3, <1>5, <1>6
    <2>3. walk' = [walk EXCEPT
            !.pc = IF walk.offset + Limit >= walk.total THEN "done" ELSE "between",
            !.offset = walk.offset + Limit, !.seen = walk.seen \cup rows,
            !.cut = walk.cut + Cardinality(full \ rows)]
      BY <1>1, <1>6
    <2> HIDE DEF full
    <2>4. CASE walk.offset + Limit >= walk.total
      BY <2>1, <2>2, <2>3, <2>4
    <2>5. CASE ~ (walk.offset + Limit >= walk.total)
      BY <2>1, <2>2, <2>3, <2>5
    <2>6. QED
      BY <2>4, <2>5
  <1>8. /\ WalkType' /\ walk'.pc = pc /\ walk'.offset = offset /\ walk'.seen = seen /\ walk'.cut = cut
        /\ UNCHANGED <<walk.list, walk.total, walk.owed, walk.slipped, walk.removed>>
    <2> HIDE DEF full
    <2>1. QED
      BY <1>6, <1>7 DEF WalkType
  <1>9. UNCHANGED <<Listed(list), Times(list), Known(list)>> /\ UNCHANGED entries
    BY <1>8 DEF Listed, Times, Known, Existing, Rows, Created, ledgerVars
  <1>10. Missed' \subseteq Missed \cup (full \ rows)
    <2> SUFFICES ASSUME NEW x \in Missed', x \notin Missed PROVE x \in full \ rows
      OBVIOUS
    <2>1. /\ x \in walk.owed /\ x \in Listed(list) /\ x \notin walk.seen /\ x \notin rows
          /\ Rank(x, Times(list)) < walk.offset + Limit
      BY <1>7, <1>8, <1>9 DEF Missed, StillListed
    <2>2. ~ (Rank(x, Times(list)) < walk.offset)
      BY <2>1 DEF Missed, StillListed
    <2>3. Rank(x, Times(list)) \in walk.offset .. walk.offset + Limit - 1
      BY <1>2, <1>6, <2>1, <2>2
    <2>4. QED
      BY <2>1, <2>3 DEF Page
  <1>11. IsFiniteSet(Missed)
    BY <1>2, FS_Subset DEF Missed, StillListed
  <1> HIDE DEF full, list
  <1>12. /\ Cardinality(Missed) \in Nat /\ Cardinality(Missed') \in Nat
         /\ Cardinality(Missed') <= Cardinality(Missed) + Cardinality(full \ rows)
    BY <1>4, <1>10, <1>11, CoverIsNoSmaller
  <1>13. Cardinality(Missed) <= walk.removed + walk.cut
    BY DEF WalkInv, WalkSoFar
  <1>14. Cardinality(Missed') <= walk'.removed + walk'.cut
    BY <1>4, <1>6, <1>7, <1>8, <1>12, <1>13
  <1>15. Cardinality(Listed(list)) <= walk.total + walk.slipped
    BY DEF WalkInv, WalkSoFar, SelectPage, list
  <1>16. walk'.pc = "done" => Cardinality(Listed(list)') <= walk'.offset + walk'.slipped
    BY <1>2, <1>6, <1>7, <1>8, <1>9, <1>15
  <1>17. walk'.owed \subseteq Known(list)'
    BY <1>8, <1>9 DEF WalkInv, WalkSoFar, list
  <1>18. QED
    BY <1>8, <1>9, <1>14, <1>16, <1>17 DEF WalkInv, WalkSoFar, list

-----------------------------------------------------------------------------
(* The theorems.                                                            *)

LEMMA InvParts ==
  /\ DashboardInv <=> ListsInv /\ StatsType /\ StatsSoFar /\ WalkInv
  /\ DashboardInv' <=> ListsInv' /\ StatsType' /\ StatsSoFar' /\ WalkInv'
  BY FieldsAre DEF DashboardInv, DashboardTypeOK, ListsInv, StatsType, WalkInv, WalkType

LEMMA DashboardStarts ==
  ASSUME DashboardInit
  PROVE  DashboardInv
  <1>1. /\ jobs = [j \in Jobs |-> "uncreated"] /\ entries = <<>> /\ notified = {}
        /\ created = [j \in Jobs |-> 0] /\ stats = Idle /\ walk = Home
    BY DEF DashboardInit, LedgerInit
  <1>2. ListsInv
    BY <1>1 DEF ListsInv, LedgerTypeOK, CreatedInTurn, RowsOfLiveJobs, Created
  <1>3. stats = [pc |-> 0, value |-> [i \in 1 .. 4 |-> 0], failed |-> 0, born |-> 0]
    BY <1>1, FieldsAre DEF Idle
  <1>4. StatsType /\ StatsSoFar
    BY <1>3, FieldsAre DEF StatsType, StatsSoFar, Got
  <1>5. Missed = {} /\ Cardinality(Missed) = 0
    BY <1>1, FS_EmptySet DEF Missed, StillListed, Home
  <1>6. WalkInv
    BY <1>1, <1>5, DashboardAssumption
      DEF WalkInv, WalkType, WalkSoFar, Home, Lists, DashboardAssumption
  <1>7. QED
    BY <1>2, <1>4, <1>6, InvParts

LEMMA DashboardStep ==
  ASSUME DashboardInv, [DashboardNext]_dashVars
  PROVE  DashboardInv'
  <1>1. ListsInv /\ StatsType /\ StatsSoFar /\ WalkInv
    BY InvParts
  <1>2. CASE Tables
    BY <1>1, <1>2, ListsStep, StatsStep, WalkBesideTables, InvParts
  <1>3. ASSUME UNCHANGED <<ledgerVars, created>> PROVE ListsInv'
    BY <1>1, <1>3 DEF ListsInv, LedgerTypeOK, CreatedInTurn, RowsOfLiveJobs, Created, ledgerVars
  <1>4. ASSUME UNCHANGED <<ledgerVars, created, walk>> PROVE WalkInv'
    BY <1>1, <1>4 DEF WalkInv, WalkType, WalkSoFar, Missed, StillListed, Known, Listed, Times,
                      Existing, Rows, Created, ledgerVars
  <1>5. ASSUME UNCHANGED <<ledgerVars, stats>> PROVE StatsType' /\ StatsSoFar'
    BY <1>1, <1>5 DEF StatsType, StatsSoFar, Got, JobsKnown, Existing, ledgerVars
  <1>6. CASE OpenPage \/ Count \/ FailCount
    <2>1. UNCHANGED <<ledgerVars, created, walk>>
      BY <1>6 DEF OpenPage, Count, FailCount
    <2>2. QED
      BY <1>1, <1>3, <1>4, <1>6, <2>1, StatsStep, InvParts
  <1>7. CASE (\E list \in Lists : StartWalk(list)) \/ CountRows \/ SelectPage \/ FailPage
    <2>1. UNCHANGED <<ledgerVars, created, stats>>
      BY <1>7 DEF StartWalk, CountRows, SelectPage, FailPage
    <2>2. WalkInv'
      BY <1>1, <1>7, <2>1, WalkSteps, PageStep
    <2>3. QED
      BY <1>3, <1>5, <2>1, <2>2, InvParts
  <1>8. CASE UNCHANGED dashVars
    BY <1>3, <1>4, <1>5, <1>8, InvParts DEF dashVars
  <1>9. QED
    BY <1>2, <1>6, <1>7, <1>8 DEF DashboardNext

\* The inductive invariant: types, the order of creation, rows that go with their job,
\* and what an answer has so far: for any number of jobs, executions and pages (Stats,
\* List and ListByJob beside every writer of the tables).
THEOREM AnswersInTheMaking == DashboardSpec => []DashboardInv
  <1>1. DashboardInit => DashboardInv
    BY DashboardStarts
  <1>2. DashboardInv /\ [DashboardNext]_dashVars => DashboardInv'
    BY DashboardStep
  <1>3. QED
    BY <1>1, <1>2, PTL DEF DashboardSpec

\* The four counts of the landing page fit together but for the jobs created in between
\* (the order of the statements in Stats).
THEOREM CountsFit == DashboardSpec => []StatsFit
  <1>1. DashboardInv => StatsFit
    <2> SUFFICES ASSUME DashboardInv, stats.pc = Answered, stats.failed = 0 PROVE StatsFit
      BY DEF StatsFit
    <2>1. Got(2) /\ Got(3) /\ Got(4) /\ StatsSoFar
      BY FieldsAre DEF Got, DashboardInv
    <2>2. QED
      BY <2>1 DEF StatsFit, StatsSoFar, JobsKnown
  <1>2. QED
    BY <1>1, AnswersInTheMaking, PTL

\* A client that reads a list page by page misses at most one row for each that went, each
\* that came after the last COUNT and each that a failing connection kept back.
THEOREM PagesMissLittle == DashboardSpec => []WalkMissesLittle
  <1>1. DashboardInv => WalkMissesLittle
    <2> SUFFICES ASSUME DashboardInv, walk.pc = "done"
                 PROVE  Cardinality(StillListed \ walk.seen) <= walk.slipped + walk.removed + walk.cut
      BY DEF WalkMissesLittle
    <2> DEFINE list == walk.list
               S == Listed(list)
               time == Times(list)
               Rest == {x \in S : walk.offset <= Rank(x, time)}
    <2>1. ListsInv /\ WalkInv
      BY InvParts
    <2>2. /\ walk.offset \in Nat /\ walk.slipped \in Nat /\ walk.removed \in Nat /\ walk.cut \in Nat
          /\ Cardinality(Missed) <= walk.removed + walk.cut
          /\ Cardinality(S) <= walk.offset + walk.slipped
      BY <2>1 DEF WalkInv, WalkType, WalkSoFar
    <2>3. /\ DOMAIN time = S /\ IsFiniteSet(S) /\ Cardinality(S) \in Nat /\ Sorts(time)
          /\ \A x \in S : Rank(x, time) \in Nat /\ Rank(x, time) < Cardinality(S)
      BY <2>1, ListIsSorted, RankIsPlace
    <2>4. IsFiniteSet(Missed) /\ StillListed \ walk.seen \subseteq Missed \cup Rest
      BY <2>2, <2>3, FS_Subset DEF Missed, StillListed
    <2> HIDE DEF S, time, list
    <2>5. IsFiniteSet(Rest) /\ Cardinality(Rest) <= walk.slipped
      <3>1. CASE walk.offset <= Cardinality(S)
        <4>1. IsFiniteSet(Rest) /\ Cardinality(Rest) <= Cardinality(S) - walk.offset
          BY <2>2, <2>3, <3>1, RowsBetween
        <4>2. Cardinality(Rest) \in Nat
          BY <4>1, FS_CardinalityType
        <4>3. QED
          BY <2>2, <2>3, <4>1, <4>2
      <3>2. CASE ~ (walk.offset <= Cardinality(S))
        <4>1. Rest = {}
          BY <2>2, <2>3, <3>2
        <4>2. IsFiniteSet(Rest) /\ Cardinality(Rest) = 0
          BY <4>1, FS_EmptySet
        <4>3. QED
          BY <2>2, <4>2
      <3>3. QED
        BY <3>1, <3>2
    <2>6. /\ Cardinality(StillListed \ walk.seen) <= Cardinality(Missed) + Cardinality(Rest)
          /\ Cardinality(StillListed \ walk.seen) \in Nat
          /\ Cardinality(Missed) \in Nat /\ Cardinality(Rest) \in Nat
      BY <2>4, <2>5, CoverIsNoSmaller
    <2>7. QED
      BY <2>2, <2>5, <2>6
  <1>2. QED
    BY <1>1, AnswersInTheMaking, PTL
================================================================================
