--------------------------- MODULE DispatcherProofs ---------------------------
(****************************************************************************)
(* Proofs about Dispatcher, for all sets of workers, executions and         *)
(* channels.  DispatcherInv is inductive: a channel waits in one Dispatch   *)
(* at most and nothing was begun for it (TodoIsNew), so the goroutine that  *)
(* starts is a new one, the wait group counts it (WaitGroupCounts) and its  *)
(* row is the only one of the pair (ServedOnce); a row says pending only as *)
(* long as it has such a goroutine or one has failed (PendingHasReason),    *)
(* and the row of a SendMail that outlives its Send says failed             *)
(* (StraysHaveFailed).  When Wait has seen zero no goroutine is left.       *)
(****************************************************************************)
EXTENDS Dispatcher, FiniteSetTheorems, SequenceTheorems, TLAPS

-----------------------------------------------------------------------------
(* Sets of goroutines.                                                      *)

\* A goroutine joins the set: one more.
LEMMA OneMore ==
  ASSUME NEW S, IsFiniteSet(S), NEW x, x \notin S
  PROVE  IsFiniteSet(S \cup {x}) /\ Cardinality(S \cup {x}) = Cardinality(S) + 1
BY FS_AddElement

\* A goroutine leaves the set: one less.
LEMMA OneLess ==
  ASSUME NEW S, IsFiniteSet(S), NEW x \in S
  PROVE  IsFiniteSet(S \ {x}) /\ Cardinality(S \ {x}) = Cardinality(S) - 1
BY FS_RemoveElement

\* A goroutine of the set is replaced by one outside it: as many as before.
LEMMA AsMany ==
  ASSUME NEW S, IsFiniteSet(S), NEW x \in S, NEW y, y \notin S \ {x}
  PROVE  /\ IsFiniteSet((S \ {x}) \cup {y})
         /\ Cardinality((S \ {x}) \cup {y}) = Cardinality(S)
<1>1. IsFiniteSet(S \ {x}) /\ Cardinality(S \ {x}) = Cardinality(S) - 1
  BY OneLess
<1>2. Cardinality(S) \in Nat
  BY FS_CardinalityType
<1>3. /\ IsFiniteSet((S \ {x}) \cup {y})
      /\ Cardinality((S \ {x}) \cup {y}) = Cardinality(S \ {x}) + 1
  BY <1>1, OneMore
<1> QED
  BY <1>1, <1>2, <1>3

-----------------------------------------------------------------------------
(* The rows of an execution for a channel.                                  *)

\* A cascade leaves as many rows as there were, all of them deleted.
LEMMA GoneRows ==
  ASSUME NEW rows \in Seq(Statuses)
  PROVE  /\ Gone(rows) \in Seq(Statuses)
         /\ DOMAIN Gone(rows) = DOMAIN rows /\ Len(Gone(rows)) = Len(rows)
         /\ \A n \in DOMAIN rows : Gone(rows)[n] = "deleted"
         /\ rows = <<>> => Gone(rows) = <<>>
<1>1. /\ Len(rows) \in Nat /\ DOMAIN rows = 1 .. Len(rows)
  BY LenProperties
<1>2. Gone(rows) = [n \in 1 .. Len(rows) |-> "deleted"]
  BY <1>1 DEF Gone
<1>3. Gone(rows) \in Seq(Statuses) /\ Len(Gone(rows)) = Len(rows)
  BY <1>1, <1>2 DEF Statuses
<1>4. rows = <<>> => Gone(rows) = <<>>
  BY <1>3, EmptySeq
<1> QED
  BY <1>1, <1>2, <1>3, <1>4

\* The first row of a pair.
LEMMA FirstRow ==
  /\ Append(<<>>, "pending") \in Seq(Statuses) /\ Len(<<>>) + 1 = 1
  /\ DOMAIN Append(<<>>, "pending") = {1} /\ Len(Append(<<>>, "pending")) = 1
  /\ Append(<<>>, "pending")[1] = "pending"
BY DEF Statuses

\* An UPDATE changes one row and no other.
LEMMA SavedRow ==
  ASSUME NEW rows \in Seq(Statuses), NEW n \in DOMAIN rows, NEW status \in Statuses
  PROVE  /\ [rows EXCEPT ![n] = status] \in Seq(Statuses)
         /\ DOMAIN [rows EXCEPT ![n] = status] = DOMAIN rows
         /\ Len([rows EXCEPT ![n] = status]) = Len(rows)
         /\ \A m \in DOMAIN rows :
              [rows EXCEPT ![n] = status][m] = IF m = n THEN status ELSE rows[m]
<1>1. DOMAIN rows = 1 .. Len(rows)
  BY LenProperties
<1> QED
  BY <1>1, ExceptSeq, LenProperties

\* The goroutines and the mails that outlive them write to rows that are there.
LEMMA SendersHaveRows ==
  ASSUME DispatcherTypeOK, NEW s \in senders \cup strays
  PROVE  /\ s \in Senders /\ s.exec \in Executions /\ s.id \in Channels
         /\ s.nth \in DOMAIN notifications[s.exec][s.id]
BY DEF DispatcherTypeOK, Senders

-----------------------------------------------------------------------------
(* The initial states.                                                      *)

LEMMA InitInvariant == Init => DispatcherInv
<1> SUFFICES ASSUME Init
             PROVE  DispatcherInv
  OBVIOUS
<1>1. DispatcherTypeOK
  <2>1. notifications \in [Executions -> [Channels -> Seq(Statuses)]]
    BY EmptySeq DEF Init
  <2> QED
    BY <2>1 DEF Init, DispatcherTypeOK, Existing, Rows
<1>2. WaitGroupCounts
  BY FS_EmptySet DEF Init, WaitGroupCounts
<1>3. TodoIsNew /\ StraysHaveFailed /\ ServedOnce
  BY EmptySeq DEF Init, TodoIsNew, StraysHaveFailed, ServedOnce, Untouched
<1>4. PendingHasReason /\ RowsFollowParents
  <2>1. DOMAIN <<>> = {}
    OBVIOUS
  <2> QED
    BY <2>1 DEF Init, PendingHasReason, RowsFollowParents
<1>5. phase = "returned" => senders = {}
  BY DEF Init
<1> QED
  BY <1>1, <1>2, <1>3, <1>4, <1>5 DEF DispatcherInv

-----------------------------------------------------------------------------
(* Requests.                                                                *)

\* Deletions: whatever rows go with their parents, dispatcher and goroutines find
\* the others as they were.
LEMMA CascadeInvariant ==
  ASSUME DispatcherInv,
         notifications' \in [Executions -> [Channels -> Seq(Statuses)]],
         \A e \in Executions, c \in Channels :
           notifications'[e][c] \in {notifications[e][c], Gone(notifications[e][c])},
         Existing' \subseteq Existing, channels' \in [Existing' -> Rows], present' \subseteq present,
         UNCHANGED <<callVars, sendVars, phase>>,
         RowsFollowParents'
  PROVE  DispatcherInv'
<1> USE DEF DispatcherInv, callVars, sendVars
<1>1. \A e \in Executions, c \in Channels :
        /\ DOMAIN notifications'[e][c] = DOMAIN notifications[e][c]
        /\ Len(notifications'[e][c]) = Len(notifications[e][c])
        /\ notifications[e][c] = <<>> => notifications'[e][c] = <<>>
        /\ \A n \in DOMAIN notifications[e][c] :
             notifications'[e][c][n] \in {notifications[e][c][n], "deleted"}
  <2> SUFFICES ASSUME NEW e \in Executions, NEW c \in Channels
               PROVE  /\ DOMAIN notifications'[e][c] = DOMAIN notifications[e][c]
                      /\ Len(notifications'[e][c]) = Len(notifications[e][c])
                      /\ notifications[e][c] = <<>> => notifications'[e][c] = <<>>
                      /\ \A n \in DOMAIN notifications[e][c] :
                           notifications'[e][c][n] \in {notifications[e][c][n], "deleted"}
    OBVIOUS
  <2>1. notifications[e][c] \in Seq(Statuses)
    BY DEF DispatcherTypeOK
  <2> QED
    BY <2>1, GoneRows
<1>2. \A s \in senders \cup strays : s.exec \in Executions /\ s.id \in Channels
                                     /\ s.nth \in DOMAIN notifications[s.exec][s.id]
  BY SendersHaveRows
<1>3. DispatcherTypeOK'
  BY <1>1, <1>2 DEF DispatcherTypeOK
<1>4. WaitGroupCounts' /\ ServedOnce'
  BY <1>1 DEF WaitGroupCounts, ServedOnce
<1>5. TodoIsNew'
  <2>1. \A e \in Executions, c \in Channels : Untouched(e, c) => Untouched(e, c)'
    BY <1>1 DEF Untouched, Message
  <2>2. \A w \in Callers : \A t \in todo[w] : t.exec \in Executions /\ t.id \in Channels
    BY DEF DispatcherTypeOK, Items
  <2> QED
    BY <2>1, <2>2 DEF TodoIsNew, Message
<1>6. PendingHasReason'
  <2>1. \A e \in Executions, c \in Channels : \A n \in DOMAIN notifications'[e][c] :
          notifications'[e][c][n] = "pending" =>
            n \in DOMAIN notifications[e][c] /\ notifications[e][c][n] = "pending"
    BY <1>1
  <2>2. \A s \in senders : notifications'[s.exec][s.id][s.nth] \in {"pending", "deleted"}
    BY <1>1, <1>2 DEF PendingHasReason
  <2> QED
    BY <2>1, <2>2 DEF PendingHasReason, Row
<1>7. StraysHaveFailed'
  <2>1. \A s \in strays :
          notifications'[s.exec][s.id][s.nth] \in {notifications[s.exec][s.id][s.nth], "deleted"}
    BY <1>1, <1>2
  <2>2. strays' = strays /\ senders' = senders /\ logged' = logged
    OBVIOUS
  <2> QED
    BY <2>1, <2>2 DEF StraysHaveFailed
<1> QED
  BY <1>3, <1>4, <1>5, <1>6, <1>7

LEMMA DeleteInvariant ==
  ASSUME DispatcherInv, NEW c \in Channels, Delete(c)
  PROVE  DispatcherInv'
<1>0. DispatcherTypeOK /\ RowsFollowParents
  BY DEF DispatcherInv
<1>1. \A e \in Executions, d \in Channels :
        /\ notifications[e][d] \in Seq(Statuses)
        /\ notifications'[e][d] = IF d = c THEN Gone(notifications[e][d]) ELSE notifications[e][d]
  BY <1>0 DEF Delete, DispatcherTypeOK
<1>2. notifications' \in [Executions -> [Channels -> Seq(Statuses)]]
  BY <1>0, <1>1, GoneRows DEF Delete, DispatcherTypeOK
<1>3. Existing' = Existing \ {c} /\ channels' \in [Existing' -> Rows] /\ present' = present
  BY <1>0 DEF Delete, DispatcherTypeOK, Existing
<1>4. RowsFollowParents'
  BY <1>0, <1>1, <1>3, GoneRows DEF RowsFollowParents
<1> QED
  BY <1>1, <1>2, <1>3, <1>4, CascadeInvariant DEF Delete

LEMMA DeleteExecutionInvariant ==
  ASSUME DispatcherInv, NEW e \in Executions, DeleteExecution(e)
  PROVE  DispatcherInv'
<1>0. DispatcherTypeOK /\ RowsFollowParents
  BY DEF DispatcherInv
<1>1. \A f \in Executions, d \in Channels :
        /\ notifications[f][d] \in Seq(Statuses)
        /\ notifications'[f][d] = IF f = e THEN Gone(notifications[f][d]) ELSE notifications[f][d]
  BY <1>0 DEF DeleteExecution, DispatcherTypeOK
<1>2. notifications' \in [Executions -> [Channels -> Seq(Statuses)]]
  BY <1>0, <1>1, GoneRows DEF DeleteExecution, DispatcherTypeOK
<1>3. Existing' = Existing /\ channels' \in [Existing' -> Rows] /\ present' = present \ {e}
  BY <1>0 DEF DeleteExecution, DispatcherTypeOK, Existing
<1>4. RowsFollowParents'
  BY <1>0, <1>1, <1>3, GoneRows DEF RowsFollowParents
<1> QED
  BY <1>1, <1>2, <1>3, <1>4, CascadeInvariant DEF DeleteExecution

LEMMA UpdateInvariant ==
  ASSUME DispatcherInv, NEW c \in Channels, Update(c)
  PROVE  DispatcherInv'
<1>0. DispatcherTypeOK /\ RowsFollowParents
  BY DEF DispatcherInv
<1>1. Existing' = Existing /\ channels' \in [Existing' -> Rows]
  BY <1>0 DEF Update, DispatcherTypeOK, Existing
<1>2. notifications' = notifications /\ present' = present /\ UNCHANGED <<callVars, sendVars, phase>>
  BY DEF Update
<1>3. notifications' \in [Executions -> [Channels -> Seq(Statuses)]]
  BY <1>0, <1>2 DEF DispatcherTypeOK
<1>4. RowsFollowParents'
  BY <1>0, <1>1, <1>2 DEF RowsFollowParents
<1> QED
  BY <1>1, <1>2, <1>3, <1>4, CascadeInvariant

-----------------------------------------------------------------------------
(* Dispatch.                                                                *)

\* The items of a Fetch are new: of an execution nobody has called Dispatch for.
LEMMA FetchInvariant ==
  ASSUME DispatcherInv, NEW w \in Callers, NEW e \in Executions, Fetch(w, e)
  PROVE  DispatcherInv'
<1> USE DEF DispatcherInv, tableVars, sendVars
<1>a. PICK S \in SUBSET Enabled(e) :
        todo' = [todo EXCEPT ![w] = {[exec |-> e, id |-> c, row |-> channels[c]] : c \in S}]
  BY DEF Fetch
<1> DEFINE items == {[exec |-> e, id |-> c, row |-> channels[c]] : c \in S}
<1>0. items \subseteq Items /\ \A t \in items : t.exec = e
  BY DEF Items, DispatcherTypeOK, Existing, Enabled
<1>1. todo' = [todo EXCEPT ![w] = items]
  BY <1>a
<1>2. DispatcherTypeOK'
  <2>1. todo' \in [Callers -> SUBSET Items]
    BY <1>0, <1>1 DEF DispatcherTypeOK
  <2> QED
    BY <2>1 DEF Fetch, DispatcherTypeOK, Existing
<1>3. /\ WaitGroupCounts' /\ PendingHasReason' /\ RowsFollowParents'
      /\ ServedOnce' /\ StraysHaveFailed'
  BY DEF Fetch, WaitGroupCounts, PendingHasReason, RowsFollowParents, ServedOnce, StraysHaveFailed,
         Existing, Row
<1>4. TodoIsNew'
  <2>1. \A f \in Executions, c \in Channels : Untouched(f, c)' = Untouched(f, c)
    BY DEF Fetch, Untouched, Message
  <2>2. \A v \in Callers : \A t \in todo'[v] :
          \/ v = w /\ t \in items
          \/ t \in todo[v]
    BY <1>1 DEF DispatcherTypeOK
  <2>3. \A t \in items : t.exec = e /\ t.id \in Channels /\ Untouched(e, t.id)
    BY <1>0 DEF Fetch, TodoIsNew, Items
  <2>4. \A v \in Callers : \A t \in todo[v] :
          t.exec \in called /\ t.exec # e /\ t.id \in Channels /\ Untouched(t.exec, t.id)
    BY DEF Fetch, TodoIsNew, DispatcherTypeOK, Items
  <2>5. \A v \in Callers : \A t \in todo'[v] : t.exec \in called' /\ Untouched(t.exec, t.id)'
    BY <2>1, <2>2, <2>3, <2>4 DEF Fetch, DispatcherTypeOK
  <2>6. ASSUME NEW v \in Callers, NEW t \in todo'[v], NEW x \in Callers, NEW u \in todo'[x],
               Message(u) = Message(t)
        PROVE  x = v /\ u = t
    <3>1. u.exec = t.exec /\ u.id = t.id
      BY <2>6 DEF Message
    <3>2. CASE t \in items /\ u \in items
      <4>1. u = t
        BY <3>1, <3>2
      <4>2. v = w /\ x = w
        BY <2>2, <2>4, <3>2, <1>0
      <4> QED BY <4>1, <4>2
    <3>3. CASE t \in todo[v] /\ u \in todo[x]
      BY <2>6, <3>3 DEF TodoIsNew
    <3> QED
      BY <2>2, <2>3, <2>4, <3>1, <3>2, <3>3
  <2>7. \A f \in Executions \ called', c \in Channels : Untouched(f, c)'
    BY <2>1 DEF Fetch, TodoIsNew
  <2> QED
    BY <2>5, <2>6, <2>7 DEF Fetch, TodoIsNew, Message
<1>5. (phase = "returned" => senders = {})'
  BY DEF Fetch
<1> QED
  BY <1>2, <1>3, <1>4, <1>5

\* The items that are left are still new, and of no other message.
LEMMA OthersAreNew ==
  ASSUME DispatcherTypeOK, TodoIsNew, NEW w \in Callers, NEW t \in todo[w],
         todo' = [todo EXCEPT ![w] = Others(@, t)], called' = called
  PROVE  /\ todo' \in [Callers -> SUBSET Items]
         /\ \A v \in Callers : \A u \in todo'[v] :
              /\ u \in todo[v] /\ u.exec \in called /\ u.exec \in Executions /\ u.id \in Channels
              /\ Untouched(u.exec, u.id) /\ Message(u) # Message(t)
<1>1. \A v \in Callers : todo'[v] = IF v = w THEN todo[w] \ {t} ELSE todo[v]
  BY DEF Others, DispatcherTypeOK
<1>2. todo' \in [Callers -> SUBSET Items]
  BY DEF Others, DispatcherTypeOK
<1>3. \A v \in Callers : \A u \in todo'[v] : u \in todo[v] /\ Message(u) # Message(t)
  BY <1>1 DEF TodoIsNew
<1>4. \A v \in Callers : \A u \in todo[v] :
        u.exec \in called /\ u.exec \in Executions /\ u.id \in Channels /\ Untouched(u.exec, u.id)
  BY DEF TodoIsNew, DispatcherTypeOK, Items
<1> QED
  BY <1>2, <1>3, <1>4

LEMMA CreateNotificationInvariant ==
  ASSUME DispatcherInv, NEW w \in Callers, NEW t \in todo[w], CreateNotification(w, t)
  PROVE  DispatcherInv'
<1> USE DEF DispatcherInv
<1> DEFINE s0 == [exec |-> t.exec, id |-> t.id, row |-> t.row, nth |-> 1, status |-> "sending"]
<1>0. /\ t \in Items /\ t.exec \in Executions /\ t.id \in Channels /\ t.row \in Rows
      /\ t.exec \in called /\ Untouched(t.exec, t.id)
  BY DEF DispatcherTypeOK, Items, TodoIsNew
<1>1. s0 \notin senders /\ \A s \in senders : Message(s) # Message(t)
  BY <1>0 DEF Untouched, Message
<1>2. /\ todo' \in [Callers -> SUBSET Items]
      /\ \A v \in Callers : \A u \in todo'[v] :
           /\ u \in todo[v] /\ u.exec \in called /\ u.exec \in Executions /\ u.id \in Channels
           /\ Untouched(u.exec, u.id) /\ Message(u) # Message(t)
  BY OthersAreNew DEF CreateNotification
<1>3. notifications[t.exec][t.id] = <<>>
  BY <1>0 DEF Untouched
<1>4. \A e \in Executions, c \in Channels :
        ~(e = t.exec /\ c = t.id) => notifications'[e][c] = notifications[e][c]
  BY <1>0 DEF CreateNotification, DispatcherTypeOK
<1>5. notifications'[t.exec][t.id] = Append(<<>>, "pending")
  BY <1>0, <1>3 DEF CreateNotification, DispatcherTypeOK
<1>6. senders' = senders \cup {s0}
  BY <1>3, FirstRow DEF CreateNotification
<1>7. \A s \in senders \cup strays :
        /\ s.exec \in Executions /\ s.id \in Channels /\ ~(s.exec = t.exec /\ s.id = t.id)
        /\ s.nth \in DOMAIN notifications[s.exec][s.id]
  <2>1. DOMAIN <<>> = {}
    OBVIOUS
  <2> QED
    BY <1>3, <2>1, SendersHaveRows
<1>8. DispatcherTypeOK'
  <2>1. notifications' \in [Executions -> [Channels -> Seq(Statuses)]]
    BY <1>0, <1>3, FirstRow DEF CreateNotification, DispatcherTypeOK
  <2>2. senders' \subseteq Senders /\ \A r, s \in senders' : Row(r) = Row(s) => r = s
    BY <1>0, <1>6, <1>7 DEF DispatcherTypeOK, Senders, Row
  <2>3. wg' \in Nat
    BY DEF CreateNotification, Added, DispatcherTypeOK
  <2>4. \A s \in senders' \cup strays' : s.nth \in DOMAIN notifications'[s.exec][s.id]
    BY <1>4, <1>5, <1>6, <1>7, FirstRow DEF CreateNotification
  <2> QED
    BY <1>2, <2>1, <2>2, <2>3, <2>4 DEF CreateNotification, DispatcherTypeOK, Existing
<1>9. WaitGroupCounts'
  BY <1>1, <1>6, OneMore DEF CreateNotification, WaitGroupCounts, Added
<1>10. ServedOnce'
  <2> SUFFICES ASSUME NEW e \in Executions, NEW c \in Channels
               PROVE  Len(notifications'[e][c]) <= 1
    BY DEF ServedOnce
  <2>1. CASE e = t.exec /\ c = t.id
    <3>1. notifications'[e][c] = Append(<<>>, "pending")
      BY <1>5, <2>1
    <3>2. Len(notifications'[e][c]) = 1
      BY <3>1, FirstRow
    <3> QED BY <3>2
  <2>2. CASE ~(e = t.exec /\ c = t.id)
    BY <1>4, <2>2 DEF ServedOnce
  <2> QED BY <2>1, <2>2
<1>11. TodoIsNew'
  <2>1. \A e \in Executions, c \in Channels :
          Untouched(e, c) /\ <<e, c>> # Message(t) => Untouched(e, c)'
    BY <1>4, <1>6 DEF Untouched, Message
  <2>2. \A v \in Callers : \A u \in todo'[v] : u.exec \in called' /\ Untouched(u.exec, u.id)'
    BY <1>2, <2>1 DEF CreateNotification, Message
  <2>3. \A v \in Callers : \A u \in todo'[v] :
          \A x \in Callers : \A y \in todo'[x] : Message(y) = Message(u) => x = v /\ y = u
    BY <1>2 DEF TodoIsNew
  <2>4. \A e \in Executions \ called', c \in Channels : Untouched(e, c)'
    BY <1>0, <2>1 DEF CreateNotification, TodoIsNew, Message
  <2>5. (phase # "running" => \A v \in Callers : todo[v] = {})'
    BY DEF CreateNotification, TodoIsNew
  <2> QED
    BY <2>2, <2>3, <2>4, <2>5 DEF TodoIsNew, Message
<1>12. PendingHasReason'
  <2>1. ASSUME NEW e \in Executions, NEW c \in Channels, NEW n \in DOMAIN notifications'[e][c],
               notifications'[e][c][n] = "pending"
        PROVE  \/ \E s \in senders' : Row(s) = <<e, c, n>>
               \/ <<"save", e, c>> \in logged'
               \/ phase' = "down"
    <3>1. CASE e = t.exec /\ c = t.id
      <4>1. s0 \in senders' /\ Row(s0) = <<e, c, n>>
        BY <1>5, <1>6, <2>1, <3>1, FirstRow DEF Row
      <4> QED BY <4>1
    <3>2. CASE ~(e = t.exec /\ c = t.id)
      BY <1>4, <1>6, <2>1, <3>2 DEF PendingHasReason, CreateNotification
    <3> QED BY <3>1, <3>2
  <2>2. \A s \in senders' : notifications'[s.exec][s.id][s.nth] \in {"pending", "deleted"}
    BY <1>4, <1>5, <1>6, <1>7, FirstRow DEF PendingHasReason
  <2> QED
    BY <2>1, <2>2 DEF PendingHasReason, Row
<1>13. StraysHaveFailed'
  <2>1. \A m \in strays :
          notifications'[m.exec][m.id][m.nth] = notifications[m.exec][m.id][m.nth]
    BY <1>4, <1>7
  <2>2. strays' = strays /\ logged' = logged
    BY DEF CreateNotification
  <2> QED
    BY <1>6, <2>1, <2>2 DEF StraysHaveFailed
<1>14. RowsFollowParents'
  <2> SUFFICES ASSUME NEW e \in Executions, NEW c \in Channels, NEW n \in DOMAIN notifications'[e][c]
               PROVE  notifications'[e][c][n] = "deleted" <=> e \notin present' \/ c \notin Existing'
    BY DEF RowsFollowParents, Existing
  <2>1. present' = present /\ Existing' = Existing
    BY DEF CreateNotification, Existing
  <2>2. CASE e = t.exec /\ c = t.id
    BY <1>5, <2>1, <2>2, FirstRow DEF CreateNotification, HasParents
  <2>3. CASE ~(e = t.exec /\ c = t.id)
    BY <1>4, <2>1, <2>3 DEF RowsFollowParents
  <2> QED BY <2>2, <2>3
<1>15. (phase = "returned" => senders = {})'
  <2>1. phase = "running"
    BY DEF TodoIsNew
  <2> QED BY <2>1 DEF CreateNotification
<1> QED
  BY <1>8, <1>9, <1>10, <1>11, <1>12, <1>13, <1>14, <1>15

LEMMA FailCreateInvariant ==
  ASSUME DispatcherInv, NEW w \in Callers, NEW t \in todo[w], FailCreate(w, t)
  PROVE  DispatcherInv'
<1> USE DEF DispatcherInv, tableVars
<1>0. t.exec \in Executions /\ t.id \in Channels
  BY DEF DispatcherTypeOK, Items
<1>1. /\ todo' \in [Callers -> SUBSET Items]
      /\ \A v \in Callers : \A u \in todo'[v] :
           /\ u \in todo[v] /\ u.exec \in called /\ u.exec \in Executions /\ u.id \in Channels
           /\ Untouched(u.exec, u.id) /\ Message(u) # Message(t)
  BY OthersAreNew DEF FailCreate, Skipped
<1>2. DispatcherTypeOK'
  <2>1. logged' \subseteq {"create", "save"} \X Executions \X Channels
    BY <1>0 DEF FailCreate, DispatcherTypeOK
  <2> QED
    BY <1>1, <2>1 DEF FailCreate, DispatcherTypeOK, Existing
<1>3. WaitGroupCounts' /\ RowsFollowParents' /\ ServedOnce' /\ StraysHaveFailed'
  BY DEF FailCreate, WaitGroupCounts, RowsFollowParents, ServedOnce, StraysHaveFailed, Existing
<1>4. PendingHasReason'
  BY DEF FailCreate, PendingHasReason, Row
<1>5. TodoIsNew'
  <2>1. \A e \in Executions, c \in Channels : Untouched(e, c)' = Untouched(e, c)
    BY DEF FailCreate, Untouched, Message
  <2>2. \A v \in Callers : \A u \in todo'[v] : u.exec \in called' /\ Untouched(u.exec, u.id)'
    BY <1>1, <2>1 DEF FailCreate
  <2>3. \A v \in Callers : \A u \in todo'[v] :
          \A x \in Callers : \A y \in todo'[x] : Message(y) = Message(u) => x = v /\ y = u
    BY <1>1 DEF TodoIsNew
  <2>4. \A e \in Executions \ called', c \in Channels : Untouched(e, c)'
    BY <2>1 DEF FailCreate, TodoIsNew
  <2>5. (phase # "running" => \A v \in Callers : todo[v] = {})'
    BY DEF FailCreate, TodoIsNew
  <2> QED
    BY <2>2, <2>3, <2>4, <2>5 DEF TodoIsNew, Message
<1>6. (phase = "returned" => senders = {})'
  BY DEF FailCreate
<1> QED
  BY <1>2, <1>3, <1>4, <1>5, <1>6

-----------------------------------------------------------------------------
(* The goroutines.                                                          *)

\* Send has returned, in one of its three ways: the goroutine goes on with an
\* outcome to save, and a SendMail that goes on too is that of a failure.
LEMMA SendReturnsInvariant ==
  ASSUME DispatcherInv, NEW s \in senders, NEW status \in Terminal, SendReturns(s, status),
         s.status = "sending",
         \/ strays' = strays
         \/ /\ strays' = strays \cup {Returned(s, status)}
            /\ s.row.type = Email /\ status = "failed",
         UNCHANGED <<tableVars, callVars, wg, logged, phase>>
  PROVE  DispatcherInv'
<1> USE DEF DispatcherInv, tableVars, callVars
<1> DEFINE r == Returned(s, status)
<1>0. /\ s \in Senders /\ s.exec \in Executions /\ s.id \in Channels
      /\ s.nth \in DOMAIN notifications[s.exec][s.id]
  BY SendersHaveRows
<1>1. /\ r \in Senders /\ Message(r) = Message(s) /\ Row(r) = Row(s)
      /\ r.exec = s.exec /\ r.id = s.id /\ r.nth = s.nth /\ r.row = s.row /\ r.status = status
  BY <1>0 DEF Senders, Message, Row, Returned
<1>2. senders' = (senders \ {s}) \cup {r}
  BY DEF SendReturns
<1>3. \A u \in senders : u \in Senders /\ (u # s => Row(u) # Row(s))
  BY DEF DispatcherTypeOK
<1>4. r \notin senders \ {s}
  BY <1>1, <1>3
<1>5. DispatcherTypeOK'
  <2>1. senders' \subseteq Senders /\ strays' \subseteq Senders
    BY <1>1, <1>2, <1>3 DEF DispatcherTypeOK
  <2>2. \A u, v \in senders' : Row(u) = Row(v) => u = v
    BY <1>1, <1>2, <1>3 DEF DispatcherTypeOK
  <2>3. \A u \in senders' \cup strays' : u.nth \in DOMAIN notifications[u.exec][u.id]
    BY <1>0, <1>1, <1>2 DEF DispatcherTypeOK
  <2> QED
    BY <2>1, <2>2, <2>3 DEF DispatcherTypeOK, Existing, Row
<1>6. WaitGroupCounts' /\ ServedOnce'
  BY <1>2, <1>4, AsMany DEF WaitGroupCounts, ServedOnce
<1>7. TodoIsNew'
  <2>1. \A e \in Executions, c \in Channels : Untouched(e, c) => Untouched(e, c)'
    BY <1>1, <1>2 DEF Untouched, Message
  <2>2. \A w \in Callers : \A t \in todo[w] : t.exec \in Executions /\ t.id \in Channels
    BY DEF DispatcherTypeOK, Items
  <2> QED
    BY <2>1, <2>2 DEF TodoIsNew, Message
<1>8. PendingHasReason'
  <2>1. \A e \in Executions, c \in Channels : \A n \in DOMAIN notifications[e][c] :
          (\E u \in senders : Row(u) = <<e, c, n>>) => (\E u \in senders' : Row(u) = <<e, c, n>>)
    BY <1>1, <1>2
  <2>2. \A u \in senders' : notifications[u.exec][u.id][u.nth] \in {"pending", "deleted"}
    BY <1>1, <1>2 DEF PendingHasReason
  <2>3. ASSUME NEW e \in Executions, NEW c \in Channels, NEW n \in DOMAIN notifications[e][c],
               notifications[e][c][n] = "pending"
        PROVE  \/ \E u \in senders' : Row(u) = <<e, c, n>>
               \/ <<"save", e, c>> \in logged
               \/ phase = "down"
    BY <2>1, <2>3 DEF PendingHasReason
  <2>4. notifications' = notifications /\ logged' = logged /\ phase' = phase
    OBVIOUS
  <2> QED
    BY <2>2, <2>3, <2>4 DEF PendingHasReason, Row
<1>9. StraysHaveFailed'
  <2> SUFFICES ASSUME NEW m \in strays'
               PROVE  /\ m.row.type = Email /\ m.status = "failed"
                      /\ \/ m \in senders' \/ <<"save", m.exec, m.id>> \in logged
                         \/ notifications[m.exec][m.id][m.nth] \in {"failed", "deleted"}
    BY DEF StraysHaveFailed
  <2>1. CASE m \in strays
    BY <1>2, <2>1 DEF StraysHaveFailed
  <2>2. CASE m \notin strays
    BY <1>1, <1>2, <2>2
  <2> QED
    BY <2>1, <2>2
<1>10. RowsFollowParents'
  BY DEF RowsFollowParents, Existing
<1>11. (phase = "returned" => senders = {})'
  OBVIOUS
<1> QED
  BY <1>5, <1>6, <1>7, <1>8, <1>9, <1>10, <1>11

LEMMA UpdateStatusInvariant ==
  ASSUME DispatcherInv, NEW s \in senders, UpdateStatus(s)
  PROVE  DispatcherInv'
<1> USE DEF DispatcherInv, callVars
<1> DEFINE old == notifications[s.exec][s.id]
           new == [old EXCEPT ![s.nth] = Saved(@, s.status)]
<1>0. /\ s \in Senders /\ s.exec \in Executions /\ s.id \in Channels
      /\ old \in Seq(Statuses) /\ s.nth \in DOMAIN old
  BY SendersHaveRows DEF DispatcherTypeOK
<1>1. senders' = senders \ {s} /\ wg' = wg - 1 /\ s.status \in Terminal
  BY DEF UpdateStatus, Done
<1>2. old[s.nth] \in {"pending", "deleted"}
  BY DEF PendingHasReason
<1>3. /\ Saved(old[s.nth], s.status) \in Statuses \ {"pending"}
      /\ old[s.nth] = "deleted" <=> Saved(old[s.nth], s.status) = "deleted"
  BY <1>1, <1>2 DEF Saved, Statuses, Terminal
<1>4. /\ new \in Seq(Statuses) /\ DOMAIN new = DOMAIN old /\ Len(new) = Len(old)
      /\ \A n \in DOMAIN old : new[n] = IF n = s.nth THEN Saved(old[n], s.status) ELSE old[n]
  <2> DEFINE saved == Saved(old[s.nth], s.status)
  <2>1. saved \in Statuses
    BY <1>3
  <2>2. new = [old EXCEPT ![s.nth] = saved]
    OBVIOUS
  <2> HIDE DEF old, saved, DispatcherInv
  <2>3. /\ [old EXCEPT ![s.nth] = saved] \in Seq(Statuses)
        /\ DOMAIN [old EXCEPT ![s.nth] = saved] = DOMAIN old
        /\ Len([old EXCEPT ![s.nth] = saved]) = Len(old)
        /\ \A m \in DOMAIN old :
             [old EXCEPT ![s.nth] = saved][m] = IF m = s.nth THEN saved ELSE old[m]
    BY <1>0, <2>1, SavedRow
  <2> QED
    BY <2>2, <2>3 DEF saved
<1>5. /\ notifications' \in [Executions -> [Channels -> Seq(Statuses)]]
      /\ \/ notifications' = notifications /\ logged' = logged \cup {<<"save", s.exec, s.id>>}
         \/ /\ notifications'[s.exec][s.id] = new /\ logged' = logged
            /\ \A e \in Executions, c \in Channels :
                 ~(e = s.exec /\ c = s.id) => notifications'[e][c] = notifications[e][c]
  <2>1. CASE UNCHANGED notifications /\ logged' = logged \cup {<<"save", s.exec, s.id>>}
    BY <2>1 DEF DispatcherTypeOK
  <2>2. CASE /\ notifications' = [notifications EXCEPT ![s.exec][s.id][s.nth] = Saved(@, s.status)]
             /\ UNCHANGED logged
    <3>1. notifications' = [notifications EXCEPT ![s.exec] = [@ EXCEPT ![s.id] = new]]
      BY <2>2
    <3>2. notifications \in [Executions -> [Channels -> Seq(Statuses)]]
      BY DEF DispatcherTypeOK
    <3>3. new \in Seq(Statuses)
      BY <1>4
    <3> HIDE DEF new, DispatcherInv
    <3>4. notifications' \in [Executions -> [Channels -> Seq(Statuses)]]
      BY <1>0, <3>1, <3>2, <3>3
    <3>5. notifications'[s.exec][s.id] = new
      BY <1>0, <3>1, <3>2
    <3>6. \A e \in Executions, c \in Channels :
            ~(e = s.exec /\ c = s.id) => notifications'[e][c] = notifications[e][c]
      BY <1>0, <3>1, <3>2
    <3> QED
      BY <2>2, <3>4, <3>5, <3>6
  <2> QED
    BY <2>1, <2>2 DEF UpdateStatus
<1>6. \A e \in Executions, c \in Channels :
        /\ DOMAIN notifications'[e][c] = DOMAIN notifications[e][c]
        /\ Len(notifications'[e][c]) = Len(notifications[e][c])
        /\ \A n \in DOMAIN notifications[e][c] :
             <<e, c, n>> # Row(s) => notifications'[e][c][n] = notifications[e][c][n]
  <2> HIDE DEF new, DispatcherInv
  <2>1. CASE notifications' = notifications
    BY <2>1
  <2>2. CASE notifications' # notifications
    <3> TAKE e \in Executions, c \in Channels
    <3>1. CASE e = s.exec /\ c = s.id
      BY <1>4, <1>5, <2>2, <3>1 DEF Row
    <3>2. CASE ~(e = s.exec /\ c = s.id)
      BY <1>5, <2>2, <3>2
    <3> QED
      BY <3>1, <3>2
  <2> QED
    BY <2>1, <2>2
<1>7. \A u \in senders \cup strays : /\ u.exec \in Executions /\ u.id \in Channels
                                     /\ u.nth \in DOMAIN notifications[u.exec][u.id]
  BY SendersHaveRows
<1>8. \A u \in senders' : Row(u) # Row(s)
  BY <1>1 DEF DispatcherTypeOK
<1>9. DispatcherTypeOK'
  <2>1. logged' \subseteq {"create", "save"} \X Executions \X Channels
    BY <1>0 DEF UpdateStatus, DispatcherTypeOK
  <2>2. wg' \in Nat
    <3>1. wg # 0
      BY <1>1, FS_EmptySet DEF WaitGroupCounts
    <3> QED
      BY <1>1, <3>1 DEF DispatcherTypeOK
  <2>3. senders' \subseteq Senders /\ \A u, v \in senders' : Row(u) = Row(v) => u = v
    BY <1>1 DEF DispatcherTypeOK
  <2>4. strays' = strays
    BY DEF UpdateStatus
  <2>5. \A u \in senders' \cup strays' : u.nth \in DOMAIN notifications'[u.exec][u.id]
    BY <1>1, <1>6, <1>7, <2>4
  <2> QED
    BY <1>5, <2>1, <2>2, <2>3, <2>4, <2>5 DEF UpdateStatus, DispatcherTypeOK, Existing, Row
<1>10. WaitGroupCounts' /\ ServedOnce'
  BY <1>1, <1>6, OneLess DEF WaitGroupCounts, ServedOnce
<1>11. TodoIsNew'
  <2>1. \A e \in Executions, c \in Channels : Untouched(e, c) => Untouched(e, c)'
    <3> SUFFICES ASSUME NEW e \in Executions, NEW c \in Channels, Untouched(e, c)
                 PROVE  Untouched(e, c)'
      OBVIOUS
    <3>1. ~(e = s.exec /\ c = s.id)
      BY DEF Untouched, Message
    <3> QED
      BY <1>1, <1>5, <3>1 DEF Untouched, Message
  <2>2. \A v \in Callers : \A t \in todo[v] : t.exec \in Executions /\ t.id \in Channels
    BY DEF DispatcherTypeOK, Items
  <2> QED
    BY <2>1, <2>2 DEF UpdateStatus, TodoIsNew, Message
<1>12. PendingHasReason'
  <2>1. ASSUME NEW e \in Executions, NEW c \in Channels, NEW n \in DOMAIN notifications'[e][c],
               notifications'[e][c][n] = "pending"
        PROVE  \/ \E u \in senders' : Row(u) = <<e, c, n>>
               \/ <<"save", e, c>> \in logged'
               \/ phase' = "down"
    <3>1. CASE <<e, c, n>> = Row(s)
      <4>1. e = s.exec /\ c = s.id /\ n = s.nth
        BY <3>1 DEF Row
      <4> QED
        BY <1>0, <1>3, <1>4, <1>5, <2>1, <4>1
    <3>2. CASE <<e, c, n>> # Row(s)
      <4>1. n \in DOMAIN notifications[e][c] /\ notifications[e][c][n] = "pending"
        BY <1>6, <2>1, <3>2
      <4>2. \/ \E u \in senders : Row(u) = <<e, c, n>>
            \/ <<"save", e, c>> \in logged
            \/ phase = "down"
        BY <4>1 DEF PendingHasReason
      <4> QED
        BY <1>1, <3>2, <4>2 DEF UpdateStatus
    <3> QED
      BY <3>1, <3>2
  <2>2. \A u \in senders' : notifications'[u.exec][u.id][u.nth] \in {"pending", "deleted"}
    BY <1>1, <1>6, <1>7, <1>8 DEF PendingHasReason, Row
  <2> QED
    BY <2>1, <2>2 DEF PendingHasReason, Row
<1>13. StraysHaveFailed'
  <2> SUFFICES ASSUME NEW m \in strays
               PROVE  /\ m.row.type = Email /\ m.status = "failed"
                      /\ \/ m \in senders' \/ <<"save", m.exec, m.id>> \in logged'
                         \/ notifications'[m.exec][m.id][m.nth] \in {"failed", "deleted"}
    BY DEF UpdateStatus, StraysHaveFailed
  <2>0. /\ m.row.type = Email /\ m.status = "failed"
        /\ m.exec \in Executions /\ m.id \in Channels
        /\ m.nth \in DOMAIN notifications[m.exec][m.id]
    BY <1>7 DEF StraysHaveFailed
  <2>1. CASE Row(m) # Row(s)
    <3>1. notifications'[m.exec][m.id][m.nth] = notifications[m.exec][m.id][m.nth]
      BY <1>6, <2>0, <2>1 DEF Row
    <3>2. m # s /\ logged \subseteq logged'
      BY <2>1 DEF UpdateStatus
    <3> QED
      BY <1>1, <2>0, <3>1, <3>2 DEF StraysHaveFailed
  <2>2. CASE Row(m) = Row(s)
    <3>1. m.exec = s.exec /\ m.id = s.id /\ m.nth = s.nth
      BY <2>2 DEF Row
    <3>2. CASE m = s
      <4>1. Saved(old[s.nth], s.status) \in {"failed", "deleted"}
        BY <2>0, <3>2 DEF Saved
      <4>2. CASE logged' = logged \cup {<<"save", s.exec, s.id>>}
        BY <2>0, <3>1, <4>2
      <4>3. CASE notifications'[s.exec][s.id] = new
        BY <1>0, <1>4, <2>0, <3>1, <4>1, <4>3
      <4> QED
        BY <1>5, <4>2, <4>3
    <3>3. CASE m # s
      <4>1. m \notin senders
        BY <2>2, <3>3 DEF DispatcherTypeOK
      <4>2. <<"save", m.exec, m.id>> \in logged \/ old[s.nth] = "deleted"
        BY <1>2, <3>1, <4>1 DEF StraysHaveFailed
      <4>3. logged \subseteq logged'
        BY DEF UpdateStatus
      <4>4. old[s.nth] = "deleted" => notifications'[s.exec][s.id][s.nth] = "deleted"
        BY <1>0, <1>3, <1>4, <1>5
      <4> QED
        BY <2>0, <3>1, <4>2, <4>3, <4>4
    <3> QED
      BY <3>2, <3>3
  <2> QED
    BY <2>1, <2>2
<1>14. RowsFollowParents'
  <2> SUFFICES ASSUME NEW e \in Executions, NEW c \in Channels, NEW n \in DOMAIN notifications'[e][c]
               PROVE  notifications'[e][c][n] = "deleted" <=> e \notin present' \/ c \notin Existing'
    BY DEF RowsFollowParents, Existing
  <2>1. present' = present /\ Existing' = Existing /\ n \in DOMAIN notifications[e][c]
    BY <1>6 DEF UpdateStatus, Existing
  <2>2. notifications'[e][c][n] = "deleted" <=> notifications[e][c][n] = "deleted"
    <3>1. CASE <<e, c, n>> = Row(s)
      <4>1. e = s.exec /\ c = s.id /\ n = s.nth
        BY <3>1 DEF Row
      <4> QED
        BY <1>0, <1>3, <1>4, <1>5, <4>1
    <3>2. CASE <<e, c, n>> # Row(s)
      BY <1>6, <2>1, <3>2
    <3> QED
      BY <3>1, <3>2
  <2> QED
    BY <2>1, <2>2 DEF RowsFollowParents
<1>15. (phase = "returned" => senders = {})'
  BY <1>1 DEF UpdateStatus
<1> QED
  BY <1>9, <1>10, <1>11, <1>12, <1>13, <1>14, <1>15

\* Send's three ends and the UPDATE.
LEMMA SendInvariant ==
  ASSUME DispatcherInv, NEW s \in senders, Send(s)
  PROVE  DispatcherInv'
<1>1. CASE SendSucceeds(s)
  BY <1>1, SendReturnsInvariant DEF SendSucceeds, Terminal
<1>2. CASE SendFails(s)
  BY <1>2, SendReturnsInvariant DEF SendFails, Terminal
<1>3. CASE SendTimesOut(s)
  BY <1>3, SendReturnsInvariant DEF SendTimesOut, Terminal
<1>4. CASE UpdateStatus(s)
  BY <1>4, UpdateStatusInvariant
<1> QED
  BY <1>1, <1>2, <1>3, <1>4 DEF Send

\* The mail server's answer comes too late to matter.
LEMMA StrayEndsInvariant ==
  ASSUME DispatcherInv, NEW m \in strays, StrayEnds(m)
  PROVE  DispatcherInv'
<1> USE DEF DispatcherInv, tableVars, callVars
<1>1. DispatcherTypeOK' /\ ServedOnce'
  BY DEF StrayEnds, DispatcherTypeOK, ServedOnce, Existing, Row
<1>2. WaitGroupCounts' /\ TodoIsNew' /\ PendingHasReason' /\ RowsFollowParents' /\ StraysHaveFailed'
  BY DEF StrayEnds, WaitGroupCounts, TodoIsNew, PendingHasReason, RowsFollowParents,
         StraysHaveFailed, Untouched, Message, Row, Existing
<1>3. (phase = "returned" => senders = {})'
  BY DEF StrayEnds
<1> QED
  BY <1>1, <1>2, <1>3

-----------------------------------------------------------------------------
(* The end of Run.                                                          *)

LEMMA CallWaitInvariant == DispatcherInv /\ CallWait => DispatcherInv'
<1> SUFFICES ASSUME DispatcherInv, CallWait
             PROVE  DispatcherInv'
  OBVIOUS
<1> USE DEF DispatcherInv, tableVars, callVars, sendVars
<1>1. DispatcherTypeOK'
  BY DEF CallWait, DispatcherTypeOK, Existing, Row
<1>2. WaitGroupCounts' /\ PendingHasReason' /\ RowsFollowParents' /\ ServedOnce' /\ StraysHaveFailed'
  BY DEF CallWait, WaitGroupCounts, PendingHasReason, RowsFollowParents, ServedOnce,
         StraysHaveFailed, Row, Existing
<1>3. TodoIsNew'
  BY DEF CallWait, TodoIsNew, InDispatch, Untouched, Message
<1>4. (phase = "returned" => senders = {})'
  BY DEF CallWait
<1> QED
  BY <1>1, <1>2, <1>3, <1>4

\* The wait group counts the goroutines: at zero there is none.
LEMMA WaitReturnsInvariant == DispatcherInv /\ WaitReturns => DispatcherInv'
<1> SUFFICES ASSUME DispatcherInv, WaitReturns
             PROVE  DispatcherInv'
  OBVIOUS
<1> USE DEF DispatcherInv, tableVars, callVars, sendVars
<1>1. senders = {}
  BY FS_EmptySet DEF WaitReturns, WaitGroupCounts
<1>2. DispatcherTypeOK'
  BY DEF WaitReturns, DispatcherTypeOK, Existing, Row
<1>3. WaitGroupCounts' /\ RowsFollowParents' /\ ServedOnce'
  BY DEF WaitReturns, WaitGroupCounts, RowsFollowParents, ServedOnce, Existing
<1>4. StraysHaveFailed'
  BY DEF WaitReturns, StraysHaveFailed
<1>5. PendingHasReason'
  <2>1. \A e \in Executions, c \in Channels : \A n \in DOMAIN notifications[e][c] :
          notifications[e][c][n] = "pending" => <<"save", e, c>> \in logged
    BY <1>1 DEF WaitReturns, PendingHasReason
  <2>2. notifications' = notifications /\ senders' = {} /\ logged' = logged
    BY <1>1 DEF WaitReturns
  <2> QED
    BY <2>1, <2>2 DEF PendingHasReason
<1>6. TodoIsNew'
  BY DEF WaitReturns, TodoIsNew, Untouched, Message
<1> QED
  BY <1>1, <1>2, <1>3, <1>4, <1>5, <1>6 DEF WaitReturns

LEMMA CrashInvariant == DispatcherInv /\ Crash => DispatcherInv'
<1> SUFFICES ASSUME DispatcherInv, Crash
             PROVE  DispatcherInv'
  OBVIOUS
<1> USE DEF DispatcherInv, tableVars
<1>1. DispatcherTypeOK'
  BY DEF Crash, DispatcherTypeOK, Existing, Row
<1>2. WaitGroupCounts'
  BY FS_EmptySet DEF Crash, WaitGroupCounts
<1>3. TodoIsNew' /\ PendingHasReason' /\ RowsFollowParents' /\ ServedOnce' /\ StraysHaveFailed'
  BY DEF Crash, TodoIsNew, PendingHasReason, RowsFollowParents, ServedOnce, StraysHaveFailed,
         Untouched, Message, Row, Existing
<1>4. (phase = "returned" => senders = {})'
  BY DEF Crash
<1> QED
  BY <1>1, <1>2, <1>3, <1>4

-----------------------------------------------------------------------------
(* The theorems.                                                            *)

LEMMA NextInvariant == DispatcherInv /\ [Next]_vars => DispatcherInv'
<1> SUFFICES ASSUME DispatcherInv, [Next]_vars
             PROVE  DispatcherInv'
  OBVIOUS
<1>1. CASE \E w \in Callers : Dispatch(w)
  BY <1>1, FetchInvariant, CreateNotificationInvariant, FailCreateInvariant DEF Dispatch
<1>2. CASE \E e \in Executions, c \in Channels : SendOf(e, c)
  BY <1>2, SendInvariant DEF SendOf
<1>3. CASE \E m \in strays : StrayEnds(m)
  BY <1>3, StrayEndsInvariant
<1>4. CASE \E e \in Executions : DeleteExecution(e)
  BY <1>4, DeleteExecutionInvariant
<1>5. CASE \E c \in Channels : Update(c) \/ Delete(c)
  BY <1>5, UpdateInvariant, DeleteInvariant
<1>6. CASE CallWait \/ WaitReturns \/ Crash
  BY <1>6, CallWaitInvariant, WaitReturnsInvariant, CrashInvariant
<1>7. CASE UNCHANGED vars
  BY <1>7 DEF vars, tableVars, callVars, sendVars, DispatcherInv, DispatcherTypeOK, WaitGroupCounts,
              TodoIsNew, PendingHasReason, RowsFollowParents, ServedOnce, StraysHaveFailed, Untouched,
              Message, Row, Existing
<1> QED
  BY <1>1, <1>2, <1>3, <1>4, <1>5, <1>6, <1>7 DEF Next

\* The wait group counts the send goroutines, a channel is served once, a row says
\* pending for a reason, at every moment of Dispatch, send and Wait.
THEOREM DispatcherInvariant == Spec => []DispatcherInv
<1> QED
  BY InitInvariant, NextInvariant, PTL DEF Spec

\* When Dispatcher.Wait has returned no goroutine will write a row any more, a row
\* without an outcome is one whose UPDATE failed, and what still goes on is a SendMail
\* of a notification on record as failed: email strays are all that AllSendsFinished
\* does not get, and they never belong to a row that says sent or pending.
THEOREM WaitCovers == Spec => []WaitCoversSaves
<1>1. DispatcherInv => WaitCoversSaves
  BY DEF DispatcherInv, WaitCoversSaves, PendingHasReason, StraysHaveFailed
<1> QED
  BY <1>1, DispatcherInvariant, PTL

\* Notifications live and die with their execution and their channel, however late
\* UpdateStatus and Create come.
THEOREM RowsFollow == Spec => []RowsFollowParents
<1>1. DispatcherInv => RowsFollowParents
  BY DEF DispatcherInv
<1> QED
  BY <1>1, DispatcherInvariant, PTL

\* A goroutine never ends on a row that still says pending without an entry in the
\* log (send), unless the process dies.
THEOREM PendingIsResolved == Spec => []PendingHasReason
<1>1. DispatcherInv => PendingHasReason
  BY DEF DispatcherInv
<1> QED
  BY <1>1, DispatcherInvariant, PTL
=============================================================================
