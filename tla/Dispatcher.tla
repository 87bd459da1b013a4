------------------------------ MODULE Dispatcher ------------------------------
(****************************************************************************)
(* The notification dispatcher of SignalFlow (internal/notifier) beside the *)
(* channel service (internal/service/channel.go), on the tables channels    *)
(* and notifications.  The workers of one process call Dispatch; it inserts *)
(* a pending notification for every enabled channel and starts a goroutine  *)
(* that sends the message and saves the outcome.  Meanwhile requests edit   *)
(* and delete channels and delete jobs.                                     *)
(*                                                                          *)
(* A Send asks a service outside the program, which may accept the message, *)
(* refuse it or not answer in time.                                         *)
(****************************************************************************)
EXTENDS Integers, Sequences, FiniteSets

CONSTANTS
  Callers,         \* the worker goroutines
  Executions,      \* finished executions somebody wants to hear of
  Channels,        \* ids of channels rows
  NotifyChannels,  \* the ids in the notify_channels of each execution's job
  ChannelTypes,    \* the types in use: every one has a registered notifier
  Faults           \* statements that may fail, and "crash"

Email == "email"

ASSUME DispatcherAssumption ==
  /\ NotifyChannels \in [Executions -> SUBSET Channels]
  /\ Faults \subseteq {"fetch", "create", "save", "crash"}
  /\ IsFiniteSet(Callers) /\ IsFiniteSet(Executions) /\ IsFiniteSet(Channels)

VARIABLES
  channels,       \* the channels table: its rows by id
  present,        \* the executions that are not deleted
  notifications,  \* notifications[e][c]: the rows of e for c, in the order of insertion
  called,         \* the executions Dispatch was called for
  todo,           \* todo[w]: the channels w's Dispatch has still to serve
  senders,        \* the send goroutines
  wg,             \* the counter of the wait group
  strays,         \* SendMail goroutines, by the send that has given up on them
  logged,         \* failed statements, of which only the log knows
  phase           \* of Run: what its end does with the dispatcher

tableVars == <<channels, present, notifications>>
callVars  == <<called, todo>>
sendVars  == <<senders, wg, strays, logged>>
vars      == <<tableVars, callVars, sendVars, phase>>

Rows     == [enabled : BOOLEAN, type : ChannelTypes]
Existing == DOMAIN channels
Terminal == {"sent", "failed"}
Items    == [exec : Executions, id : Channels, row : Rows]    \* row: a copy
Senders  == [exec : Executions, id : Channels, row : Rows, nth : Nat \ {0},
             status : {"sending"} \cup Terminal]
Statuses == {"pending", "deleted"} \cup Terminal

Message(t) == <<t.exec, t.id>>
Row(s) == <<s.exec, s.id, s.nth>>

\* Every variable has its type; there is one goroutine per notification at most,
\* and it has a row to write.
DispatcherTypeOK ==
  /\ Existing \subseteq Channels /\ channels \in [Existing -> Rows]
  /\ present \subseteq Executions
  /\ notifications \in [Executions -> [Channels -> Seq(Statuses)]]
  /\ called \subseteq Executions
  /\ todo \in [Callers -> SUBSET Items]
  /\ senders \subseteq Senders
  /\ \A s, t \in senders : Row(s) = Row(t) => s = t
  /\ wg \in Nat
  /\ strays \subseteq Senders
  /\ \A s \in senders \cup strays : s.nth \in DOMAIN notifications[s.exec][s.id]
  /\ logged \subseteq {"create", "save"} \X Executions \X Channels
  /\ phase \in {"running", "waiting", "returned", "down"}

Init ==
  /\ channels \in [Channels -> Rows]
  /\ present = Executions
  /\ notifications = [e \in Executions |-> [c \in Channels |-> <<>>]]
  /\ called = {}
  /\ todo = [w \in Callers |-> {}]
  /\ senders = {} /\ wg = 0 /\ strays = {} /\ logged = {}
  /\ phase = "running"

-----------------------------------------------------------------------------
(* Requests: channels are edited, toggled and deleted, jobs are deleted     *)
(* with their executions.  A new channel is in no job's list yet.           *)

\* ON DELETE CASCADE on both parents of a notification.
Gone(rows) == [n \in DOMAIN rows |-> "deleted"]

Delete(c) ==
  /\ c \in Existing
  /\ channels' = [d \in Existing \ {c} |-> channels[d]]
  /\ notifications' = [e \in Executions |->
       [notifications[e] EXCEPT ![c] = Gone(@)]]
  /\ UNCHANGED <<present, callVars, sendVars, phase>>

DeleteExecution(e) ==
  /\ e \in present
  /\ present' = present \ {e}
  /\ notifications' = [notifications EXCEPT ![e] = [c \in Channels |-> Gone(@[c])]]
  /\ UNCHANGED <<channels, callVars, sendVars, phase>>

\* Update reads the row, changes the columns the request names and writes the
\* whole row; so does ToggleChannel.  Between the two a channel may have any
\* columns, and the row written may be any: one step.
Update(c) ==
  /\ c \in Existing
  /\ \E row \in Rows : channels' = [channels EXCEPT ![c] = row]
  /\ UNCHANGED <<present, notifications, callVars, sendVars, phase>>

-----------------------------------------------------------------------------
(* Dispatch.                                                                *)

InDispatch(w) == todo[w] # {}

\* GetByIDs, and the test of `enabled` on the copies; ids without a row are not
\* missed.  A query that fails ends Dispatch; one that fails while its rows come in
\* looks like one with fewer rows, for nobody asks rows.Err.
MayArrive(S, all) == S = all \/ "fetch" \in Faults

Enabled(e) == {c \in NotifyChannels[e] \cap Existing : channels[c].enabled}

Fetch(w, e) ==
  /\ phase = "running"
  /\ ~InDispatch(w)
  /\ e \notin called
  /\ called' = called \cup {e}
  /\ \E S \in SUBSET Enabled(e) :
       /\ MayArrive(S, Enabled(e))
       /\ todo' = [todo EXCEPT ![w] = {[exec |-> e, id |-> c, row |-> channels[c]] : c \in S}]
  /\ UNCHANGED <<tableVars, sendVars, phase>>

\* The loop goes on to the channels after that of t.
Again(items, t) == items    \* mutant: a channel is served twice
Others(items, t) == items \ {t}

\* wg.Add(1), before the goroutine starts
AddedInside(n) == n    \* mutant: Add runs in the goroutine
Added(n) == n + 1

HasParents(e, c) == e \in present /\ c \in Existing

\* The INSERT of the pending row under a fresh uuid, and the goroutine for it.
CreateNotification(w, t) ==
  /\ HasParents(t.exec, t.id)
  /\ notifications' = [notifications EXCEPT ![t.exec][t.id] = Append(@, "pending")]
  /\ wg' = Added(wg)
  /\ senders' = senders \cup
       {[exec |-> t.exec, id |-> t.id, row |-> t.row,
         nth |-> Len(notifications[t.exec][t.id]) + 1, status |-> "sending"]}
  /\ todo' = [todo EXCEPT ![w] = Others(@, t)]
  /\ UNCHANGED <<channels, present, called, strays, logged, phase>>

GivesUp(items, t) == {}    \* mutant: return, not continue
Skipped(items, t) == Others(items, t)

\* The INSERT fails, or a parent is gone by now: the next channel's turn.
FailCreate(w, t) ==
  /\ "create" \in Faults \/ ~HasParents(t.exec, t.id)
  /\ logged' = logged \cup {<<"create", t.exec, t.id>>}
  /\ todo' = [todo EXCEPT ![w] = Skipped(@, t)]
  /\ UNCHANGED <<tableVars, called, senders, wg, strays, phase>>

-----------------------------------------------------------------------------
(* send: one goroutine per notification.                                    *)

Returned(s, status) == [s EXCEPT !.status = status]
SendReturns(s, status) == senders' = (senders \ {s}) \cup {Returned(s, status)}

\* The service outside has accepted the message.
SendSucceeds(s) ==
  /\ s.status = "sending"
  /\ SendReturns(s, "sent")
  /\ UNCHANGED <<tableVars, callVars, wg, strays, logged, phase>>

\* The config lacks a field, the service refuses or cannot be reached.
SendFails(s) ==
  /\ s.status = "sending"
  /\ SendReturns(s, "failed")
  /\ UNCHANGED <<tableVars, callVars, wg, strays, logged, phase>>

\* sendTimeout: an HTTP request is cancelled, SendMail is not.
SendTimesOut(s) ==
  /\ s.status = "sending"
  /\ SendReturns(s, "failed")
  /\ strays' = IF s.row.type = Email THEN strays \cup {Returned(s, "failed")} ELSE strays
  /\ UNCHANGED <<tableVars, callVars, wg, logged, phase>>

\* UPDATE notifications ... WHERE id
Upserts(old, status) == status    \* mutant: the row is brought back
OnlySent(old, status) == IF status = "sent" THEN status ELSE old    \* mutant: no UPDATE on errors
Saved(old, status) == IF old = "deleted" THEN old ELSE status

Forgotten(n) == n    \* mutant: no deferred Done
Done(n) == n - 1

UpdateStatus(s) ==
  /\ s.status \in Terminal
  /\ \/ /\ notifications' = [notifications EXCEPT ![s.exec][s.id][s.nth] = Saved(@, s.status)]
        /\ UNCHANGED logged
     \/ /\ "save" \in Faults
        /\ logged' = logged \cup {<<"save", s.exec, s.id>>}
        /\ UNCHANGED notifications
  /\ senders' = senders \ {s}
  /\ wg' = Done(wg)
  /\ UNCHANGED <<channels, present, callVars, strays, phase>>

\* SendMail ends after its Send.
StrayEnds(m) ==
  /\ strays' = strays \ {m}
  /\ UNCHANGED <<tableVars, callVars, senders, wg, logged, phase>>

-----------------------------------------------------------------------------
(* The end of Run.                                                          *)

\* The workers have exited: Run calls Wait.
CallWait ==
  /\ phase = "running"
  /\ \A w \in Callers : ~InDispatch(w)
  /\ phase' = "waiting"
  /\ UNCHANGED <<tableVars, callVars, sendVars>>

WaitReturns ==
  /\ phase = "waiting"
  /\ wg = 0
  /\ phase' = "returned"
  /\ UNCHANGED <<tableVars, callVars, sendVars>>

Crash ==
  /\ "crash" \in Faults
  /\ phase # "down"
  /\ phase' = "down"
  /\ todo' = [w \in Callers |-> {}]
  /\ senders' = {} /\ strays' = {} /\ wg' = 0
  /\ UNCHANGED <<tableVars, called, logged>>

-----------------------------------------------------------------------------
Dispatch(w) ==
  \/ \E e \in Executions : Fetch(w, e)
  \/ \E t \in todo[w] : CreateNotification(w, t) \/ FailCreate(w, t)

Send(s) == SendSucceeds(s) \/ SendFails(s) \/ SendTimesOut(s) \/ UpdateStatus(s)

SendOf(e, c) == \E s \in senders : s.exec = e /\ s.id = c /\ Send(s)

Next ==
  \/ \E w \in Callers : Dispatch(w)
  \/ \E e \in Executions, c \in Channels : SendOf(e, c)
  \/ \E m \in strays : StrayEnds(m)
  \/ \E e \in Executions : DeleteExecution(e)
  \/ \E c \in Channels : Update(c) \/ Delete(c)
  \/ CallWait \/ WaitReturns \/ Crash

Spec == Init /\ [][Next]_vars

\* A Dispatch goes on while its process lives; Send returns by its timeout at the
\* latest and the goroutine runs to its end.  Nothing is assumed of requests, of
\* the services outside and of shutdowns.
Fairness ==
  /\ \A w \in Callers : WF_vars(Dispatch(w))
  /\ \A e \in Executions, c \in Channels : WF_vars(SendOf(e, c))
  /\ WF_vars(WaitReturns)

FairSpec == Spec /\ Fairness

-----------------------------------------------------------------------------
(* Properties.                                                              *)

\* The wait group counts the send goroutines, at every moment at which Wait may
\* look at it (wg.Add before the goroutine, the deferred Done).
WaitGroupCounts == IsFiniteSet(senders) /\ wg = Cardinality(senders)

\* Nobody hears twice of an execution on one channel: a pair gets one row, although
\* the table does not ask for it (the loop of Dispatch; migration 5 has no UNIQUE).
ServedOnce ==
  \A e \in Executions, c \in Channels : Len(notifications[e][c]) <= 1

\* A channel waits in one Dispatch at most, once, and only while the process runs;
\* nothing was begun for it.
Untouched(e, c) == notifications[e][c] = <<>> /\ \A s \in senders : Message(s) # <<e, c>>

TodoIsNew ==
  /\ \A w \in Callers : \A t \in todo[w] :
       /\ t.exec \in called /\ Untouched(t.exec, t.id)
       /\ \A v \in Callers : \A u \in todo[v] : Message(u) = Message(t) => v = w /\ u = t
  /\ \A e \in Executions \ called, c \in Channels : Untouched(e, c)
  /\ phase # "running" => \A w \in Callers : todo[w] = {}

\* A row is pending only as long as a goroutine works on it, whatever its Send does:
\* when that ends the outcome is saved or the failure logged, unless the process
\* dies; and a goroutine never works on a row that has its outcome (send).
PendingHasReason ==
  /\ \A e \in Executions, c \in Channels : \A n \in DOMAIN notifications[e][c] :
       notifications[e][c][n] = "pending" =>
         \/ \E s \in senders : Row(s) = <<e, c, n>>
         \/ <<"save", e, c>> \in logged
         \/ phase = "down"
  /\ \A s \in senders : notifications[s.exec][s.id][s.nth] \in {"pending", "deleted"}

\* What outlives its Send is a SendMail, and its row says failed, or will: the mail
\* may still go out (EmailNotifier.Send).
StraysHaveFailed ==
  \A s \in strays :
    /\ s.row.type = Email /\ s.status = "failed"
    /\ \/ s \in senders \/ <<"save", s.exec, s.id>> \in logged
       \/ notifications[s.exec][s.id][s.nth] \in {"failed", "deleted"}

\* When Wait has returned no notification is left half done: no goroutine will write
\* a row any more, every row of this process has its outcome unless the UPDATE failed,
\* and the only calls still in progress are those of SendMail whose notifications are
\* on record as failed (Dispatcher.Wait at the end of Run against wg.Add and Done).
WaitCoversSaves ==
  phase = "returned" =>
    /\ senders = {}
    /\ \A e \in Executions, c \in Channels : \A n \in DOMAIN notifications[e][c] :
         notifications[e][c][n] = "pending" => <<"save", e, c>> \in logged
    /\ \A s \in strays : s.row.type = Email /\
         (\/ notifications[s.exec][s.id][s.nth] \in {"failed", "deleted"}
          \/ <<"save", s.exec, s.id>> \in logged)

\* A notification row lives and dies with its execution and its channel: an
\* outcome that comes late does not bring it back (UpdateStatus and Create
\* against the cascades of Delete).
RowsFollowParents ==
  \A e \in Executions, c \in Channels : \A n \in DOMAIN notifications[e][c] :
    notifications[e][c][n] = "deleted" <=> e \notin present \/ c \notin Existing

\* The inductive invariant behind the safety properties.
DispatcherInv ==
  /\ DispatcherTypeOK /\ WaitGroupCounts /\ ServedOnce /\ TodoIsNew
  /\ PendingHasReason /\ StraysHaveFailed /\ RowsFollowParents
  /\ phase = "returned" => senders = {}

\* Every enabled channel of the job gets a notification with an outcome, whatever
\* happens to the other channels of the list; only its own errors, its deletion
\* and a crash excuse it (the loop of Dispatch, send).
Due(e, c) == \E w \in Callers : \E t \in todo[w] : Message(t) = <<e, c>>

EveryChannelIsServed ==
  \A e \in Executions, c \in Channels :
    Due(e, c) ~> \/ \E n \in DOMAIN notifications[e][c] : notifications[e][c][n] \in Terminal
                 \/ <<"create", e, c>> \in logged \/ <<"save", e, c>> \in logged
                 \/ ~HasParents(e, c) \/ phase = "down"

\* Run does not hang in Wait (the timeout of send, Done).
WaitEnds == phase = "waiting" ~> phase \in {"returned", "down"}

\* Wait returns when all sends have finished: none is in progress after it.
AllSendsFinished == phase = "returned" => senders = {} /\ strays = {}
=============================================================================
