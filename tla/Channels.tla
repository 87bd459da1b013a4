------------------------------- MODULE Channels -------------------------------
(****************************************************************************)
(* The channel service (internal/service/channel.go, the channels table)    *)
(* and the requests of the API and the dashboard that use it, each under    *)
(* the session of its client.                                               *)
(*                                                                          *)
(* An update reads the row, changes what the request names and writes the   *)
(* whole copy.  The dashboard's toggle reads the row once more before that. *)
(* Nothing keeps two requests apart.                                        *)
(****************************************************************************)
EXTENDS Accounts, Functions

CONSTANTS
  Channels,    \* ids of channels rows
  Names        \* values of a column; stands for name, type and config

ASSUME ChannelsAssumption == Names # {}

VARIABLES
  channels,    \* the columns of the channels table
  status,      \* which of its rows are there
  requests     \* updates and toggles in progress

webVars == <<now, accountVars, channels, status, requests>>

Columns  == {"name", "enabled"}
Rows     == [name : Names, enabled : BOOLEAN]
Changes  == {Restrict(row, S) : row \in Rows, S \in SUBSET Columns}
NoRow    == CHOOSE row \in Rows : TRUE    \* nothing yet

\* A request holds its changes, and its copy of the row once it has read it.  How the
\* table has changed meanwhile is remembered: since the first read of the request
\* (overlapped) and since the read of its copy (outdated).
Requests == [client : Clients, op : {"update", "toggle"}, pc : {"reading", "writing"},
             channel : Channels, changes : Changes, row : Rows,
             overlapped : BOOLEAN, outdated : BOOLEAN]

ChannelsTypeOK ==
  /\ AccountsTypeOK
  /\ channels \in [Channels -> Rows]
  /\ status \in [Channels -> {"uncreated", "stored", "deleted"}]
  /\ requests \subseteq Requests
  /\ \A p, q \in requests : p.client = q.client => p = q

ChannelsInit ==
  /\ AccountsInit
  /\ channels = [ch \in Channels |-> NoRow]
  /\ status = [ch \in Channels |-> "uncreated"]
  /\ requests = {}

Exists(ch) == status[ch] = "stored"
Ready(c)   == Authenticated(c) /\ \A q \in requests : q.client # c

-----------------------------------------------------------------------------
(* One statement: INSERT, DELETE.                                           *)

\* `enabled` is what the request says, TRUE without it and in the dashboard.
Create(c, ch) ==
  /\ Ready(c)
  /\ status[ch] = "uncreated"
  /\ status' = [status EXCEPT ![ch] = "stored"]
  /\ \E row \in Rows : channels' = [channels EXCEPT ![ch] = row]
  /\ UNCHANGED <<now, accountVars, requests>>

Touched(S, ch) ==
  {IF q.channel = ch THEN [q EXCEPT !.overlapped = TRUE, !.outdated = TRUE] ELSE q : q \in S}

Delete(c, ch) ==
  /\ Ready(c)
  /\ Exists(ch)
  /\ status' = [status EXCEPT ![ch] = "deleted"]
  /\ requests' = Touched(requests, ch)
  /\ UNCHANGED <<now, accountVars, channels>>

-----------------------------------------------------------------------------
(* Read, modify, write.                                                     *)

Blank(row, changes) ==    \* mutant: the row is built from the request alone
  [k \in Columns |-> IF k \in DOMAIN changes THEN changes[k]
                     ELSE IF k = "enabled" THEN FALSE ELSE row[k]]
Changed(row, changes) ==
  [k \in Columns |-> IF k \in DOMAIN changes THEN changes[k] ELSE row[k]]

Begin(c, op, pc, ch, changes, row) ==
  requests' = requests \cup
    {[client |-> c, op |-> op, pc |-> pc, channel |-> ch, changes |-> changes,
      row |-> row, overlapped |-> FALSE, outdated |-> FALSE]}

\* GetByID finds the row; the fields the body has are set in the copy.
Update(c, ch) ==
  /\ Ready(c)
  /\ Exists(ch)
  /\ \E changes \in Changes :
       Begin(c, "update", "writing", ch, changes, Changed(channels[ch], changes))
  /\ UNCHANGED <<now, accountVars, channels, status>>

\* The handler of the toggle reads `enabled`; Update is called with its opposite.
SwitchOn(row)  == [k \in {"enabled"} |-> TRUE]    \* mutant: what is read is not used
Switched(row) == [k \in {"enabled"} |-> ~row["enabled"]]
Toggle(c, ch) ==
  /\ Ready(c)
  /\ Exists(ch)
  /\ Begin(c, "toggle", "reading", ch, Switched(channels[ch]), NoRow)
  /\ UNCHANGED <<now, accountVars, channels, status>>

\* Update's own GetByID; without a row the toggle is over.
ReadAgain(q) ==
  /\ q.pc = "reading"
  /\ requests' = (requests \ {q}) \cup
       (IF Exists(q.channel)
        THEN {[q EXCEPT !.pc = "writing", !.outdated = FALSE,
                        !.row = Changed(channels[q.channel], q.changes)]}
        ELSE {})
  /\ UNCHANGED <<now, accountVars, channels, status>>

\* The UPDATE of all columns; a deleted row is matched by no id.
BroughtBack(ch) == [status EXCEPT ![ch] = "stored"]    \* mutant: INSERT ... ON CONFLICT
AfterWrite(ch) == status

Write(q) ==
  /\ q.pc = "writing"
  /\ channels' = [channels EXCEPT ![q.channel] = IF Exists(q.channel) THEN q.row ELSE @]
  /\ status' = AfterWrite(q.channel)
  /\ requests' = Touched(requests \ {q}, q.channel)
  /\ UNCHANGED <<now, accountVars>>

\* The client goes away or a statement fails.
Abandon(q) ==
  /\ requests' = requests \ {q}
  /\ UNCHANGED <<now, accountVars, channels, status>>

-----------------------------------------------------------------------------
ChannelsNext ==
  \/ AccountsNext /\ UNCHANGED <<channels, status, requests>>
  \/ \E c \in Clients, ch \in Channels :
       Create(c, ch) \/ Delete(c, ch) \/ Update(c, ch) \/ Toggle(c, ch)
  \/ \E q \in requests : ReadAgain(q) \/ Write(q) \/ Abandon(q)

ChannelsSpec == ChannelsInit /\ [][ChannelsNext]_webVars

-----------------------------------------------------------------------------
(* What the owner of a channel may rely on.                                 *)

\* The copy of a request is its row with its changes until somebody else writes the
\* row, and a toggle holds the opposite of what the row says until then.
CopyOK(q) ==
  /\ q.outdated => q.overlapped
  /\ q.pc = "writing" /\ ~q.outdated =>
       /\ Exists(q.channel)
       /\ \A k \in Columns \ DOMAIN q.changes : q.row[k] = channels[q.channel][k]
  /\ q.pc = "writing" => \A k \in DOMAIN q.changes : q.row[k] = q.changes[k]
  /\ q.op = "toggle" => DOMAIN q.changes = {"enabled"}
  /\ q.op = "toggle" /\ ~q.overlapped =>
       Exists(q.channel) /\ q.changes["enabled"] = ~channels[q.channel]["enabled"]

\* The requests in progress agree with the table as far as nobody has come between
\* (Update, ToggleChannel).
ChannelsInv == ChannelsTypeOK /\ \A q \in requests : CopyOK(q)

\* A write of q, and not its end without one.
Writes(q) == Write(q) /\ Exists(q.channel)

\* An edit changes the columns it names and no other, unless another request has
\* written the row between its read and its write: a channel that is off is not
\* switched on by a new name, nor the name put back by a toggle (Update,
\* ToggleChannel and the UPDATE of all columns).
EditsKeepOthers ==
  [][\A q \in requests : Writes(q) /\ ~q.outdated =>
       \A k \in Columns \ DOMAIN q.changes : channels'[q.channel][k] = channels[q.channel][k]]_webVars

\* A toggle that no other write overlaps turns the channel over (ToggleChannel reads
\* the row, and Update reads it again).
ToggleTurnsOver ==
  [][\A q \in requests : Writes(q) /\ q.op = "toggle" /\ ~q.overlapped =>
       channels'[q.channel]["enabled"] = ~channels[q.channel]["enabled"]]_webVars

\* No write that comes late brings a deleted channel back (Delete against Update).
DeletedForGood ==
  [][\A ch \in Channels : status[ch] = "deleted" => status'[ch] = "deleted"]_webVars
=============================================================================
