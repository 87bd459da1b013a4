---------------------------- MODULE ChannelsProofs ----------------------------
(****************************************************************************)
(* The safety of accounts and channels for every set of clients, emails,    *)
(* passwords, channels and names, and every time to live.                   *)
(****************************************************************************)
EXTENDS Channels, TLAPS

-----------------------------------------------------------------------------
(* Accounts.                                                                *)

LEMMA AccountsTyped ==
  ASSUME AccountsTypeOK, [AccountsNext]_<<now, accountVars>>
  PROVE  AccountsTypeOK'
  <1>1. ASSUME NEW c \in Clients, NEW account \in Users, Register(c, account)
        PROVE  AccountsTypeOK'
    BY <1>1 DEF AccountsTypeOK, Register, Joiners
  <1>2. ASSUME NEW c \in Clients, NEW account \in Users, Login(c, account)
        PROVE  AccountsTypeOK'
    <2>1. Issued(account) \in Tokens
      BY <1>2, AccountsAssumption DEF AccountsTypeOK, Issued, Tokens, Users
    <2>2. QED
      BY <1>2, <2>1 DEF AccountsTypeOK, Login
  <1>3. ASSUME NEW q \in joining, Insert(q) \/ RefuseAccount(q)
        PROVE  AccountsTypeOK'
    <2>1. q.account \in Users
      BY DEF AccountsTypeOK, Joiners
    <2>2. QED
      BY <1>3, <2>1 DEF AccountsTypeOK, Insert, RefuseAccount
  <1>4. ASSUME NEW c \in Clients, Logout(c)
        PROVE  AccountsTypeOK'
    BY <1>4 DEF AccountsTypeOK, Logout
  <1>5. CASE Tick
    BY <1>5, AccountsAssumption DEF AccountsTypeOK, Tick, accountVars
  <1>6. CASE UNCHANGED <<now, accountVars>>
    BY <1>6 DEF AccountsTypeOK, accountVars
  <1>7. QED
    BY <1>1, <1>2, <1>3, <1>4, <1>5, <1>6 DEF AccountsNext

\* The table holds one account for each email, and every account accepted.
OneEach == \A u, v \in users : u.email = v.email => u = v
AccountsHold == OneEach /\ accepted \subseteq users

LEMMA AccountsKept ==
  ASSUME AccountsHold, [AccountsNext]_<<now, accountVars>>
  PROVE  AccountsHold'
  <1>1. ASSUME NEW q \in joining, Insert(q)
        PROVE  AccountsHold'
    BY <1>1 DEF AccountsHold, OneEach, Insert, Free
  <1>2. CASE UNCHANGED <<users, accepted>>
    BY <1>2 DEF AccountsHold, OneEach
  <1>3. QED
    BY <1>1, <1>2 DEF AccountsNext, Register, Login, RefuseAccount, Logout, Tick, accountVars

-----------------------------------------------------------------------------
(* Rows and changes.                                                        *)

LEMMA NoRowType == NoRow \in Rows
  <1>1. \E row \in Rows : TRUE
    <2>1. PICK n \in Names : TRUE
      BY ChannelsAssumption
    <2>2. [name |-> n, enabled |-> TRUE] \in Rows
      BY <2>1 DEF Rows
    <2>3. QED
      BY <2>2
  <1>2. QED
    BY <1>1 DEF NoRow

LEMMA RowValues ==
  ASSUME NEW row \in Rows
  PROVE  /\ row["name"] \in Names /\ row["enabled"] \in BOOLEAN
         /\ DOMAIN row = Columns
  BY DEF Rows, Columns

LEMMA RowFromColumns ==
  ASSUME NEW a \in Names, NEW b \in BOOLEAN, NEW f, f = [k \in Columns |-> IF k = "name" THEN a ELSE b]
  PROVE  f \in Rows
  <1>1. f = [name |-> a, enabled |-> b]
    BY DEF Columns
  <1>2. QED
    BY <1>1 DEF Rows

LEMMA ChangesValues ==
  ASSUME NEW changes \in Changes
  PROVE  /\ DOMAIN changes \subseteq Columns
         /\ "name" \in DOMAIN changes => changes["name"] \in Names
         /\ "enabled" \in DOMAIN changes => changes["enabled"] \in BOOLEAN
  <1>1. PICK row \in Rows, S \in SUBSET Columns : changes = Restrict(row, S)
    BY DEF Changes
  <1>2. DOMAIN changes = S /\ \A k \in S : changes[k] = row[k]
    BY <1>1 DEF Restrict
  <1>3. QED
    BY <1>1, <1>2, RowValues

LEMMA ChangedType ==
  ASSUME NEW row \in Rows, NEW changes \in Changes
  PROVE  /\ Changed(row, changes) \in Rows
         /\ \A k \in Columns \ DOMAIN changes : Changed(row, changes)[k] = row[k]
         /\ \A k \in DOMAIN changes : Changed(row, changes)[k] = changes[k]
  <1> DEFINE a == IF "name" \in DOMAIN changes THEN changes["name"] ELSE row["name"]
             b == IF "enabled" \in DOMAIN changes THEN changes["enabled"] ELSE row["enabled"]
  <1>1. a \in Names
    BY RowValues, ChangesValues
  <1>2. b \in BOOLEAN
    BY RowValues, ChangesValues
  <1>3. Changed(row, changes) = [k \in Columns |-> IF k = "name" THEN a ELSE b]
    BY DEF Changed, Columns
  <1> HIDE DEF a, b
  <1>4. Changed(row, changes) \in Rows
    BY <1>1, <1>2, <1>3, RowFromColumns
  <1>5. /\ \A k \in Columns \ DOMAIN changes : Changed(row, changes)[k] = row[k]
        /\ \A k \in DOMAIN changes : Changed(row, changes)[k] = changes[k]
    BY ChangesValues DEF Changed
  <1>6. QED
    BY <1>4, <1>5

LEMMA SwitchedType ==
  ASSUME NEW row \in Rows
  PROVE  /\ Switched(row) \in Changes
         /\ DOMAIN Switched(row) = {"enabled"}
         /\ Switched(row)["enabled"] = ~row["enabled"]
  <1> DEFINE b == ~row["enabled"]
             other == [name |-> row["name"], enabled |-> b]
  <1>1. b \in BOOLEAN
    BY RowValues
  <1>2. other \in Rows
    BY <1>1, RowValues DEF Rows
  <1>3. Switched(row) = [k \in {"enabled"} |-> b]
    BY DEF Switched
  <1>4. other["enabled"] = b
    OBVIOUS
  <1> HIDE DEF b, other
  <1>5. Switched(row) = Restrict(other, {"enabled"})
    BY <1>3, <1>4 DEF Restrict
  <1>6. Switched(row) \in Changes
    BY <1>2, <1>5 DEF Changes, Columns
  <1>7. DOMAIN Switched(row) = {"enabled"} /\ Switched(row)["enabled"] = b
    BY <1>3
  <1>8. QED
    BY <1>6, <1>7 DEF b

-----------------------------------------------------------------------------
(* Requests.                                                                *)

\* A request that begins is of its client alone, and its copy is fresh.
LEMMA BegunRequest ==
  ASSUME ChannelsInv, NEW c \in Clients, NEW ch \in Channels, Ready(c),
         NEW op \in {"update", "toggle"}, NEW pc \in {"reading", "writing"},
         NEW changes \in Changes, NEW row \in Rows,
         Begin(c, op, pc, ch, changes, row), UNCHANGED <<now, accountVars, channels, status>>,
         Exists(ch), pc = "writing" => op = "update" /\ row = Changed(channels[ch], changes),
         op = "toggle" => changes = Switched(channels[ch])
  PROVE  ChannelsInv'
  <1> DEFINE q == [client |-> c, op |-> op, pc |-> pc, channel |-> ch, changes |-> changes,
                   row |-> row, overlapped |-> FALSE, outdated |-> FALSE]
  <1>1. requests' = requests \cup {q}
    BY DEF Begin
  <1>2. channels[ch] \in Rows
    BY DEF ChannelsInv, ChannelsTypeOK
  <1>3. q \in Requests
    BY DEF Requests
  <1>4. /\ q.client = c /\ q.op = op /\ q.pc = pc /\ q.channel = ch /\ q.changes = changes
        /\ q.row = row /\ q.overlapped = FALSE /\ q.outdated = FALSE
    OBVIOUS
  <1> HIDE DEF q
  <1>5. \A p \in requests : p.client # q.client
    BY <1>4 DEF Ready
  <1>6. AccountsTypeOK'
    BY DEF ChannelsInv, ChannelsTypeOK, AccountsTypeOK, accountVars
  <1>7. ChannelsTypeOK'
    BY <1>1, <1>3, <1>5, <1>6 DEF ChannelsInv, ChannelsTypeOK
  <1>8. CopyOK(q)'
    <2>1. q.outdated => q.overlapped
      BY <1>4
    <2>2. q.pc = "writing" /\ ~q.outdated =>
            /\ Exists(q.channel)
            /\ \A k \in Columns \ DOMAIN q.changes : q.row[k] = channels[q.channel][k]
      BY <1>2, <1>4, ChangedType
    <2>3. q.pc = "writing" => \A k \in DOMAIN q.changes : q.row[k] = q.changes[k]
      BY <1>2, <1>4, ChangedType
    <2>4. q.op = "toggle" => DOMAIN q.changes = {"enabled"}
      BY <1>2, <1>4, SwitchedType
    <2>5. q.op = "toggle" /\ ~q.overlapped =>
            Exists(q.channel) /\ q.changes["enabled"] = ~channels[q.channel]["enabled"]
      BY <1>2, <1>4, SwitchedType
    <2>6. CopyOK(q)
      BY <2>1, <2>2, <2>3, <2>4, <2>5 DEF CopyOK
    <2>7. QED
      BY <2>6 DEF CopyOK, Exists
  <1>9. \A p \in requests : CopyOK(p)'
    BY DEF ChannelsInv, CopyOK, Exists
  <1>10. QED
    BY <1>1, <1>7, <1>8, <1>9 DEF ChannelsInv
\* A request marked by a write of channel ch.
Marked(q, ch) ==
  IF q.channel = ch THEN [q EXCEPT !.overlapped = TRUE, !.outdated = TRUE] ELSE q

\* A mark changes what a request remembers of the table, and nothing else.
SameButMarked(p, q, ch) ==
  /\ p.client = q.client /\ p.op = q.op /\ p.pc = q.pc /\ p.channel = q.channel
  /\ p.changes = q.changes /\ p.row = q.row
  /\ q.channel = ch => p.overlapped = TRUE /\ p.outdated = TRUE
  /\ q.channel # ch => p = q

LEMMA MarkedRequest ==
  ASSUME NEW q \in Requests, NEW ch
  PROVE  Marked(q, ch) \in Requests /\ SameButMarked(Marked(q, ch), q, ch)
  <1>1. CASE q.channel = ch
    <2> DEFINE p == [q EXCEPT !.overlapped = TRUE, !.outdated = TRUE]
    <2>1. /\ p \in Requests
          /\ p.client = q.client /\ p.op = q.op /\ p.pc = q.pc /\ p.channel = q.channel
          /\ p.changes = q.changes /\ p.row = q.row /\ p.overlapped = TRUE /\ p.outdated = TRUE
      BY DEF Requests
    <2>2. Marked(q, ch) = p
      BY <1>1 DEF Marked
    <2> HIDE DEF p
    <2>3. QED
      BY <1>1, <2>1, <2>2 DEF SameButMarked
  <1>2. CASE q.channel # ch
    BY <1>2 DEF Marked, SameButMarked
  <1>3. QED
    BY <1>1, <1>2

LEMMA TouchedMarks ==
  ASSUME NEW S, NEW ch
  PROVE  Touched(S, ch) = {Marked(q, ch) : q \in S}
  BY DEF Touched, Marked

\* Marking requests keeps one for each client.
LEMMA TouchedType ==
  ASSUME NEW S \in SUBSET Requests, NEW ch,
         \A p, q \in S : p.client = q.client => p = q
  PROVE  /\ Touched(S, ch) \subseteq Requests
         /\ \A p, q \in Touched(S, ch) : p.client = q.client => p = q
  <1>1. Touched(S, ch) \subseteq Requests
    BY TouchedMarks, MarkedRequest
  <1>2. ASSUME NEW p \in Touched(S, ch), NEW q \in Touched(S, ch), p.client = q.client
        PROVE  p = q
    <2>1. PICK p0 \in S : p = Marked(p0, ch)
      BY TouchedMarks
    <2>2. PICK q0 \in S : q = Marked(q0, ch)
      BY TouchedMarks
    <2>3. p.client = p0.client /\ q.client = q0.client
      BY <2>1, <2>2, MarkedRequest DEF SameButMarked
    <2>4. p0 = q0
      BY <1>2, <2>3
    <2>5. QED
      BY <2>1, <2>2, <2>4
  <1>3. QED
    BY <1>1, <1>2

\* After a write of channel ch the requests for it are marked and the others see the
\* row they saw.
LEMMA CopyAfterTouch ==
  ASSUME NEW S \in SUBSET Requests, NEW ch, NEW p \in Touched(S, ch),
         \A q \in S : CopyOK(q),
         \A d \in Channels \ {ch} : channels'[d] = channels[d] /\ status'[d] = status[d]
  PROVE  CopyOK(p)'
  <1>1. PICK q \in S : SameButMarked(p, q, ch)
    BY TouchedMarks, MarkedRequest
  <1>2. CopyOK(q) /\ q.channel \in Channels
    BY DEF Requests
  <1>3. CASE q.channel = ch
    BY <1>1, <1>2, <1>3 DEF CopyOK, SameButMarked
  <1>4. CASE q.channel # ch
    BY <1>1, <1>2, <1>4 DEF CopyOK, Exists, SameButMarked
  <1>5. QED
    BY <1>3, <1>4

LEMMA ReadAgainKeeps ==
  ASSUME ChannelsInv, NEW q \in requests, ReadAgain(q)
  PROVE  ChannelsInv'
  <1>0. PICK p : p = [q EXCEPT !.pc = "writing", !.outdated = FALSE,
                               !.row = Changed(channels[q.channel], q.changes)]
    OBVIOUS
  <1>1. /\ q \in Requests /\ q.channel \in Channels /\ q.changes \in Changes
        /\ channels[q.channel] \in Rows /\ CopyOK(q)
    BY DEF ChannelsInv, ChannelsTypeOK, Requests
  <1>2. Changed(channels[q.channel], q.changes) \in Rows
    BY <1>1, ChangedType
  <1>3. p \in Requests
    BY <1>0, <1>1, <1>2 DEF Requests
  <1>4. /\ p.client = q.client /\ p.op = q.op /\ p.pc = "writing" /\ p.channel = q.channel
        /\ p.changes = q.changes /\ p.row = Changed(channels[q.channel], q.changes)
        /\ p.overlapped = q.overlapped /\ p.outdated = FALSE
    BY <1>0, <1>1 DEF Requests
  <1>5. requests' = IF Exists(q.channel) THEN (requests \ {q}) \cup {p} ELSE requests \ {q}
    BY <1>0 DEF ReadAgain
  <1>6. AccountsTypeOK'
    BY DEF ChannelsInv, ChannelsTypeOK, AccountsTypeOK, accountVars, ReadAgain
  <1>7. ChannelsTypeOK'
    BY <1>3, <1>4, <1>5, <1>6 DEF ChannelsInv, ChannelsTypeOK, ReadAgain
  <1>8. ASSUME Exists(q.channel)
        PROVE  CopyOK(p)'
    <2>1. \A k \in Columns \ DOMAIN p.changes : p.row[k] = channels[p.channel][k]
      BY <1>1, <1>4, ChangedType
    <2>2. \A k \in DOMAIN p.changes : p.row[k] = p.changes[k]
      BY <1>1, <1>4, ChangedType
    <2>3. p.op = "toggle" => DOMAIN p.changes = {"enabled"}
      BY <1>1, <1>4 DEF CopyOK
    <2>4. p.op = "toggle" /\ ~p.overlapped => p.changes["enabled"] = ~channels[p.channel]["enabled"]
      BY <1>1, <1>4 DEF CopyOK
    <2>5. CopyOK(p)
      BY <1>4, <1>8, <2>1, <2>2, <2>3, <2>4 DEF CopyOK
    <2>6. QED
      BY <2>5 DEF CopyOK, Exists, ReadAgain
  <1>9. \A r \in requests : CopyOK(r)'
    BY DEF ChannelsInv, CopyOK, Exists, ReadAgain
  <1>10. \A r \in requests' : CopyOK(r)'
    BY <1>5, <1>8, <1>9
  <1>11. QED
    BY <1>7, <1>10 DEF ChannelsInv

LEMMA WriteKeeps ==
  ASSUME ChannelsInv, NEW q \in requests, Write(q)
  PROVE  ChannelsInv'
  <1>1. /\ q.channel \in Channels /\ q.row \in Rows
        /\ requests \ {q} \in SUBSET Requests
        /\ \A p, r \in requests \ {q} : p.client = r.client => p = r
    BY DEF ChannelsInv, ChannelsTypeOK, Requests
  <1>2. requests' = Touched(requests \ {q}, q.channel)
    BY DEF Write
  <1>3. AccountsTypeOK'
    BY DEF ChannelsInv, ChannelsTypeOK, AccountsTypeOK, accountVars, Write
  <1>4. channels' \in [Channels -> Rows] /\ status' = status
    BY <1>1 DEF ChannelsInv, ChannelsTypeOK, Write, AfterWrite
  <1>5. ChannelsTypeOK'
    BY <1>1, <1>2, <1>3, <1>4, TouchedType DEF ChannelsInv, ChannelsTypeOK
  <1>6. \A d \in Channels \ {q.channel} : channels'[d] = channels[d] /\ status'[d] = status[d]
    BY <1>4 DEF ChannelsInv, ChannelsTypeOK, Write
  <1>7. \A p \in requests' : CopyOK(p)'
    BY <1>1, <1>2, <1>6, CopyAfterTouch DEF ChannelsInv
  <1>8. QED
    BY <1>5, <1>7 DEF ChannelsInv

LEMMA DeleteKeeps ==
  ASSUME ChannelsInv, NEW c \in Clients, NEW ch \in Channels, Delete(c, ch)
  PROVE  ChannelsInv'
  <1>1. /\ requests \in SUBSET Requests
        /\ \A p, q \in requests : p.client = q.client => p = q
    BY DEF ChannelsInv, ChannelsTypeOK
  <1>2. requests' = Touched(requests, ch)
    BY DEF Delete
  <1>3. AccountsTypeOK'
    BY DEF ChannelsInv, ChannelsTypeOK, AccountsTypeOK, accountVars, Delete
  <1>4. status' \in [Channels -> {"uncreated", "stored", "deleted"}] /\ channels' = channels
    BY DEF ChannelsInv, ChannelsTypeOK, Delete
  <1>5. ChannelsTypeOK'
    BY <1>1, <1>2, <1>3, <1>4, TouchedType DEF ChannelsInv, ChannelsTypeOK
  <1>6. \A d \in Channels \ {ch} : channels'[d] = channels[d] /\ status'[d] = status[d]
    BY <1>4 DEF ChannelsInv, ChannelsTypeOK, Delete
  <1>7. \A p \in requests' : CopyOK(p)'
    BY <1>1, <1>2, <1>6, CopyAfterTouch DEF ChannelsInv
  <1>8. QED
    BY <1>5, <1>7 DEF ChannelsInv

\* The new row is of a channel no request is about with an up-to-date copy.
LEMMA CreateKeeps ==
  ASSUME ChannelsInv, NEW c \in Clients, NEW ch \in Channels, Create(c, ch)
  PROVE  ChannelsInv'
  <1>1. AccountsTypeOK'
    BY DEF ChannelsInv, ChannelsTypeOK, AccountsTypeOK, accountVars, Create
  <1>2. /\ status' \in [Channels -> {"uncreated", "stored", "deleted"}]
        /\ channels' \in [Channels -> Rows] /\ requests' = requests
    BY DEF ChannelsInv, ChannelsTypeOK, Create
  <1>3. ChannelsTypeOK'
    BY <1>1, <1>2 DEF ChannelsInv, ChannelsTypeOK
  <1>4. ASSUME NEW q \in requests
        PROVE  CopyOK(q)'
    <2>1. CopyOK(q) /\ q.channel \in Channels
      BY DEF ChannelsInv, ChannelsTypeOK, Requests
    <2>2. CASE q.channel = ch
      <3>1. ~Exists(ch)
        BY DEF Create, Exists
      <3>2. (q.pc = "writing" => q.outdated) /\ (q.op = "toggle" => q.overlapped)
        BY <2>1, <2>2, <3>1 DEF CopyOK
      <3>3. QED
        BY <2>1, <3>2 DEF CopyOK
    <2>3. CASE q.channel # ch
      <3>1. channels'[q.channel] = channels[q.channel] /\ status'[q.channel] = status[q.channel]
        BY <2>1, <2>3 DEF Create, ChannelsInv, ChannelsTypeOK
      <3>2. QED
        BY <2>1, <3>1 DEF CopyOK, Exists
    <2>4. QED
      BY <2>2, <2>3
  <1>5. QED
    BY <1>2, <1>3, <1>4 DEF ChannelsInv
-----------------------------------------------------------------------------
(* The steps.                                                               *)

LEMMA UpdateKeeps ==
  ASSUME ChannelsInv, NEW c \in Clients, NEW ch \in Channels, Update(c, ch)
  PROVE  ChannelsInv'
  <1>1. PICK changes \in Changes :
          Begin(c, "update", "writing", ch, changes, Changed(channels[ch], changes))
    BY DEF Update
  <1>2. channels[ch] \in Rows
    BY DEF ChannelsInv, ChannelsTypeOK
  <1>3. PICK row : row = Changed(channels[ch], changes)
    OBVIOUS
  <1>4. row \in Rows
    BY <1>2, <1>3, ChangedType
  <1>5. Ready(c) /\ Exists(ch) /\ UNCHANGED <<now, accountVars, channels, status>>
    BY DEF Update
  <1>6. QED
    BY <1>1, <1>3, <1>4, <1>5, BegunRequest

LEMMA ToggleKeeps ==
  ASSUME ChannelsInv, NEW c \in Clients, NEW ch \in Channels, Toggle(c, ch)
  PROVE  ChannelsInv'
  <1>1. channels[ch] \in Rows
    BY DEF ChannelsInv, ChannelsTypeOK
  <1>2. PICK changes : changes = Switched(channels[ch])
    OBVIOUS
  <1>3. changes \in Changes
    BY <1>1, <1>2, SwitchedType
  <1>4. /\ Begin(c, "toggle", "reading", ch, changes, NoRow)
        /\ Ready(c) /\ Exists(ch) /\ UNCHANGED <<now, accountVars, channels, status>>
    BY <1>2 DEF Toggle
  <1>5. QED
    BY <1>2, <1>3, <1>4, NoRowType, BegunRequest

LEMMA AbandonKeeps ==
  ASSUME ChannelsInv, NEW q \in requests, Abandon(q)
  PROVE  ChannelsInv'
  <1>1. AccountsTypeOK'
    BY DEF ChannelsInv, ChannelsTypeOK, AccountsTypeOK, accountVars, Abandon
  <1>2. ChannelsTypeOK'
    BY <1>1 DEF ChannelsInv, ChannelsTypeOK, Abandon
  <1>3. \A r \in requests : CopyOK(r)'
    BY DEF ChannelsInv, CopyOK, Exists, Abandon
  <1>4. QED
    BY <1>2, <1>3 DEF ChannelsInv, Abandon

\* A step of the accounts, or none.
LEMMA OthersKeep ==
  ASSUME ChannelsInv, [AccountsNext]_<<now, accountVars>>, UNCHANGED <<channels, status, requests>>
  PROVE  ChannelsInv'
  <1>1. AccountsTypeOK'
    BY AccountsTyped DEF ChannelsInv, ChannelsTypeOK
  <1>2. ChannelsTypeOK'
    BY <1>1 DEF ChannelsInv, ChannelsTypeOK
  <1>3. \A r \in requests : CopyOK(r)'
    BY DEF ChannelsInv, CopyOK, Exists
  <1>4. QED
    BY <1>2, <1>3 DEF ChannelsInv

LEMMA ChannelsInvStep == ChannelsInv /\ [ChannelsNext]_webVars => ChannelsInv'
  <1> SUFFICES ASSUME ChannelsInv, [ChannelsNext]_webVars
               PROVE  ChannelsInv'
    OBVIOUS
  <1>1. CASE AccountsNext /\ UNCHANGED <<channels, status, requests>>
    BY <1>1, OthersKeep
  <1>2. ASSUME NEW c \in Clients, NEW ch \in Channels,
               Create(c, ch) \/ Delete(c, ch) \/ Update(c, ch) \/ Toggle(c, ch)
        PROVE  ChannelsInv'
    BY <1>2, CreateKeeps, DeleteKeeps, UpdateKeeps, ToggleKeeps
  <1>3. ASSUME NEW q \in requests, ReadAgain(q) \/ Write(q) \/ Abandon(q)
        PROVE  ChannelsInv'
    BY <1>3, ReadAgainKeeps, WriteKeeps, AbandonKeeps
  <1>4. CASE UNCHANGED webVars
    BY <1>4, OthersKeep DEF webVars
  <1>5. QED
    BY <1>1, <1>2, <1>3, <1>4 DEF ChannelsNext

LEMMA ChannelsInvInit == ChannelsInit => ChannelsInv
  <1> SUFFICES ASSUME ChannelsInit
               PROVE  ChannelsInv
    OBVIOUS
  <1>1. AccountsTypeOK
    BY AccountsAssumption DEF ChannelsInit, AccountsInit, AccountsTypeOK
  <1>2. channels \in [Channels -> Rows]
    BY NoRowType DEF ChannelsInit
  <1>3. QED
    BY <1>1, <1>2 DEF ChannelsInit, ChannelsInv, ChannelsTypeOK

\* The steps of the channels leave the accounts as they are.
LEMMA AccountsStep == AccountsHold /\ [ChannelsNext]_webVars => AccountsHold'
  <1> SUFFICES ASSUME AccountsHold, [ChannelsNext]_webVars
               PROVE  AccountsHold'
    OBVIOUS
  <1>1. CASE AccountsNext /\ UNCHANGED <<channels, status, requests>>
    BY <1>1, AccountsKept
  <1>2. CASE UNCHANGED <<now, accountVars>>
    BY <1>2, AccountsKept
  <1>3. QED
    BY <1>1, <1>2 DEF ChannelsNext, Create, Delete, Update, Toggle, ReadAgain, Write, Abandon, webVars

-----------------------------------------------------------------------------
(* What holds of every run of the service.                                  *)

\* The requests in progress agree with the table in every state: where no write has
\* come since its read, the copy of a request is the row with its changes, and a
\* toggle holds the opposite of what the row says.
THEOREM CopiesAreFresh == ChannelsSpec => []ChannelsInv
  BY ChannelsInvInit, ChannelsInvStep, PTL DEF ChannelsSpec

\* An account that was answered with 201 stays, with its password, and is the only
\* one of its email (Register against the UNIQUE column).
THEOREM AccountsAreKept == ChannelsSpec => []RegistrationHolds
  <1>1. ChannelsInit => AccountsHold
    BY DEF ChannelsInit, AccountsInit, AccountsHold, OneEach
  <1>2. AccountsHold => RegistrationHolds
    BY DEF AccountsHold, OneEach, RegistrationHolds
  <1>3. QED
    BY <1>1, <1>2, AccountsStep, PTL DEF ChannelsSpec

LEMMA WrittenRow ==
  ASSUME ChannelsInv, NEW q \in requests, Writes(q)
  PROVE  channels'[q.channel] = q.row /\ CopyOK(q) /\ q.pc = "writing"
  <1>1. q.channel \in Channels
    BY DEF ChannelsInv, ChannelsTypeOK, Requests
  <1>2. QED
    BY <1>1 DEF Writes, Write, ChannelsInv, ChannelsTypeOK

\* An edit that no write of another request has overtaken changes no column but
\* those it names (Update and the UPDATE of all columns).
THEOREM OtherColumnsStay == ChannelsSpec => EditsKeepOthers
  <1>1. ASSUME ChannelsInv, NEW q \in requests, Writes(q), ~q.outdated,
               NEW k \in Columns \ DOMAIN q.changes
        PROVE  channels'[q.channel][k] = channels[q.channel][k]
    BY <1>1, WrittenRow DEF CopyOK
  <1>2. ChannelsInv => \A q \in requests : Writes(q) /\ ~q.outdated =>
          \A k \in Columns \ DOMAIN q.changes : channels'[q.channel][k] = channels[q.channel][k]
    BY <1>1
  <1>3. QED
    BY <1>2, CopiesAreFresh, PTL DEF EditsKeepOthers

\* A toggle that no other write overlaps turns the channel over (ToggleChannel).
THEOREM ToggleIsATurn == ChannelsSpec => ToggleTurnsOver
  <1>1. ASSUME ChannelsInv, NEW q \in requests, Writes(q), q.op = "toggle", ~q.overlapped
        PROVE  channels'[q.channel]["enabled"] = ~channels[q.channel]["enabled"]
    <2>1. channels'[q.channel] = q.row /\ CopyOK(q) /\ q.pc = "writing"
      BY <1>1, WrittenRow
    <2>2. q.row["enabled"] = q.changes["enabled"]
      BY <1>1, <2>1 DEF CopyOK
    <2>3. q.changes["enabled"] = ~channels[q.channel]["enabled"]
      BY <1>1, <2>1 DEF CopyOK
    <2>4. QED
      BY <2>1, <2>2, <2>3
  <1>2. ChannelsInv => \A q \in requests : Writes(q) /\ q.op = "toggle" /\ ~q.overlapped =>
          channels'[q.channel]["enabled"] = ~channels[q.channel]["enabled"]
    BY <1>1
  <1>3. QED
    BY <1>2, CopiesAreFresh, PTL DEF ToggleTurnsOver

\* A deleted channel stays deleted, whatever is in progress when it goes.
THEOREM NoneComesBack == ChannelsSpec => DeletedForGood
  <1>1. ASSUME ChannelsInv, [ChannelsNext]_webVars, NEW ch \in Channels, status[ch] = "deleted"
        PROVE  status'[ch] = "deleted"
    <2>1. CASE UNCHANGED status
      BY <1>1, <2>1
    <2>2. ASSUME NEW c \in Clients, NEW d \in Channels, Create(c, d)
          PROVE  status'[ch] = "deleted"
      BY <1>1, <2>2 DEF Create, ChannelsInv, ChannelsTypeOK
    <2>3. ASSUME NEW c \in Clients, NEW d \in Channels, Delete(c, d)
          PROVE  status'[ch] = "deleted"
      BY <1>1, <2>3 DEF Delete, Exists, ChannelsInv, ChannelsTypeOK
    <2>4. QED
      BY <1>1, <2>1, <2>2, <2>3
         DEF ChannelsNext, Update, Toggle, ReadAgain, Write, AfterWrite, Abandon, webVars
  <1>2. ChannelsInv /\ [ChannelsNext]_webVars =>
          \A ch \in Channels : status[ch] = "deleted" => status'[ch] = "deleted"
    BY <1>1
  <1>3. QED
    BY <1>2, CopiesAreFresh, PTL DEF ChannelsSpec, DeletedForGood
=============================================================================
