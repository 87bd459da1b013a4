------------------------------- MODULE Accounts -------------------------------
(****************************************************************************)
(* Accounts and sessions (internal/service/auth.go, the users table, and    *)
(* internal/handler/{auth,session,middleware}.go).  Registration hashes the *)
(* password, which takes its time, and inserts the account afterwards; a    *)
(* login answers with a token that names the account and when it expires.   *)
(* The server keeps no session: a client shows its token, as a cookie or as *)
(* a bearer token, with every request.                                      *)
(****************************************************************************)
EXTENDS Integers, FiniteSets

CONSTANTS
  Clients,     \* browsers and API clients
  Emails,
  Passwords,
  TokenTTL,    \* tokenTTL, MaxAge of the cookie
  Faults,      \* "users": a statement on the users table may fail
  MaxTime      \* bound: the clock stops here

ASSUME AccountsAssumption ==
  TokenTTL \in Nat \ {0} /\ MaxTime \in Nat /\ Faults \subseteq {"users"}

VARIABLES
  now,         \* the clock
  users,       \* the users table; a hash is identified with its password
  joining,     \* registrations between the hash and the INSERT
  accepted,    \* registrations answered with 201
  session      \* the token each client shows

accountVars == <<users, joining, accepted, session>>

Users    == [email : Emails, password : Passwords]
Joiners  == [client : Clients, account : Users]
NoToken  == [user |-> "none", exp |-> 0]
Tokens   == [user : Emails, exp : 0 .. MaxTime + TokenTTL]

AccountsTypeOK ==
  /\ now \in 0 .. MaxTime
  /\ users \subseteq Users
  /\ joining \subseteq Joiners
  /\ \A p, q \in joining : p.client = q.client => p = q
  /\ accepted \subseteq Users
  /\ session \in [Clients -> Tokens \cup {NoToken}]

AccountsInit ==
  /\ now = 0
  /\ users = {} /\ joining = {} /\ accepted = {}
  /\ session = [c \in Clients |-> NoToken]

-----------------------------------------------------------------------------
\* Register hashes the password; nobody looks whether the email is taken.
Register(c, account) ==
  /\ \A q \in joining : q.client # c
  /\ joining' = joining \cup {[client |-> c, account |-> account]}
  /\ UNCHANGED <<now, users, accepted, session>>

\* email TEXT NOT NULL UNIQUE
NotTheSame(account) == account \notin users    \* mutant: no UNIQUE
Free(account) == \A u \in users : u.email # account.email

Insert(q) ==
  /\ Free(q.account)
  /\ users' = users \cup {q.account}
  /\ joining' = joining \ {q}
  /\ accepted' = accepted \cup {q.account}
  /\ UNCHANGED <<now, session>>

\* Whatever the INSERT fails with is answered as a conflict.
RefuseAccount(q) ==
  /\ ~Free(q.account) \/ "users" \in Faults
  /\ joining' = joining \ {q}
  /\ UNCHANGED <<now, users, accepted, session>>

\* The row of the email has a hash the password matches.  Another login changes
\* nothing but the answer.
Issued(account) == [user |-> account.email, exp |-> now + TokenTTL]
Login(c, account) ==
  /\ account \in users
  /\ session' = [session EXCEPT ![c] = Issued(account)]
  /\ UNCHANGED <<now, users, joining, accepted>>

\* The browser drops the cookie; the token itself stays as valid as it was.
Logout(c) ==
  /\ session[c] # NoToken
  /\ session' = [session EXCEPT ![c] = NoToken]
  /\ UNCHANGED <<now, users, joining, accepted>>

\* What both middlewares let through, and for whom the handler then works.
Authenticated(c) == session[c] # NoToken /\ now < session[c].exp

Tick ==
  /\ now < MaxTime
  /\ now' = now + 1
  /\ UNCHANGED accountVars

AccountsNext ==
  \/ \E c \in Clients, account \in Users : Register(c, account) \/ Login(c, account)
  \/ \E q \in joining : Insert(q) \/ RefuseAccount(q)
  \/ (\E c \in Clients : Logout(c)) \/ Tick

-----------------------------------------------------------------------------
\* Who was told that the account is there keeps it: it stays, with the password it
\* was registered with, and nobody else gets the email, however many register it at
\* a time (Register against the UNIQUE column).
RegistrationHolds ==
  \A account \in accepted :
    account \in users /\ \A u \in users : u.email = account.email => u = account
=============================================================================
