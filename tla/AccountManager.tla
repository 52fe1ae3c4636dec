--------------------------- MODULE AccountManager ---------------------------
(***************************************************************************)
(* account-manager-py: the handlers of main.py, which FastAPI runs in the    *)
(* threads of a pool, on one PostgreSQL cursor that all of them share and on  *)
(* the sessions in Redis.  A statement, a fetch and a Redis command are one   *)
(* step each.  A row of users is known by its place, which stands for its    *)
(* id; the token of a user is made of that row and nothing else, so the      *)
(* place stands for the token too.                                          *)
(***************************************************************************)
EXTENDS Naturals, Sequences, FiniteSets

CONSTANTS Requests,    \* the requests that clients will make
          Logins, Passwords,
          Registered,  \* the table of an earlier run, as a sequence of rows
          NoRequest

Rows == [login: Logins, password: Passwords, by: Requests \cup {NoRequest}]
ASSUME RequestsAssumption == IsFiniteSet(Requests) /\ NoRequest \notin Requests
ASSUME RegisteredAssumption == Registered \in Seq({x \in Rows : x.by = NoRequest})

VARIABLES
  users,     \* the table users; "by" is history: the request that inserted the row
  cursor,    \* the rows that the shared cursor still has, or NoResult
  connected, \* whether the one connection to PostgreSQL still works
  sessions,  \* sessions[t]: the user id that Redis has for token t, or 0
  req, pc,   \* what request r asks for and where its handler is
  row, token,  \* the ids in its variables user_id and token_, or 0
  reply,     \* reply[r]: the status code, or 0
  before, alone  \* history: the length of users when r came, and whether the
                 \* database worked and no other request was handled while r was

tables == <<users, cursor, sessions, connected>>
history == <<before, alone>>
vars == <<tables, req, pc, row, token, reply, history>>

NoResult == {0}
Ids == 1..(Len(Registered) + Cardinality(Requests))
\* fits: the login, the password and the info of a register are what the columns
\* take, neither NULL nor longer than their 32, 32 and 100 characters.
Calls == [op: {"register"}, login: Logins, password: Passwords, fits: BOOLEAN, token: {0}]
         \cup [op: {"login"}, login: Logins, password: Passwords, fits: {TRUE}, token: {0}]
         \cup [op: {"logout", "me"}, login: {NoRequest}, password: {NoRequest}, fits: {TRUE},
               token: Ids \cup {0}]

Init ==
  /\ users = Registered
  /\ cursor = NoResult
  /\ sessions = [t \in Ids |-> 0] /\ connected = TRUE
  /\ req \in [Requests -> Calls]
  /\ pc = [r \in Requests |-> "away"]
  /\ row = [r \in Requests |-> 0] /\ token = [r \in Requests |-> 0]
  /\ reply = [r \in Requests |-> 0]
  /\ before = [r \in Requests |-> 0] /\ alone = [r \in Requests |-> TRUE]

-----------------------------------------------------------------------------
Busy == {r \in Requests : pc[r] \notin {"away", "done"}}

\* A request comes and a thread of the pool takes it.
Call(r) ==
  /\ pc[r] = "away"
  /\ pc' = [pc EXCEPT ![r] = req[r].op]
  /\ before' = [before EXCEPT ![r] = Len(users)]
  /\ alone' = [q \in Requests |-> IF q = r THEN Busy = {} /\ connected
                                  ELSE alone[q] /\ q \notin Busy]
  /\ UNCHANGED <<tables, req, row, token, reply>>

Goto(r, label) == pc' = [pc EXCEPT ![r] = label] /\ UNCHANGED <<reply, req, history>>
Answer(r, code) == /\ pc' = [pc EXCEPT ![r] = "done"]
                   /\ reply' = [reply EXCEPT ![r] = code]
                   /\ UNCHANGED <<req, history>>

\* The log of main.py is the function logging.log, which has no "info": every
\* handler that gets there ends with an AttributeError, which is a 500.
LogInfo(r) == Answer(r, 500)

\* SELECT has no ORDER BY: rows come in any order.
Select(ids) == connected /\ cursor' = ids /\ UNCHANGED <<users, sessions, connected>>
WithLogin(login) == {i \in 1..Len(users) : users[i].login = login}

\* fetchone: a row of the last statement on the cursor, whoever made it; None
\* (0) when none is left; an exception when that statement was no query, and
\* once the connection is known to be lost.
FetchOne(i) ==
  /\ cursor # NoResult
  /\ IF cursor = {} THEN i = 0 ELSE i \in cursor
  /\ cursor' = cursor \ {i}
  /\ UNCHANGED <<users, sessions, connected>>
FetchFails == (cursor = NoResult \/ ~connected) /\ UNCHANGED tables

-----------------------------------------------------------------------------
\* register.  The operators whose names end in Bug are mistakes the code could
\* have made in the definition that follows them; no specification uses them.

RegisterSelect(r) ==
  /\ pc[r] = "register"
  /\ Select(WithLogin(req[r].login))
  /\ Goto(r, "fetch_login") /\ UNCHANGED <<row, token>>

InvertedBug(i) == i # 0
IsFree(i) == i = 0

RegisterFetch(r) ==
  /\ pc[r] = "fetch_login"
  /\ \/ FetchFails /\ Answer(r, 500)
     \/ \E i \in Ids \cup {0} :
          FetchOne(i) /\ IF IsFree(i) THEN Goto(r, "insert") ELSE LogInfo(r)
  /\ UNCHANGED <<row, token>>

NewRow(r) == [login |-> req[r].login, password |-> req[r].password, by |-> r]

\* An INSERT that the table refuses raises, which nothing catches: a 500 as well.
\* With autocommit it leaves no transaction open.
Insert(r) ==
  /\ pc[r] = "insert" /\ connected
  /\ \/ req[r].fits /\ users' = Append(users, NewRow(r)) /\ LogInfo(r)
     \/ ~req[r].fits /\ UNCHANGED users /\ Answer(r, 500)
  /\ cursor' = NoResult
  /\ UNCHANGED <<sessions, connected, row, token>>

-----------------------------------------------------------------------------
\* login

LoginSelect(r) ==
  /\ pc[r] = "login"
  /\ Select(WithLogin(req[r].login))
  /\ Goto(r, "fetch_password") /\ UNCHANGED <<row, token>>

AnyRowBug(r, i) == i # 0
Matches(r, i) == i # 0 /\ users[i].password = req[r].password

\* check_password: every exception counts as a wrong password, and log.info
\* fails in the handler of its own failure.
LoginFetch(r) ==
  /\ pc[r] = "fetch_password"
  /\ \/ FetchFails /\ LogInfo(r) /\ UNCHANGED row
     \/ \E i \in Ids \cup {0} :
          /\ FetchOne(i)
          /\ IF Matches(r, i) THEN row' = [row EXCEPT ![r] = i] /\ Goto(r, "build")
                              ELSE LogInfo(r) /\ UNCHANGED row
  /\ UNCHANGED token

\* data_builder
BuildSelect(r) ==
  /\ pc[r] = "build"
  /\ Select({row[r]})
  /\ Goto(r, "fetch_data") /\ UNCHANGED <<row, token>>

BuildFetch(r) ==
  /\ pc[r] = "fetch_data"
  /\ \/ FetchFails /\ LogInfo(r) /\ UNCHANGED token
     \/ \E i \in Ids \cup {0} :
          /\ FetchOne(i)
          /\ IF i = 0 THEN LogInfo(r) /\ UNCHANGED token
             ELSE token' = [token EXCEPT ![r] = i] /\ Goto(r, "create")
  /\ UNCHANGED row

LoginStoredBug(r) == req[r].login
Value(r) == row[r]

\* create_session; the cookie set after it is lost with the response.
CreateSession(r) ==
  /\ pc[r] = "create"
  /\ sessions' = [sessions EXCEPT ![token[r]] = Value(r)]
  /\ LogInfo(r) /\ UNCHANGED <<users, cursor, connected, row, token>>

-----------------------------------------------------------------------------
\* logout, me and active, and the 1800 seconds of a session

Authorized(r) == req[r].token # 0 /\ sessions[req[r].token] # 0

LogoutCheck(r) ==
  /\ pc[r] = "logout"
  /\ IF Authorized(r) THEN Goto(r, "delete") ELSE Answer(r, 401)
  /\ UNCHANGED <<tables, row, token>>

DeleteSession(r) ==
  /\ pc[r] = "delete"
  /\ sessions' = [sessions EXCEPT ![req[r].token] = 0]
  /\ Answer(r, 200) /\ UNCHANGED <<users, cursor, connected, row, token>>

Show(r) ==
  /\ pc[r] = "me"
  /\ IF Authorized(r) THEN Answer(r, 200) ELSE Answer(r, 401)
  /\ UNCHANGED <<tables, row, token>>

Expire(t) ==
  /\ sessions[t] # 0
  /\ sessions' = [sessions EXCEPT ![t] = 0]
  /\ UNCHANGED <<users, cursor, connected, req, pc, row, token, reply, history>>

-----------------------------------------------------------------------------
\* Failures of PostgreSQL, of Redis and of the process

\* The connection that connect() made breaks; nothing in the code makes another.
\* The row of an INSERT whose answer did not come may be there or not.
LoseConnection ==
  /\ connected
  /\ connected' = FALSE
  /\ alone' = [q \in Requests |-> alone[q] /\ q \notin Busy]
  /\ \/ UNCHANGED users
     \/ \E r \in Requests : pc[r] = "insert" /\ req[r].fits /\ users' = Append(users, NewRow(r))
  /\ UNCHANGED <<cursor, sessions, req, pc, row, token, reply, before>>

\* execute raises: check_password takes it for a wrong password, login for an
\* error to log, register for nothing; all three end with a 500.
ExecuteFails(r) ==
  /\ pc[r] \in {"register", "insert", "login", "build"} /\ ~connected
  /\ Answer(r, 500) /\ UNCHANGED <<tables, row, token>>

\* A Redis command raises, whether it took effect or not.  A session that
\* cannot be read is none: 401.
FailOpenBug(r) == 200
CheckFailed(r) == 401
RedisFails(r) ==
  /\ \/ pc[r] = "create" /\ LogInfo(r) /\ sessions' \in {sessions, [sessions EXCEPT ![token[r]] = Value(r)]}
     \/ pc[r] \in {"logout", "me"} /\ Answer(r, CheckFailed(r)) /\ UNCHANGED sessions
     \/ pc[r] = "delete" /\ Answer(r, 500) /\ sessions' \in {sessions, [sessions EXCEPT ![req[r].token] = 0]}
  /\ UNCHANGED <<users, cursor, connected, row, token>>

\* The process dies with its handlers, and another connects to the same tables.
Restart ==
  /\ Busy # {} \/ ~connected
  /\ pc' = [r \in Requests |-> IF r \in Busy THEN "done" ELSE pc[r]]
  /\ alone' = [r \in Requests |-> alone[r] /\ r \notin Busy]
  /\ connected' = TRUE /\ cursor' = NoResult
  /\ UNCHANGED <<users, sessions, req, row, token, reply, before>>

Next ==
  \/ \E r \in Requests :
       \/ Call(r) \/ RegisterSelect(r) \/ RegisterFetch(r) \/ Insert(r)
       \/ LoginSelect(r) \/ LoginFetch(r) \/ BuildSelect(r) \/ BuildFetch(r)
       \/ CreateSession(r) \/ LogoutCheck(r) \/ DeleteSession(r) \/ Show(r)
       \/ ExecuteFails(r) \/ RedisFails(r)
  \/ \E t \in Ids : Expire(t)
  \/ LoseConnection \/ Restart

Spec == Init /\ [][Next]_vars

-----------------------------------------------------------------------------
\* Properties

\* Type correctness of the tables and of the handlers' variables.
TypeOK ==
  /\ users \in Seq(Rows) /\ Len(users) <= Cardinality(Ids)
  /\ cursor = NoResult \/ cursor \subseteq 1..Len(users)
  /\ sessions \in [Ids -> 0..Len(users)]
  /\ req \in [Requests -> Calls] /\ reply \in [Requests -> {0, 200, 401, 500}]
  /\ pc \in [Requests -> {"away", "done", "register", "fetch_login", "insert", "login",
                          "fetch_password", "build", "fetch_data", "create", "logout",
                          "delete", "me"}]
  /\ row \in [Requests -> 0..Len(users)] /\ token \in [Requests -> 0..Len(users)]
  /\ before \in [Requests -> 0..Len(users)] /\ alone \in [Requests -> BOOLEAN]
  /\ connected \in BOOLEAN

\* However threads take each other's rows from the cursor, and whatever fails
\* or is killed half-way: a session is only ever made for a user whose password
\* some login gave, and a request with a token is only accepted after a login
\* that made the session of that token.
LoggedIn(t) == {r \in Requests : /\ req[r].op = "login" /\ token[r] = t /\ row[r] # 0
                                 /\ req[r].password = users[row[r]].password}
PasswordWasGiven ==
  /\ \A t \in Ids : sessions[t] # 0 => \E r \in LoggedIn(t) : row[r] = sessions[t]
  /\ \A r \in Requests : reply[r] = 200 => LoggedIn(req[r].token) # {}

\* What a request does when no other is handled at the same time and the
\* database works, also after failures and restarts: register adds
\* its row exactly if the login is new and the row fits, and login makes the token of its own
\* user, exactly if the password is right (a login in the table twice may be
\* found with either password).
Own(r) == {i \in 1..before[r] : users[i].login = req[r].login}
Good(r) == {i \in Own(r) : users[i].password = req[r].password}
RegisterIsRight(r) == (\E i \in 1..Len(users) : users[i].by = r) <=> Own(r) = {} /\ req[r].fits
LoginIsRight(r) == /\ token[r] = row[r] /\ token[r] \in Good(r) \cup {0}
                   /\ Good(r) = Own(r) /\ Own(r) # {} => token[r] # 0
AloneIsRight ==
  \A r \in Requests : pc[r] = "done" /\ alone[r] =>
    /\ req[r].op = "register" => RegisterIsRight(r)
    /\ req[r].op = "login" => LoginIsRight(r)

-----------------------------------------------------------------------------
\* What the README says and the code does not ensure

\* "Returns information about the currently authenticated user": the token of a
\* session is that of the user whom the session is for.
SessionNamesOwner == \A t \in Ids : sessions[t] \in {0, t}
=============================================================================
