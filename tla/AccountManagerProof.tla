------------------------- MODULE AccountManagerProof -------------------------
(***************************************************************************)
(* What the account manager ensures for any number of requests, whatever    *)
(* they ask, any table to start from and any loss of PostgreSQL, Redis or    *)
(* the process.                                                              *)
(***************************************************************************)
EXTENDS AccountManager, FiniteSetTheorems, TLAPS

USE RequestsAssumption, RegisteredAssumption

LEMMA RegisteredRows ==
  /\ Registered \in Seq(Rows) /\ Len(Registered) \in Nat
  /\ \A i \in 1..Len(Registered) : Registered[i] \in Rows /\ Registered[i].by = NoRequest
<1> DEFINE Old == {x \in Rows : x.by = NoRequest}
<1>1. Registered \in Seq(Old)
  OBVIOUS
<1>2. Len(Registered) \in Nat /\ Registered \in [1..Len(Registered) -> Old]
  BY <1>1
<1>3. \A i \in 1..Len(Registered) : Registered[i] \in Rows /\ Registered[i].by = NoRequest
  BY <1>2
<1>4. Registered \in [1..Len(Registered) -> Rows]
  BY <1>2
<1>5. Registered \in Seq(Rows)
  BY <1>1, <1>4
<1> QED BY <1>2, <1>3, <1>5

\* There is an id for every row that can come to be.
LEMMA IdsSize ==
  /\ Cardinality(Requests) \in Nat
  /\ Cardinality(Ids) = Len(Registered) + Cardinality(Requests)
  /\ \A n \in Nat : n <= Cardinality(Ids) => 1..n \subseteq Ids
<1>1. Cardinality(Requests) \in Nat
  BY FS_CardinalityType
<1>2. PICK k \in Nat : k = Len(Registered) + Cardinality(Requests)
  BY <1>1, RegisteredRows
<1>3. Cardinality(1..k) = k
  BY FS_Interval
<1> QED BY <1>1, <1>2, <1>3 DEF Ids

\* A row is added at the end.
LEMMA AppendRow ==
  ASSUME NEW s \in Seq(Rows), NEW x \in Rows
  PROVE  /\ Append(s, x) \in Seq(Rows) /\ Len(Append(s, x)) = Len(s) + 1
         /\ Append(s, x)[Len(s) + 1] = x
         /\ \A i \in 1..Len(s) : Append(s, x)[i] = s[i]
  OBVIOUS

-----------------------------------------------------------------------------
\* The requests that have added a row.
Adders == {r \in Requests : \E i \in 1..Len(users) : users[i].by = r}

\* A request adds one row at most: it has none until its INSERT, and none is
\* executed again after one whose answer was lost.
RowsOnce ==
  /\ Len(users) = Len(Registered) + Cardinality(Adders)
  /\ \A r \in Requests :
       pc[r] \in {"away", "register", "fetch_login"} \/ (pc[r] = "insert" /\ connected) => r \notin Adders

\* What the variables of a handler say at each of its points.  A user_id is only
\* ever set by a login to a row with the password it was given.
StageOf(r) ==
  /\ pc[r] \in {"register", "fetch_login", "insert"} => req[r].op = "register"
  /\ pc[r] \in {"login", "fetch_password", "build", "fetch_data", "create"} => req[r].op = "login"
  /\ pc[r] \in {"logout", "delete", "me"} => req[r].op \notin {"register", "login"}
  /\ pc[r] \in {"away", "login", "fetch_password"} => row[r] = 0
  /\ pc[r] \in {"build", "fetch_data", "create"} => row[r] # 0
  /\ pc[r] = "create" => token[r] # 0
  /\ token[r] # 0 => pc[r] \in {"create", "done"} /\ row[r] # 0
  /\ row[r] # 0 => req[r].op = "login" /\ users[row[r]].password = req[r].password
  /\ pc[r] = "delete" => req[r].token # 0 /\ LoggedIn(req[r].token) # {}
  /\ reply[r] = 200 => req[r].token # 0
Stage == \A r \in Requests : StageOf(r)

\* While a request is alone, the cursor and the table are as it left them.
AloneOf(r) ==
  alone[r] = TRUE /\ r \in Busy =>
    /\ Busy = {r} /\ connected = TRUE /\ before[r] = Len(users)
    /\ pc[r] \in {"fetch_login", "fetch_password"} => cursor = Own(r)
    /\ pc[r] = "insert" => Own(r) = {}
    /\ pc[r] \in {"build", "fetch_data", "create"} => row[r] \in Good(r)
    /\ pc[r] = "fetch_data" => cursor = {row[r]}
    /\ pc[r] = "create" => token[r] = row[r]
AloneStage == \A r \in Requests : AloneOf(r)

AccountInv == TypeOK /\ RowsOnce /\ Stage /\ PasswordWasGiven /\ AloneStage /\ AloneIsRight

LEMMA AccountInit == Init => AccountInv
<1> SUFFICES ASSUME Init PROVE AccountInv
  OBVIOUS
<1>1. /\ users \in Seq(Rows) /\ Len(users) <= Cardinality(Ids) /\ Len(users) \in Nat
      /\ Adders = {} /\ Len(users) = Len(Registered) + Cardinality(Adders)
  <2>1. Adders = {}
    BY RegisteredRows DEF Init, Adders
  <2>2. Cardinality(Adders) = 0
    BY <2>1, FS_EmptySet
  <2> QED BY <2>1, <2>2, RegisteredRows, IdsSize DEF Init
<1>2. /\ cursor = NoResult \/ cursor \subseteq 1..Len(users)
      /\ sessions \in [Ids -> 0..Len(users)]
      /\ req \in [Requests -> Calls] /\ reply \in [Requests -> {0, 200, 401, 500}]
      /\ row \in [Requests -> 0..Len(users)] /\ token \in [Requests -> 0..Len(users)]
      /\ before \in [Requests -> 0..Len(users)]
  BY <1>1 DEF Init
<1>3. pc \in [Requests -> {"away", "done", "register", "fetch_login", "insert", "login",
                          "fetch_password", "build", "fetch_data", "create", "logout",
                          "delete", "me"}]
  BY DEF Init
<1>4. alone \in [Requests -> BOOLEAN] /\ connected \in BOOLEAN
  BY Zenon DEF Init
<1>5. TypeOK
  BY <1>1, <1>2, <1>3, <1>4 DEF TypeOK
<1>6. RowsOnce
  BY <1>1 DEF RowsOnce
<1>7. Stage /\ PasswordWasGiven
  BY DEF Init, Stage, StageOf, PasswordWasGiven
<1>8. AloneStage /\ AloneIsRight
  BY DEF Init, AloneStage, AloneOf, AloneIsRight, Busy
<1> QED BY <1>5, <1>6, <1>7, <1>8 DEF AccountInv

-----------------------------------------------------------------------------
\* The table of users

\* The step that adds the row of r, whether its handler learns of it or not.
AddsRow(r) ==
  /\ pc[r] = "insert" /\ connected /\ req[r].fits /\ users' = Append(users, NewRow(r))
  /\ pc' = [pc EXCEPT ![r] = "done"] \/ (~connected' /\ pc' = pc)

\* Nothing else changes the table.
LEMMA UsersChange ==
  ASSUME [Next]_vars
  PROVE  users' = users \/ \E r \in Requests : AddsRow(r)
<1> USE DEF tables, history
<1>1. ASSUME NEW r \in Requests, Insert(r) PROVE AddsRow(r) \/ users' = users
  BY <1>1 DEF Insert, LogInfo, Answer, AddsRow
<1>2. ASSUME LoseConnection PROVE users' = users \/ \E r \in Requests : AddsRow(r)
  BY <1>2 DEF LoseConnection, AddsRow
<1>3. ASSUME NEW r \in Requests,
             \/ Call(r) \/ RegisterSelect(r) \/ RegisterFetch(r)
             \/ LoginSelect(r) \/ LoginFetch(r) \/ BuildSelect(r) \/ BuildFetch(r)
             \/ CreateSession(r) \/ LogoutCheck(r) \/ DeleteSession(r) \/ Show(r)
             \/ ExecuteFails(r) \/ RedisFails(r)
      PROVE  users' = users
  BY <1>3 DEF Call, RegisterSelect, RegisterFetch, LoginSelect, LoginFetch, BuildSelect, BuildFetch,
              CreateSession, LogoutCheck, DeleteSession, Show, ExecuteFails, RedisFails, Select,
              FetchOne, FetchFails
<1>4. ASSUME (\E t \in Ids : Expire(t)) \/ Restart \/ UNCHANGED vars PROVE users' = users
  BY <1>4 DEF Expire, Restart, vars
<1> QED BY <1>1, <1>2, <1>3, <1>4 DEF Next

\* The table only grows, and never beyond the ids.
LEMMA UsersGrow ==
  ASSUME AccountInv, [Next]_vars
  PROVE  /\ users' \in Seq(Rows) /\ Len(users) \in Nat /\ Len(users') \in Nat
         /\ Len(users) <= Len(users') /\ Len(users') <= Cardinality(Ids)
         /\ 1..Len(users) \subseteq 1..Len(users') /\ 0..Len(users) \subseteq 0..Len(users')
         /\ \A i \in 1..Len(users) : users'[i] = users[i]
         /\ Len(users') = Len(Registered) + Cardinality(Adders')
         /\ Adders \subseteq Adders' /\ (users' = users => Adders' = Adders)
         /\ \A r \in Requests : AddsRow(r) => Adders' = Adders \cup {r}
<1>1. users \in Seq(Rows) /\ Len(users) \in Nat /\ Len(users) <= Cardinality(Ids)
  BY DEF AccountInv, TypeOK
<1>2. Len(users) = Len(Registered) + Cardinality(Adders)
  BY DEF AccountInv, RowsOnce
<1>3. CASE users' = users
  <2>1. Adders' = Adders
    BY <1>3 DEF Adders
  <2>2. \A r \in Requests : ~AddsRow(r)
    <3> SUFFICES ASSUME NEW r \in Requests, AddsRow(r) PROVE FALSE
      OBVIOUS
    <3>1. Len(Append(users, NewRow(r))) = Len(users) + 1
      BY <1>1
    <3> QED BY <1>1, <1>3, <3>1 DEF AddsRow
  <2> QED BY <1>1, <1>2, <1>3, <2>1, <2>2
<1>4. CASE \E r \in Requests : AddsRow(r)
  <2>1. PICK r \in Requests : AddsRow(r)
    BY <1>4
  <2>2. PICK x \in Rows : x = NewRow(r) /\ x.by = r /\ users' = Append(users, x)
    <3>1. req[r].op = "register" /\ req[r] \in Calls
      BY <2>1 DEF AddsRow, AccountInv, Stage, StageOf, TypeOK
    <3>2. req[r].login \in Logins /\ req[r].password \in Passwords
      BY <3>1 DEF Calls
    <3> QED BY <2>1, <3>2 DEF AddsRow, NewRow, Rows
  <2>3. /\ users' \in Seq(Rows) /\ Len(users') = Len(users) + 1 /\ users'[Len(users) + 1] = x
        /\ \A i \in 1..Len(users) : users'[i] = users[i]
    BY <1>1, <2>2, AppendRow
  <2>4. Adders' = Adders \cup {r}
    <3>1. \A i \in 1..Len(users') : i \in 1..Len(users) \/ i = Len(users) + 1
      BY <1>1, <2>3
    <3>2. 1..Len(users) \subseteq 1..Len(users') /\ Len(users) + 1 \in 1..Len(users')
      BY <1>1, <2>3
    <3> QED BY <2>2, <2>3, <3>1, <3>2 DEF Adders
  <2>5. r \notin Adders
    BY <2>1 DEF AddsRow, AccountInv, RowsOnce
  <2>6. IsFiniteSet(Adders) /\ IsFiniteSet(Adders')
    BY <2>4, FS_Subset DEF Adders
  <2>7. Cardinality(Adders') = Cardinality(Adders) + 1
    BY <2>4, <2>5, <2>6, FS_AddElement
  <2>8. Cardinality(Adders') <= Cardinality(Requests) /\ Cardinality(Adders) \in Nat
    BY <2>4, <2>6, FS_Subset, FS_CardinalityType DEF Adders
  <2>9. Len(users') = Len(Registered) + Cardinality(Adders')
    BY <1>1, <1>2, <2>3, <2>7, <2>8, RegisteredRows
  <2>10. Len(users') <= Cardinality(Ids)
    BY <2>7, <2>8, <2>9, IdsSize, RegisteredRows
  <2>11. \A q \in Requests : AddsRow(q) => q = r
    <3> SUFFICES ASSUME NEW q \in Requests, AddsRow(q) PROVE q = r
      OBVIOUS
    <3>1. NewRow(q).by = q
      BY DEF NewRow
    <3>2. users' = Append(users, NewRow(q))
      BY DEF AddsRow
    <3>3. users'[Len(users) + 1] = NewRow(q)
      BY <1>1, <3>2
    <3> QED BY <2>2, <2>3, <3>1, <3>3
  <2> QED BY <1>1, <2>3, <2>4, <2>9, <2>10, <2>11
<1> QED BY <1>3, <1>4, UsersChange

-----------------------------------------------------------------------------
\* Types

Labels == {"away", "done", "register", "fetch_login", "insert", "login", "fetch_password", "build",
           "fetch_data", "create", "logout", "delete", "me"}
Codes == {0, 200, 401, 500}

\* The steps of the handler of r.
Handle(r) ==
  \/ RegisterSelect(r) \/ RegisterFetch(r) \/ Insert(r)
  \/ LoginSelect(r) \/ LoginFetch(r) \/ BuildSelect(r) \/ BuildFetch(r)
  \/ CreateSession(r) \/ LogoutCheck(r) \/ DeleteSession(r) \/ Show(r)
  \/ ExecuteFails(r) \/ RedisFails(r)

LEMMA NextCases ==
  ASSUME [Next]_vars
  PROVE  \/ \E r \in Requests : Call(r) \/ Handle(r)
         \/ (\E t \in Ids : Expire(t)) \/ LoseConnection \/ Restart \/ UNCHANGED vars
BY DEF Next, Handle

\* What a step of the handler of r may change, and to what.
HandlerStep(r, ids) ==
  /\ \E l \in Labels \ {"away"} : pc' = [pc EXCEPT ![r] = l]
  /\ reply' = reply \/ \E c \in Codes : reply' = [reply EXCEPT ![r] = c]
  /\ cursor' = NoResult \/ cursor' \subseteq 1..Len(users)
  /\ sessions' = sessions \/ \E t \in Ids \cup {0}, i \in ids : sessions' = [sessions EXCEPT ![t] = i]
  /\ row' = row \/ \E i \in ids : row' = [row EXCEPT ![r] = i]
  /\ token' = token \/ \E i \in ids : token' = [token EXCEPT ![r] = i]
  /\ UNCHANGED <<req, before, alone, connected>>

LEMMA Fetched ==
  ASSUME AccountInv, NEW i \in Ids \cup {0}, FetchOne(i)
  PROVE  /\ i \in 0..Len(users) /\ cursor' \subseteq 1..Len(users) /\ cursor # NoResult
         /\ i = 0 <=> cursor = {}
         /\ i # 0 => i \in 1..Len(users)
<1>1. (cursor = NoResult \/ cursor \subseteq 1..Len(users)) /\ Len(users) \in Nat
  BY DEF AccountInv, TypeOK
<1>2. cursor # NoResult /\ cursor' = cursor \ {i} /\ IF cursor = {} THEN i = 0 ELSE i \in cursor
  BY DEF FetchOne
<1>3. cursor \subseteq 1..Len(users)
  BY <1>1, <1>2
<1>4. i = 0 \/ i \in 1..Len(users)
  BY <1>2, <1>3
<1>5. 0 \notin 1..Len(users) /\ 1..Len(users) \subseteq 0..Len(users) /\ 0 \in 0..Len(users)
  BY <1>1
<1> QED BY <1>2, <1>3, <1>4, <1>5

\* A handler that answers is done.
LEMMA Answers ==
  ASSUME NEW r \in Requests, NEW code \in Codes, Answer(r, code)
  PROVE  /\ \E l \in Labels \ {"away"} : pc' = [pc EXCEPT ![r] = l]
         /\ \E c \in Codes : reply' = [reply EXCEPT ![r] = c]
         /\ UNCHANGED <<req, before, alone>>
<1>1. "done" \in Labels \ {"away"}
  BY DEF Labels
<1> QED BY <1>1 DEF Answer, history

\* A handler that only answers is one step of those, whatever Redis did.
LEMMA AnswersOnly ==
  ASSUME NEW r \in Requests, NEW code \in Codes, Answer(r, code), NEW ids,
         cursor = NoResult \/ cursor \subseteq 1..Len(users),
         UNCHANGED <<users, cursor, connected, row, token>>,
         sessions' = sessions \/ \E t \in Ids \cup {0}, i \in ids : sessions' = [sessions EXCEPT ![t] = i]
  PROVE  HandlerStep(r, ids)
<1>1. cursor' = NoResult \/ cursor' \subseteq 1..Len(users)
  OBVIOUS
<1>2. /\ \E l \in Labels \ {"away"} : pc' = [pc EXCEPT ![r] = l]
      /\ \E c \in Codes : reply' = [reply EXCEPT ![r] = c]
      /\ UNCHANGED <<req, before, alone>>
  BY Answers
<1> QED BY <1>1, <1>2 DEF HandlerStep

LEMMA HandlerSteps ==
  ASSUME AccountInv, NEW r \in Requests, Handle(r)
  PROVE  HandlerStep(r, 0..Len(users))
<1> DEFINE ids == 0..Len(users)
<1>t. /\ cursor = NoResult \/ cursor \subseteq 1..Len(users)
      /\ row[r] \in ids /\ token[r] \in ids /\ 0 \in ids /\ req[r] \in Calls
      /\ Len(users) \in Nat /\ token[r] \in Ids \cup {0} /\ req[r].token \in Ids \cup {0}
  <2>1. /\ cursor = NoResult \/ cursor \subseteq 1..Len(users)
        /\ row[r] \in ids /\ token[r] \in ids /\ req[r] \in Calls
        /\ Len(users) \in Nat /\ Len(users) <= Cardinality(Ids)
    BY DEF AccountInv, TypeOK
  <2>2. 1..Len(users) \subseteq Ids
    BY <2>1, IdsSize
  <2>3. token[r] = 0 \/ token[r] \in 1..Len(users)
    BY <2>1
  <2>4. req[r].token \in Ids \cup {0}
    BY <2>1 DEF Calls
  <2> QED BY <2>1, <2>2, <2>3, <2>4
<1> USE DEF tables, history, Labels, Codes
<1>1. CASE RegisterSelect(r)
  <2>1. /\ UNCHANGED <<users, sessions, connected, row, token>>
        /\ pc' = [pc EXCEPT ![r] = "fetch_login"] /\ UNCHANGED <<reply, req, before, alone>>
    BY <1>1 DEF RegisterSelect, Select, Goto
  <2>2. cursor' \subseteq 1..Len(users)
    BY <1>1 DEF RegisterSelect, Select, WithLogin
  <2> QED BY <2>1, <2>2 DEF HandlerStep
<1>2. CASE RegisterFetch(r)
  <2>1. CASE FetchFails /\ Answer(r, 500)
    <3>1. UNCHANGED <<users, cursor, sessions, connected, row, token>>
      BY <1>2, <2>1 DEF RegisterFetch, FetchFails
    <3> QED BY <1>t, <2>1, <3>1, AnswersOnly
  <2>2. CASE \E i \in Ids \cup {0} :
               FetchOne(i) /\ IF IsFree(i) THEN Goto(r, "insert") ELSE LogInfo(r)
    <3>1. PICK i \in Ids \cup {0} :
                 FetchOne(i) /\ IF IsFree(i) THEN Goto(r, "insert") ELSE LogInfo(r)
      BY <2>2
    <3>2. cursor' \subseteq 1..Len(users) /\ UNCHANGED <<sessions, connected>>
      BY <3>1, Fetched DEF FetchOne
    <3> QED BY <1>2, <3>1, <3>2 DEF RegisterFetch, Goto, LogInfo, Answer, HandlerStep
  <2> QED BY <1>2, <2>1, <2>2 DEF RegisterFetch
<1>3. CASE Insert(r)
  BY <1>3 DEF Insert, LogInfo, Answer, HandlerStep
<1>4. CASE LoginSelect(r)
  <2>1. /\ UNCHANGED <<users, sessions, connected, row, token>>
        /\ pc' = [pc EXCEPT ![r] = "fetch_password"] /\ UNCHANGED <<reply, req, before, alone>>
    BY <1>4 DEF LoginSelect, Select, Goto
  <2>2. cursor' \subseteq 1..Len(users)
    BY <1>4 DEF LoginSelect, Select, WithLogin
  <2> QED BY <2>1, <2>2 DEF HandlerStep
<1>5. CASE LoginFetch(r)
  <2>1. CASE FetchFails /\ LogInfo(r) /\ UNCHANGED row
    <3>1. Answer(r, 500) /\ UNCHANGED <<users, cursor, sessions, connected, row, token>>
      BY <1>5, <2>1 DEF LoginFetch, FetchFails, LogInfo
    <3> QED BY <1>t, <3>1, AnswersOnly
  <2>2. ASSUME NEW i \in Ids \cup {0}, FetchOne(i),
               IF Matches(r, i) THEN row' = [row EXCEPT ![r] = i] /\ Goto(r, "build")
                                ELSE LogInfo(r) /\ UNCHANGED row
        PROVE  HandlerStep(r, ids)
    <3>1. i \in ids /\ cursor' \subseteq 1..Len(users) /\ UNCHANGED <<sessions, connected>>
      BY <2>2, Fetched DEF FetchOne
    <3> QED BY <1>5, <2>2, <3>1 DEF LoginFetch, Goto, LogInfo, Answer, HandlerStep
  <2> QED BY <1>5, <2>1, <2>2 DEF LoginFetch
<1>6. CASE BuildSelect(r)
  <2>1. row[r] # 0
    BY <1>6 DEF BuildSelect, AccountInv, Stage, StageOf
  <2>2. row[r] \in 1..Len(users)
    BY <1>t, <2>1
  <2>3. cursor' = {row[r]}
    BY <1>6 DEF BuildSelect, Select
  <2>4. cursor' \subseteq 1..Len(users)
    BY <2>2, <2>3
  <2>5. /\ UNCHANGED <<users, sessions, connected, row, token>>
        /\ pc' = [pc EXCEPT ![r] = "fetch_data"] /\ UNCHANGED <<reply, req, history>>
    BY <1>6 DEF BuildSelect, Select, Goto
  <2> QED BY <2>4, <2>5 DEF HandlerStep
<1>7. CASE BuildFetch(r)
  <2>1. CASE FetchFails /\ LogInfo(r) /\ UNCHANGED token
    <3>1. Answer(r, 500) /\ UNCHANGED <<users, cursor, sessions, connected, row, token>>
      BY <1>7, <2>1 DEF BuildFetch, FetchFails, LogInfo
    <3> QED BY <1>t, <3>1, AnswersOnly
  <2>2. ASSUME NEW i \in Ids \cup {0}, FetchOne(i),
               IF i = 0 THEN LogInfo(r) /\ UNCHANGED token
               ELSE token' = [token EXCEPT ![r] = i] /\ Goto(r, "create")
        PROVE  HandlerStep(r, ids)
    <3>1. i \in ids /\ cursor' \subseteq 1..Len(users) /\ UNCHANGED <<sessions, connected>>
      BY <2>2, Fetched DEF FetchOne
    <3> QED BY <1>7, <2>2, <3>1 DEF BuildFetch, Goto, LogInfo, Answer, HandlerStep
  <2> QED BY <1>7, <2>1, <2>2 DEF BuildFetch
<1>8. CASE CreateSession(r)
  BY <1>t, <1>8 DEF CreateSession, Value, LogInfo, Answer, HandlerStep
<1>9. CASE LogoutCheck(r) \/ Show(r)
  <2>1. UNCHANGED <<users, cursor, sessions, connected, row, token>>
    BY <1>9 DEF LogoutCheck, Show
  <2>2. Answer(r, 200) \/ Answer(r, 401) \/ Goto(r, "delete")
    BY <1>9 DEF LogoutCheck, Show
  <2>3. CASE Goto(r, "delete")
    BY <1>t, <2>1, <2>3 DEF Goto, HandlerStep
  <2> QED BY <1>t, <2>1, <2>2, <2>3, AnswersOnly
<1>10. CASE DeleteSession(r)
  <2>1. /\ UNCHANGED <<users, cursor, connected, row, token>>
        /\ sessions' = [sessions EXCEPT ![req[r].token] = 0]
    BY <1>10 DEF DeleteSession
  <2>2. req[r].token \in Ids \cup {0} /\ 0 \in ids
    BY <1>t
  <2>3. \E t \in Ids \cup {0}, i \in ids : sessions' = [sessions EXCEPT ![t] = i]
    BY <2>1, <2>2
  <2>4. Answer(r, 200)
    BY <1>10 DEF DeleteSession
  <2> QED BY <1>t, <2>1, <2>3, <2>4, AnswersOnly
<1>11. CASE ExecuteFails(r)
  <2>1. Answer(r, 500) /\ UNCHANGED <<users, cursor, sessions, connected, row, token>>
    BY <1>11 DEF ExecuteFails
  <2> QED BY <1>t, <2>1, AnswersOnly
<1>12. CASE RedisFails(r)
  <2>1. CASE pc[r] = "create" /\ LogInfo(r)
             /\ sessions' \in {sessions, [sessions EXCEPT ![token[r]] = Value(r)]}
    <3>1. 500 \in Codes /\ Answer(r, 500)
      BY <2>1 DEF LogInfo, Codes
    <3>2. UNCHANGED <<users, cursor, connected, row, token>>
      BY <1>12 DEF RedisFails
    <3>3. sessions' = sessions \/ \E t \in Ids \cup {0}, i \in ids : sessions' = [sessions EXCEPT ![t] = i]
      BY <1>t, <2>1 DEF Value
    <3> QED BY <1>t, <3>1, <3>2, <3>3, AnswersOnly
  <2>2. CASE pc[r] \in {"logout", "me"} /\ Answer(r, CheckFailed(r)) /\ UNCHANGED sessions
    <3>1. 401 \in Codes /\ Answer(r, 401)
      BY <2>2 DEF CheckFailed, Codes
    <3>2. UNCHANGED <<users, cursor, connected, row, token, sessions>>
      BY <1>12, <2>2 DEF RedisFails
    <3> QED BY <1>t, <3>1, <3>2, AnswersOnly
  <2>3. CASE pc[r] = "delete" /\ Answer(r, 500)
             /\ sessions' \in {sessions, [sessions EXCEPT ![req[r].token] = 0]}
    <3>1. 500 \in Codes /\ Answer(r, 500)
      BY <2>3 DEF Codes
    <3>2. UNCHANGED <<users, cursor, connected, row, token>>
      BY <1>12 DEF RedisFails
    <3>3. sessions' = sessions \/ \E t \in Ids \cup {0}, i \in ids : sessions' = [sessions EXCEPT ![t] = i]
      BY <1>t, <2>3
    <3> QED BY <1>t, <3>1, <3>2, <3>3, AnswersOnly
  <2> QED BY <1>12, <2>1, <2>2, <2>3 DEF RedisFails
<1> QED BY <1>1, <1>2, <1>3, <1>4, <1>5, <1>6, <1>7, <1>8, <1>9, <1>10, <1>11, <1>12 DEF Handle

LEMMA TypeNext ==
  ASSUME AccountInv, [Next]_vars
  PROVE  TypeOK'
<1>1. /\ users \in Seq(Rows) /\ Len(users) \in Nat
      /\ cursor = NoResult \/ cursor \subseteq 1..Len(users)
      /\ sessions \in [Ids -> 0..Len(users)]
      /\ req \in [Requests -> Calls] /\ reply \in [Requests -> Codes]
      /\ pc \in [Requests -> Labels]
      /\ row \in [Requests -> 0..Len(users)] /\ token \in [Requests -> 0..Len(users)]
      /\ before \in [Requests -> 0..Len(users)]
  BY DEF AccountInv, TypeOK, Labels, Codes
<1>2. alone \in [Requests -> BOOLEAN] /\ connected \in BOOLEAN
  BY Zenon DEF AccountInv, TypeOK
<1>3. /\ users' \in Seq(Rows) /\ Len(users') <= Cardinality(Ids)
      /\ 1..Len(users) \subseteq 1..Len(users') /\ 0..Len(users) \subseteq 0..Len(users')
      /\ Len(users) \in 0..Len(users')
  BY UsersGrow
<1> DEFINE ids == 0..Len(users)
<1>4. SUFFICES
        /\ cursor' = NoResult \/ cursor' \subseteq 1..Len(users)
        /\ sessions' \in [Ids -> ids]
        /\ req' \in [Requests -> Calls] /\ reply' \in [Requests -> Codes]
        /\ pc' \in [Requests -> Labels]
        /\ row' \in [Requests -> ids] /\ token' \in [Requests -> ids]
        /\ before' \in [Requests -> ids]
        /\ alone' \in [Requests -> BOOLEAN] /\ connected' \in BOOLEAN
  <2>1. /\ sessions' \in [Ids -> 0..Len(users')]
        /\ row' \in [Requests -> 0..Len(users')] /\ token' \in [Requests -> 0..Len(users')]
        /\ before' \in [Requests -> 0..Len(users')]
    BY <1>3, <1>4
  <2>2. cursor' = NoResult \/ cursor' \subseteq 1..Len(users')
    BY <1>3, <1>4
  <2> QED BY <1>3, <1>4, <2>1, <2>2, Zenon DEF TypeOK, Labels, Codes
<1> USE DEF tables, history
<1>5. ASSUME NEW r \in Requests, Handle(r)
      PROVE  /\ cursor' = NoResult \/ cursor' \subseteq 1..Len(users)
             /\ sessions' \in [Ids -> ids]
             /\ req' \in [Requests -> Calls] /\ reply' \in [Requests -> Codes]
             /\ pc' \in [Requests -> Labels]
             /\ row' \in [Requests -> ids] /\ token' \in [Requests -> ids]
             /\ before' \in [Requests -> ids]
             /\ alone' \in [Requests -> BOOLEAN] /\ connected' \in BOOLEAN
  <2>1. HandlerStep(r, ids)
    BY <1>5, HandlerSteps
  <2>2. pc' \in [Requests -> Labels]
    BY <1>1, <2>1 DEF HandlerStep
  <2>3. reply' \in [Requests -> Codes]
    BY <1>1, <2>1 DEF HandlerStep
  <2>4. sessions' \in [Ids -> ids]
    BY <1>1, <2>1 DEF HandlerStep
  <2>5. row' \in [Requests -> ids]
    BY <1>1, <2>1 DEF HandlerStep
  <2>6. token' \in [Requests -> ids]
    BY <1>1, <2>1 DEF HandlerStep
  <2>7. /\ cursor' = NoResult \/ cursor' \subseteq 1..Len(users)
        /\ UNCHANGED <<req, before, alone, connected>>
    BY <2>1 DEF HandlerStep
  <2> QED BY <1>1, <1>2, <2>2, <2>3, <2>4, <2>5, <2>6, <2>7, Zenon
<1>6. ASSUME NEW r \in Requests, Call(r)
      PROVE  pc' \in [Requests -> Labels] /\ before' \in [Requests -> ids]
             /\ alone' \in [Requests -> BOOLEAN]
  <2>1. req[r].op \in Labels
    BY <1>1 DEF Calls, Labels
  <2>2. pc' \in [Requests -> Labels]
    BY <1>1, <1>6, <2>1 DEF Call
  <2>3. Len(users) \in ids
    BY <1>1
  <2>4. before' \in [Requests -> ids]
    BY <1>1, <1>6, <2>3 DEF Call
  <2>5. alone' \in [Requests -> BOOLEAN]
    BY <1>2, <1>6, Zenon DEF Call
  <2> QED BY <2>2, <2>4, <2>5
<1>7. ASSUME NEW r \in Requests, Call(r)
      PROVE  UNCHANGED <<cursor, sessions, req, reply, row, token, connected>>
  BY <1>7 DEF Call
<1>8. ASSUME NEW t \in Ids, Expire(t)
      PROVE  /\ sessions' \in [Ids -> ids]
             /\ UNCHANGED <<users, cursor, connected, req, pc, row, token, reply, history>>
  <2>1. 0 \in ids
    BY <1>1
  <2> QED BY <1>1, <1>8, <2>1 DEF Expire
<1>9. ASSUME LoseConnection \/ Restart
      PROVE  /\ alone' \in [Requests -> BOOLEAN] /\ connected' \in BOOLEAN
             /\ cursor' \in {cursor, NoResult}
             /\ UNCHANGED <<sessions, req, row, token, reply, before>>
  BY <1>2, <1>9, Zenon DEF LoseConnection, Restart
<1>10. ASSUME LoseConnection \/ Restart PROVE pc' \in [Requests -> Labels]
  <2>1. pc' = pc \/ pc' = [q \in Requests |-> IF q \in Busy THEN "done" ELSE pc[q]]
    BY <1>10 DEF LoseConnection, Restart
  <2> QED BY <1>1, <2>1 DEF Labels
<1>11. CASE \E r \in Requests : Handle(r)
  BY <1>5, <1>11
<1>12. CASE \E r \in Requests : Call(r)
  BY <1>1, <1>2, <1>6, <1>7, <1>12, Zenon
<1>13. CASE \E t \in Ids : Expire(t)
  BY <1>1, <1>2, <1>8, <1>13, Zenon
<1>14. CASE LoseConnection \/ Restart
  BY <1>1, <1>2, <1>9, <1>10, <1>14, Zenon
<1>15. CASE UNCHANGED vars
  BY <1>1, <1>2, <1>15, Zenon DEF vars
<1> QED BY <1>11, <1>12, <1>13, <1>14, <1>15, NextCases

-----------------------------------------------------------------------------
\* What a step leaves alone

\* A handler has its variables to itself.
LEMMA OthersKept ==
  ASSUME AccountInv, NEW r \in Requests, Call(r) \/ Handle(r), NEW q \in Requests, q # r
  PROVE  pc'[q] = pc[q] /\ row'[q] = row[q] /\ token'[q] = token[q] /\ reply'[q] = reply[q]
<1>1. /\ pc \in [Requests -> Labels] /\ reply \in [Requests -> Codes]
      /\ row \in [Requests -> 0..Len(users)] /\ token \in [Requests -> 0..Len(users)]
  BY DEF AccountInv, TypeOK, Labels, Codes
<1>2. CASE Call(r)
  BY <1>1, <1>2 DEF Call
<1>3. CASE Handle(r)
  <2>1. HandlerStep(r, 0..Len(users))
    BY <1>3, HandlerSteps
  <2> QED BY <1>1, <2>1 DEF HandlerStep
<1> QED BY <1>2, <1>3

\* What was asked stays; user_id and token_ are assigned once, in the step after
\* the fetch.
LEMMA VariablesKept ==
  ASSUME AccountInv, [Next]_vars, NEW q \in Requests
  PROVE  /\ req' = req
         /\ pc[q] # "fetch_password" => row'[q] = row[q]
         /\ pc[q] # "fetch_data" => token'[q] = token[q]
         /\ pc[q] # "away" => before'[q] = before[q]
<1> USE DEF tables, history
<1>1. /\ row \in [Requests -> 0..Len(users)] /\ token \in [Requests -> 0..Len(users)]
      /\ before \in [Requests -> 0..Len(users)]
  BY DEF AccountInv, TypeOK
<1>2. ASSUME NEW r \in Requests, Call(r)
      PROVE  req' = req /\ row' = row /\ token' = token /\ (pc[q] # "away" => before'[q] = before[q])
  BY <1>1, <1>2 DEF Call
<1>3. ASSUME NEW r \in Requests, Handle(r) PROVE req' = req /\ before' = before
  BY <1>3, HandlerSteps DEF HandlerStep
<1>4. ASSUME NEW r \in Requests, Handle(r) PROVE pc[q] # "fetch_password" => row'[q] = row[q]
  <2>1. CASE LoginFetch(r)
    BY <1>1, <2>1 DEF LoginFetch
  <2>2. CASE ~LoginFetch(r)
    BY <1>4, <2>2 DEF Handle, RegisterSelect, RegisterFetch, Insert, LoginSelect, BuildSelect,
         BuildFetch, CreateSession, LogoutCheck, DeleteSession, Show, ExecuteFails, RedisFails
  <2> QED BY <2>1, <2>2
<1>5. ASSUME NEW r \in Requests, Handle(r) PROVE pc[q] # "fetch_data" => token'[q] = token[q]
  <2>1. CASE BuildFetch(r)
    BY <1>1, <2>1 DEF BuildFetch
  <2>2. CASE ~BuildFetch(r)
    BY <1>5, <2>2 DEF Handle, RegisterSelect, RegisterFetch, Insert, LoginSelect, LoginFetch,
         BuildSelect, CreateSession, LogoutCheck, DeleteSession, Show, ExecuteFails, RedisFails
  <2> QED BY <2>1, <2>2
<1>6. ASSUME (\E t \in Ids : Expire(t)) \/ LoseConnection \/ Restart \/ UNCHANGED vars
      PROVE  UNCHANGED <<req, row, token, before>>
  BY <1>6 DEF Expire, LoseConnection, Restart, vars
<1> QED BY <1>2, <1>3, <1>4, <1>5, <1>6, NextCases

\* The way of a register to its INSERT; no reconnection saves a handler that
\* waits for one.
LEMMA WayToInsert ==
  ASSUME AccountInv, [Next]_vars, NEW q \in Requests
  PROVE  /\ pc'[q] \in {"away", "register", "fetch_login"} => pc[q] \in {"away", "register", "fetch_login"}
         /\ pc'[q] = "insert" => pc[q] = "fetch_login" \/ (pc[q] = "insert" /\ (connected' => connected))
<1> USE DEF tables, history
<1>1. pc \in [Requests -> Labels]
  BY DEF AccountInv, TypeOK, Labels
<1>2. ASSUME NEW r \in Requests, Call(r) \/ Handle(r), r # q
      PROVE  pc'[q] = pc[q] /\ (connected' => connected)
  <2>1. pc'[q] = pc[q]
    BY <1>2, OthersKept
  <2>2. CASE Call(r)
    BY <2>1, <2>2 DEF Call
  <2>3. CASE Handle(r)
    BY <2>1, <2>3, HandlerSteps DEF HandlerStep
  <2> QED BY <1>2, <2>2, <2>3
<1>3. CASE Call(q)
  <2>1. pc[q] = "away" /\ pc'[q] = req[q].op /\ req[q] \in Calls
    BY <1>1, <1>3 DEF Call, AccountInv, TypeOK
  <2>2. req[q].op # "insert"
    BY <2>1 DEF Calls
  <2> QED BY <2>1, <2>2
<1>4. CASE Handle(q)
  <2> HIDE DEF tables, history
  <2>1. CASE RegisterSelect(q)
    BY <1>1, <2>1 DEF RegisterSelect, Goto, Labels
  <2>2. CASE RegisterFetch(q)
    BY <1>1, <2>2 DEF RegisterFetch, Goto, LogInfo, Answer, Labels
  <2>3. CASE LoginSelect(q) \/ LoginFetch(q) \/ BuildSelect(q) \/ BuildFetch(q) \/ LogoutCheck(q)
    BY <1>1, <2>3 DEF LoginSelect, LoginFetch, BuildSelect, BuildFetch, LogoutCheck, Goto, LogInfo, Answer, Labels
  <2>4. CASE Insert(q) \/ CreateSession(q) \/ DeleteSession(q) \/ Show(q) \/ ExecuteFails(q) \/ RedisFails(q)
    BY <1>1, <2>4 DEF Insert, CreateSession, DeleteSession, Show, ExecuteFails, RedisFails, LogInfo, Answer, Labels
  <2> QED BY <1>4, <2>1, <2>2, <2>3, <2>4 DEF Handle
<1>5. CASE (\E t \in Ids : Expire(t)) \/ LoseConnection \/ UNCHANGED vars
  BY <1>5 DEF Expire, LoseConnection, vars
<1>6. CASE Restart
  BY <1>1, <1>6 DEF Restart, Busy
<1> QED BY <1>2, <1>3, <1>4, <1>5, <1>6, NextCases

LEMMA RowsNext ==
  ASSUME AccountInv, [Next]_vars
  PROVE  RowsOnce'
<1>1. Len(users') = Len(Registered) + Cardinality(Adders')
  BY UsersGrow
<1> SUFFICES ASSUME NEW q \in Requests,
                    \/ pc'[q] \in {"away", "register", "fetch_login"}
                    \/ pc'[q] = "insert" /\ connected'
             PROVE  q \notin Adders'
  BY <1>1 DEF RowsOnce
<1>2. \/ pc[q] \in {"away", "register", "fetch_login"}
      \/ pc[q] = "insert" /\ connected
  BY WayToInsert
<1>3. q \notin Adders
  BY <1>2 DEF AccountInv, RowsOnce
<1>4. \A r \in Requests : AddsRow(r) => r # q
  BY DEF AddsRow, AccountInv, TypeOK
<1>5. CASE users' = users
  BY <1>3, <1>5, UsersGrow
<1>6. CASE \E r \in Requests : AddsRow(r)
  BY <1>3, <1>4, <1>6, UsersGrow
<1> QED BY <1>5, <1>6, UsersChange

-----------------------------------------------------------------------------
\* Logins

\* A login whose token has been made stays one, with its user_id.
LEMMA LoggedInGrows ==
  ASSUME AccountInv, [Next]_vars, NEW t, t # 0, NEW q \in LoggedIn(t)
  PROVE  q \in LoggedIn(t)' /\ row'[q] = row[q]
<1>1. /\ q \in Requests /\ req[q].op = "login" /\ token[q] = t /\ row[q] # 0
      /\ req[q].password = users[row[q]].password
  BY DEF LoggedIn
<1>2. pc[q] \in {"create", "done"}
  BY <1>1 DEF AccountInv, Stage, StageOf
<1>3. req' = req /\ row'[q] = row[q] /\ token'[q] = token[q]
  BY <1>1, <1>2, VariablesKept
<1>4. row[q] \in 1..Len(users)
  BY <1>1 DEF AccountInv, TypeOK
<1>5. users'[row[q]] = users[row[q]]
  BY <1>4, UsersGrow
<1> QED BY <1>1, <1>3, <1>5 DEF LoggedIn

\* A handler in which nothing moves keeps its stage, and so does one that ends
\* without a new answer.
LEMMA StageKept ==
  ASSUME AccountInv, [Next]_vars, NEW q \in Requests,
         pc'[q] = pc[q] \/ pc'[q] = "done", row'[q] = row[q], token'[q] = token[q],
         reply'[q] = 200 => req[q].token # 0
  PROVE  StageOf(q)'
<1>1. StageOf(q) /\ req' = req
  BY VariablesKept DEF AccountInv, Stage
<1>2. row[q] # 0 => users'[row[q]].password = req[q].password
  <2>1. row[q] # 0 => row[q] \in 1..Len(users)
    BY DEF AccountInv, TypeOK
  <2> QED BY <1>1, <2>1, UsersGrow DEF StageOf
<1>3. PICK t \in Ids \cup {0} : t = req[q].token
  <2>1. req[q] \in Calls
    BY DEF AccountInv, TypeOK
  <2> QED BY <2>1 DEF Calls
<1>4. pc'[q] = "delete" => LoggedIn(req[q].token)' # {}
  <2>1. pc[q] = "delete" => LoggedIn(t)' # {}
    BY <1>1, <1>3, LoggedInGrows DEF StageOf
  <2>2. req'[q].token = t
    BY <1>1, <1>3
  <2> QED BY <2>1, <2>2
<1> QED BY <1>1, <1>2, <1>4 DEF StageOf

\* A request is accepted where its token had a session.
LEMMA Accepted ==
  ASSUME AccountInv, [Next]_vars, NEW q \in Requests, reply'[q] = 200
  PROVE  reply[q] = 200 \/ pc[q] = "delete" \/ (pc[q] = "me" /\ Authorized(q))
<1> USE DEF tables, history
<1>1. reply \in [Requests -> Codes]
  BY DEF AccountInv, TypeOK, Codes
<1>2. CASE Handle(q)
  <2>1. CASE RegisterSelect(q) \/ LoginSelect(q) \/ BuildSelect(q)
    BY <1>1, <2>1 DEF RegisterSelect, LoginSelect, BuildSelect, Goto
  <2>2. CASE RegisterFetch(q) \/ LoginFetch(q) \/ BuildFetch(q)
    BY <1>1, <2>2 DEF RegisterFetch, LoginFetch, BuildFetch, Goto, LogInfo, Answer
  <2>3. CASE Insert(q) \/ CreateSession(q) \/ ExecuteFails(q) \/ RedisFails(q)
    BY <1>1, <2>3 DEF Insert, CreateSession, ExecuteFails, RedisFails, CheckFailed, LogInfo, Answer
  <2>4. CASE LogoutCheck(q) \/ DeleteSession(q) \/ Show(q)
    BY <1>1, <2>4 DEF LogoutCheck, DeleteSession, Show, Goto, Answer
  <2> QED BY <1>2, <2>1, <2>2, <2>3, <2>4 DEF Handle
<1>3. ASSUME NEW r \in Requests, Handle(r), r # q PROVE reply'[q] = reply[q]
  BY <1>3, OthersKept
<1>4. CASE \/ \E r \in Requests : Call(r)
           \/ (\E t \in Ids : Expire(t)) \/ LoseConnection \/ Restart \/ UNCHANGED vars
  BY <1>4 DEF Call, Expire, LoseConnection, Restart, vars
<1> QED BY <1>2, <1>3, <1>4, NextCases

\* The token of a session is one of the ids, so somebody logged in to get it.
LEMMA AuthorizedWasLoggedIn ==
  ASSUME AccountInv, NEW q \in Requests, Authorized(q)
  PROVE  req[q].token # 0 /\ LoggedIn(req[q].token) # {}
<1>1. req[q] \in Calls
  BY DEF AccountInv, TypeOK
<1>2. req[q].token \in Ids \cup {0}
  BY <1>1 DEF Calls
<1> QED BY <1>2 DEF Authorized, AccountInv, PasswordWasGiven

LEMMA AcceptedToken ==
  ASSUME AccountInv, [Next]_vars, NEW q \in Requests, reply'[q] = 200
  PROVE  req[q].token # 0 /\ LoggedIn(req[q].token) # {}
BY Accepted, AuthorizedWasLoggedIn DEF AccountInv, Stage, StageOf, PasswordWasGiven

LEMMA StageNext ==
  ASSUME AccountInv, [Next]_vars
  PROVE  Stage'
<1> SUFFICES ASSUME NEW q \in Requests PROVE StageOf(q)'
  BY DEF Stage
<1> USE DEF tables, history
<1>1. /\ pc \in [Requests -> Labels] /\ reply \in [Requests -> Codes]
      /\ row \in [Requests -> 0..Len(users)] /\ token \in [Requests -> 0..Len(users)]
      /\ req \in [Requests -> Calls] /\ Len(users) \in Nat
      /\ StageOf(q)
  BY DEF AccountInv, TypeOK, Labels, Codes, Stage
<1>2. reply'[q] = 200 => req[q].token # 0
  BY AcceptedToken
<1>3. req' = req
  BY VariablesKept
<1>4. \A i \in 1..Len(users) : users'[i] = users[i]
  BY UsersGrow
<1>5. ASSUME NEW r \in Requests, Call(r) \/ Handle(r), r # q PROVE StageOf(q)'
  BY <1>2, <1>5, OthersKept, StageKept
<1>6. CASE Call(q)
  <2>1. pc[q] = "away" /\ pc'[q] = req[q].op /\ row'[q] = row[q] /\ token'[q] = token[q]
    BY <1>1, <1>6 DEF Call
  <2>2. req[q].op \in {"register", "login", "logout", "me"}
    BY <1>1 DEF Calls
  <2> QED BY <1>1, <1>2, <1>3, <2>1, <2>2 DEF StageOf
<1>7. CASE Handle(q)
  <2>1. CASE RegisterSelect(q) \/ LoginSelect(q) \/ BuildSelect(q)
    <3>1. row' = row /\ token' = token /\ reply' = reply
      BY <2>1 DEF RegisterSelect, LoginSelect, BuildSelect, Goto
    <3>2. \/ pc[q] = "register" /\ pc'[q] = "fetch_login"
          \/ pc[q] = "login" /\ pc'[q] = "fetch_password"
          \/ pc[q] = "build" /\ pc'[q] = "fetch_data"
      BY <1>1, <2>1 DEF RegisterSelect, LoginSelect, BuildSelect, Goto
    <3>3. row[q] # 0 => row[q] \in 1..Len(users)
      BY <1>1
    <3> QED BY <1>1, <1>2, <1>3, <1>4, <3>1, <3>2, <3>3 DEF StageOf
  <2>2. CASE RegisterFetch(q)
    <3>1. row' = row /\ token' = token /\ pc[q] = "fetch_login" /\ pc'[q] \in {"insert", "done"}
      BY <1>1, <2>2 DEF RegisterFetch, Goto, LogInfo, Answer
    <3>2. row[q] = 0 /\ token[q] = 0
      BY <1>1, <3>1 DEF StageOf
    <3> QED BY <1>1, <1>2, <1>3, <3>1, <3>2 DEF StageOf
  <2>3. CASE LoginFetch(q)
    <3>1. pc[q] = "fetch_password" /\ token' = token
      BY <2>3 DEF LoginFetch
    <3>2. CASE pc'[q] = "done" /\ row' = row
      BY <1>2, <3>1, <3>2, StageKept
    <3>3. CASE \E i \in Ids \cup {0} : /\ FetchOne(i) /\ Matches(q, i)
                                     /\ row' = [row EXCEPT ![q] = i] /\ Goto(q, "build")
      <4>1. PICK i \in Ids \cup {0} : /\ FetchOne(i) /\ Matches(q, i)
                                     /\ row' = [row EXCEPT ![q] = i] /\ Goto(q, "build")
        BY <3>3
      <4>2. i # 0 /\ users[i].password = req[q].password
        BY <4>1 DEF Matches
      <4>3. i \in 1..Len(users)
        BY <4>1, <4>2, Fetched
      <4>4. row'[q] = i /\ pc'[q] = "build"
        BY <1>1, <4>1 DEF Goto
      <4> QED BY <1>1, <1>2, <1>3, <1>4, <3>1, <4>2, <4>3, <4>4 DEF StageOf
    <3>4. CASE FetchFails /\ LogInfo(q) /\ row' = row
      BY <1>1, <3>2, <3>4 DEF LogInfo, Answer
    <3>5. CASE \E i \in Ids \cup {0} : FetchOne(i) /\ LogInfo(q) /\ row' = row
      BY <1>1, <3>2, <3>5 DEF LogInfo, Answer
    <3> QED BY <2>3, <3>3, <3>4, <3>5 DEF LoginFetch
  <2>4. CASE BuildFetch(q)
    <3>1. pc[q] = "fetch_data" /\ row' = row
      BY <2>4 DEF BuildFetch
    <3>2. CASE pc'[q] = "done" /\ token' = token
      BY <1>2, <3>1, <3>2, StageKept
    <3>3. CASE \E i \in Ids \cup {0} : i # 0 /\ token' = [token EXCEPT ![q] = i] /\ Goto(q, "create")
      <4>1. PICK i \in Ids \cup {0} : i # 0 /\ token' = [token EXCEPT ![q] = i] /\ Goto(q, "create")
        BY <3>3
      <4>2. token'[q] = i /\ pc'[q] = "create"
        BY <1>1, <4>1 DEF Goto
      <4>3. row[q] \in 1..Len(users)
        BY <1>1, <3>1 DEF StageOf
      <4> QED BY <1>1, <1>2, <1>3, <1>4, <3>1, <4>1, <4>2, <4>3 DEF StageOf
    <3>4. CASE FetchFails /\ LogInfo(q) /\ token' = token
      BY <1>1, <3>2, <3>4 DEF LogInfo, Answer
    <3>5. CASE \E i \in Ids \cup {0} : FetchOne(i) /\ LogInfo(q) /\ token' = token
      BY <1>1, <3>2, <3>5 DEF LogInfo, Answer
    <3> QED BY <2>4, <3>3, <3>4, <3>5 DEF BuildFetch
  <2>5. CASE LogoutCheck(q)
    <3>1. /\ pc[q] = "logout" /\ row' = row /\ token' = token
          /\ pc'[q] = "done" \/ (pc'[q] = "delete" /\ Authorized(q))
      BY <1>1, <2>5 DEF LogoutCheck, Goto, Answer
    <3>2. CASE pc'[q] = "done"
      BY <1>2, <3>1, <3>2, StageKept
    <3>3. CASE pc'[q] = "delete" /\ Authorized(q)
      <4>1. req[q].token # 0 /\ LoggedIn(req[q].token) # {}
        BY <3>3, AuthorizedWasLoggedIn
      <4>2. PICK t \in Ids \cup {0} : t = req[q].token
        BY <1>1 DEF Calls
      <4>3. row[q] # 0 => row[q] \in 1..Len(users)
        BY <1>1
      <4>4. LoggedIn(req[q].token)' # {}
        <5>1. LoggedIn(t)' # {}
          BY <4>1, <4>2, LoggedInGrows
        <5>2. req'[q].token = t
          BY <1>3, <4>2
        <5> QED BY <5>1, <5>2
      <4> QED BY <1>1, <1>2, <1>3, <1>4, <3>1, <3>3, <4>1, <4>3, <4>4 DEF StageOf
    <3> QED BY <3>1, <3>2, <3>3
  <2>6. CASE Insert(q) \/ CreateSession(q) \/ DeleteSession(q) \/ Show(q) \/ ExecuteFails(q) \/ RedisFails(q)
    <3>1. row' = row /\ token' = token /\ pc'[q] = "done"
      BY <1>1, <2>6 DEF Insert, CreateSession, DeleteSession, Show, ExecuteFails, RedisFails, LogInfo, Answer
    <3> QED BY <1>2, <3>1, StageKept
  <2> QED BY <1>7, <2>1, <2>2, <2>3, <2>4, <2>5, <2>6 DEF Handle
<1>8. CASE (\E t \in Ids : Expire(t)) \/ LoseConnection \/ Restart \/ UNCHANGED vars
  <2>1. row' = row /\ token' = token /\ (pc'[q] = pc[q] \/ pc'[q] = "done")
    BY <1>8 DEF Expire, LoseConnection, Restart, vars
  <2> QED BY <1>2, <2>1, StageKept
<1> QED BY <1>5, <1>6, <1>7, <1>8, NextCases

\* A session is made by a login only, under its token and for its user_id.
LEMMA SessionMade ==
  ASSUME AccountInv, [Next]_vars, NEW t \in Ids, sessions'[t] # 0
  PROVE  \/ sessions'[t] = sessions[t]
         \/ \E r \in Requests : pc[r] = "create" /\ token[r] = t /\ sessions'[t] = row[r]
<1> USE DEF tables, history
<1>1. sessions \in [Ids -> 0..Len(users)]
  BY DEF AccountInv, TypeOK
<1>2. ASSUME NEW r \in Requests, Handle(r),
             ~(pc[r] = "create" /\ token[r] = t /\ sessions'[t] = row[r])
      PROVE  sessions'[t] = sessions[t]
  <2>1. CASE \/ RegisterSelect(r) \/ RegisterFetch(r) \/ Insert(r)
             \/ LoginSelect(r) \/ LoginFetch(r) \/ BuildSelect(r) \/ BuildFetch(r)
             \/ LogoutCheck(r) \/ Show(r) \/ ExecuteFails(r)
    BY <2>1 DEF RegisterSelect, RegisterFetch, Insert, LoginSelect, LoginFetch, BuildSelect, BuildFetch,
                LogoutCheck, Show, ExecuteFails, Select, FetchOne, FetchFails
  <2>2. CASE CreateSession(r)
    BY <1>1, <1>2, <2>2 DEF CreateSession, Value
  <2>3. CASE DeleteSession(r)
    BY <1>1, <2>3 DEF DeleteSession
  <2>4. CASE RedisFails(r)
    BY <1>1, <1>2, <2>4 DEF RedisFails, Value
  <2> QED BY <1>2, <2>1, <2>2, <2>3, <2>4 DEF Handle
<1>3. CASE \/ \E r \in Requests : Call(r)
           \/ (\E u \in Ids : Expire(u)) \/ LoseConnection \/ Restart \/ UNCHANGED vars
  BY <1>1, <1>3 DEF Call, Expire, LoseConnection, Restart, vars
<1> QED BY <1>2, <1>3, NextCases

LEMMA PasswordNext ==
  ASSUME AccountInv, [Next]_vars
  PROVE  PasswordWasGiven'
<1>1. ASSUME NEW t \in Ids, sessions'[t] # 0
      PROVE  \E r \in LoggedIn(t)' : row'[r] = sessions'[t]
  <2>1. t # 0
    BY RegisteredRows, IdsSize DEF Ids
  <2>2. PICK r \in LoggedIn(t) : row[r] = sessions'[t]
    <3>1. CASE sessions'[t] = sessions[t]
      BY <1>1, <3>1 DEF AccountInv, PasswordWasGiven
    <3>2. CASE \E r \in Requests : pc[r] = "create" /\ token[r] = t /\ sessions'[t] = row[r]
      BY <3>2 DEF AccountInv, Stage, StageOf, LoggedIn
    <3> QED BY <1>1, <3>1, <3>2, SessionMade
  <2> QED BY <2>1, <2>2, LoggedInGrows
<1>2. ASSUME NEW q \in Requests, reply'[q] = 200
      PROVE  LoggedIn(req[q].token)' # {}
  <2>1. req' = req /\ req[q] \in Calls
    BY VariablesKept DEF AccountInv, TypeOK
  <2>2. PICK t \in Ids \cup {0} : t = req[q].token
    BY <2>1 DEF Calls
  <2>3. LoggedIn(t)' # {}
    BY <1>2, <2>2, AcceptedToken, LoggedInGrows
  <2>4. req'[q].token = t
    BY <2>1, <2>2
  <2> QED BY <2>3, <2>4
<1> QED BY <1>1, <1>2 DEF PasswordWasGiven

-----------------------------------------------------------------------------
\* Requests that are alone

\* A handler only runs between its call and its answer.
LEMMA HandlersAreBusy ==
  ASSUME NEW r \in Requests, Handle(r)
  PROVE  r \in Busy
BY DEF Busy, Handle, RegisterSelect, RegisterFetch, Insert, LoginSelect, LoginFetch, BuildSelect,
       BuildFetch, CreateSession, LogoutCheck, DeleteSession, Show, ExecuteFails, RedisFails

\* Who is alone comes to an idle process, or was alone before; while it is
\* handled no step but its own and the end of a session lets it stay alone.
LEMMA AloneBefore ==
  ASSUME AccountInv, [Next]_vars, NEW q \in Requests, alone'[q] = TRUE, pc'[q] # "away"
  PROVE  \/ Call(q) /\ Busy = {} /\ connected = TRUE
         \/ alone[q] = TRUE /\ pc[q] = "done" /\ pc'[q] = "done"
         \/ /\ alone[q] = TRUE /\ q \in Busy
            /\ Handle(q) \/ (\E t \in Ids : Expire(t)) \/ UNCHANGED vars
<1> USE DEF tables, history
<1>1. pc \in [Requests -> Labels]
  BY DEF AccountInv, TypeOK, Labels
<1>2. alone[q] \in BOOLEAN /\ connected \in BOOLEAN /\ q \in Requests
  BY Zenon DEF AccountInv, TypeOK
<1>3. pc[q] \in {"away", "done"} \/ q \in Busy
  BY DEF Busy
<1>4. CASE Call(q)
  <2>1. alone'[q] = (Busy = {} /\ connected)
    BY <1>4, Zenon DEF Call
  <2>2. Busy = {} /\ connected
    BY <2>1, Zenon
  <2> QED BY <1>2, <1>4, <2>2
<1>5. ASSUME NEW r \in Requests, r # q, Call(r) PROVE alone[q] = TRUE /\ pc[q] = "done" /\ pc'[q] = "done"
  <2>1. alone'[q] = (alone[q] /\ q \notin Busy)
    BY <1>5, Zenon DEF Call
  <2>2. alone[q] = TRUE /\ q \notin Busy
    BY <1>2, <2>1, Zenon
  <2>3. pc'[q] = pc[q]
    BY <1>5, OthersKept
  <2> QED BY <1>3, <2>2, <2>3
<1>6. ASSUME Handle(q) PROVE alone[q] = TRUE /\ q \in Busy
  BY <1>6, HandlersAreBusy, HandlerSteps DEF HandlerStep
<1>7. ASSUME NEW r \in Requests, r # q, Handle(r)
      PROVE  alone[q] = TRUE /\ pc[q] = "done" /\ pc'[q] = "done"
  <2>1. alone[q] = TRUE /\ pc'[q] = pc[q] /\ r \in Busy
    BY <1>7, OthersKept, HandlersAreBusy, HandlerSteps DEF HandlerStep
  <2>2. q \notin Busy
    BY <1>7, <2>1 DEF AccountInv, AloneStage, AloneOf
  <2> QED BY <1>3, <2>1, <2>2
<1>8. ASSUME (\E t \in Ids : Expire(t)) \/ UNCHANGED vars PROVE alone[q] = TRUE /\ pc'[q] = pc[q]
  BY <1>8 DEF Expire, vars
<1>9. ASSUME LoseConnection \/ Restart PROVE alone[q] = TRUE /\ pc[q] = "done" /\ pc'[q] = "done"
  <2>1. alone'[q] = (alone[q] /\ q \notin Busy)
    BY <1>9, Zenon DEF LoseConnection, Restart
  <2>2. alone[q] = TRUE /\ q \notin Busy
    BY <1>2, <2>1, Zenon
  <2>3. pc'[q] = pc[q]
    BY <1>9, <2>2 DEF LoseConnection, Restart
  <2> QED BY <1>3, <2>2, <2>3
<1> QED BY <1>3, <1>4, <1>5, <1>6, <1>7, <1>8, <1>9, NextCases

\* What was in the table when a request came stays there.
LEMMA OwnKept ==
  ASSUME AccountInv, [Next]_vars, NEW q \in Requests, pc[q] # "away"
  PROVE  Own(q)' = Own(q) /\ Good(q)' = Good(q) /\ 0 \notin Own(q) /\ 0 \notin Good(q)
<1>1. req' = req /\ before'[q] = before[q] /\ before[q] \in 0..Len(users) /\ Len(users) \in Nat
  BY VariablesKept DEF AccountInv, TypeOK
<1>2. \A i \in 1..before[q] : users'[i] = users[i]
  BY <1>1, UsersGrow
<1>3. Own(q)' = Own(q)
  BY <1>1, <1>2 DEF Own
<1>4. \A i \in Own(q) : users'[i] = users[i]
  BY <1>2 DEF Own
<1>5. Good(q)' = Good(q)
  BY <1>1, <1>3, <1>4 DEF Good
<1> QED BY <1>1, <1>3, <1>5 DEF Own, Good

\* Alone, the statement on the cursor is the request's own.
LEMMA OwnSelected ==
  ASSUME AccountInv, NEW q \in Requests, before[q] = Len(users)
  PROVE  WithLogin(req[q].login) = Own(q)
BY DEF WithLogin, Own

\* What a request that is alone does in one step, given that it was right so far.
LEMMA AloneStep ==
  ASSUME AccountInv, [Next]_vars, NEW q \in Requests, alone[q] = TRUE, q \in Busy, Handle(q)
  PROVE  /\ pc'[q] # "done" => AloneOf(q)'
         /\ pc'[q] = "done" => /\ req[q].op = "register" => RegisterIsRight(q)'
                               /\ req[q].op = "login" => LoginIsRight(q)'
<1> USE DEF tables, history
<1>1. /\ pc \in [Requests -> Labels] /\ row \in [Requests -> 0..Len(users)]
      /\ token \in [Requests -> 0..Len(users)] /\ Len(users) \in Nat /\ q \in Requests
      /\ StageOf(q)
  BY DEF AccountInv, TypeOK, Labels, Stage
<1>2. /\ Busy = {q} /\ connected = TRUE /\ before[q] = Len(users)
      /\ pc[q] \in {"fetch_login", "fetch_password"} => cursor = Own(q)
      /\ pc[q] = "insert" => Own(q) = {}
      /\ pc[q] \in {"build", "fetch_data", "create"} => row[q] \in Good(q)
      /\ pc[q] = "fetch_data" => cursor = {row[q]}
      /\ pc[q] = "create" => token[q] = row[q]
  BY DEF AccountInv, AloneStage, AloneOf
<1>3. /\ Own(q)' = Own(q) /\ Good(q)' = Good(q) /\ 0 \notin Own(q) /\ 0 \notin Good(q)
      /\ WithLogin(req[q].login) = Own(q)
  BY <1>1, <1>2, OwnKept, OwnSelected DEF StageOf, Busy
<1>4. /\ UNCHANGED <<req, before, connected, alone>>
      /\ \E l \in Labels \ {"away"} : pc' = [pc EXCEPT ![q] = l]
  BY HandlerSteps DEF HandlerStep
<1>5. pc'[q] # "done" => Busy' = {q}
  BY <1>1, <1>2, <1>4 DEF Busy
<1>6. ASSUME ~Insert(q) PROVE users' = users
  BY <1>6 DEF Handle, RegisterSelect, RegisterFetch, LoginSelect, LoginFetch, BuildSelect, BuildFetch,
              CreateSession, LogoutCheck, DeleteSession, Show, ExecuteFails, RedisFails, Select,
              FetchOne, FetchFails
<1>7. ASSUME pc'[q] # "done", users' = users,
             pc'[q] \in {"fetch_login", "fetch_password"} => cursor' = Own(q),
             pc'[q] = "insert" => Own(q) = {},
             pc'[q] \in {"build", "fetch_data", "create"} => row'[q] \in Good(q),
             pc'[q] = "fetch_data" => cursor' = {row'[q]},
             pc'[q] = "create" => token'[q] = row'[q]
      PROVE  AloneOf(q)'
  BY <1>2, <1>3, <1>4, <1>5, <1>7 DEF AloneOf
<1>8. cursor # NoResult \/ pc[q] \notin {"fetch_login", "fetch_password", "fetch_data"}
  BY <1>2, <1>3 DEF NoResult
<1>9. ASSUME req[q].op = "login", row'[q] = 0, token'[q] = 0, \/ Own(q) = {} \/ Good(q) # Own(q)
      PROVE  LoginIsRight(q)'
  BY <1>3, <1>9 DEF LoginIsRight
<1>10. CASE RegisterSelect(q) \/ LoginSelect(q) \/ BuildSelect(q)
  <2>1. /\ row' = row /\ token' = token /\ users' = users
        /\ \/ pc[q] = "register" /\ pc'[q] = "fetch_login" /\ cursor' = Own(q)
           \/ pc[q] = "login" /\ pc'[q] = "fetch_password" /\ cursor' = Own(q)
           \/ pc[q] = "build" /\ pc'[q] = "fetch_data" /\ cursor' = {row[q]}
    BY <1>1, <1>3, <1>10 DEF RegisterSelect, LoginSelect, BuildSelect, Goto, Select
  <2> QED BY <1>2, <1>7, <2>1
<1>11. CASE RegisterFetch(q)
  <2>1. PICK i \in Ids \cup {0} :
          FetchOne(i) /\ IF IsFree(i) THEN Goto(q, "insert") ELSE LogInfo(q)
    BY <1>2, <1>8, <1>11 DEF RegisterFetch, FetchFails
  <2>2. pc[q] = "fetch_login" /\ users' = users /\ cursor = Own(q) /\ (i = 0 <=> Own(q) = {})
    BY <1>2, <1>11, <2>1, Fetched DEF RegisterFetch, FetchOne
  <2>3. CASE i = 0
    BY <1>1, <1>7, <2>1, <2>2, <2>3 DEF IsFree, Goto
  <2>4. CASE i # 0
    <3>1. pc'[q] = "done" /\ Own(q)' # {}
      BY <1>1, <1>3, <2>1, <2>2, <2>4 DEF IsFree, LogInfo, Answer
    <3>2. q \notin Adders
      BY <2>2 DEF AccountInv, RowsOnce
    <3>3. req[q].op = "register"
      BY <1>1, <2>2 DEF StageOf
    <3> QED BY <2>2, <3>1, <3>2, <3>3 DEF RegisterIsRight, Adders
  <2> QED BY <2>3, <2>4
<1>12. CASE Insert(q)
  <2>1. pc'[q] = "done" /\ Own(q) = {} /\ req[q].op = "register" /\ pc[q] = "insert"
    BY <1>1, <1>2, <1>12 DEF Insert, LogInfo, Answer, StageOf
  <2>r. RegisterIsRight(q)' <=> (q \in Adders' <=> Own(q)' = {} /\ req[q].fits)
    BY <1>4, Zenon DEF RegisterIsRight, Adders
  <2>2. CASE req[q].fits
    <3>1. AddsRow(q)
      BY <1>12, <2>2 DEF Insert, LogInfo, Answer, AddsRow
    <3>2. q \in Adders'
      BY <3>1, UsersGrow
    <3>3. RegisterIsRight(q)'
      BY <1>3, <2>1, <2>2, <2>r, <3>2, Zenon
    <3> QED BY <2>1, <3>3
  <2>3. CASE ~req[q].fits
    <3>1. users' = users
      BY <1>12, <2>3 DEF Insert
    <3>2. q \notin Adders
      BY <1>2, <2>1 DEF AccountInv, RowsOnce
    <3>3. q \notin Adders'
      BY <3>1, <3>2 DEF Adders
    <3>4. RegisterIsRight(q)'
      BY <2>3, <2>r, <3>3, Zenon
    <3> QED BY <2>1, <3>4
  <2> QED BY <2>2, <2>3
<1>13. CASE LoginFetch(q)
  <2>1. PICK i \in Ids \cup {0} :
          /\ FetchOne(i)
          /\ IF Matches(q, i) THEN row' = [row EXCEPT ![q] = i] /\ Goto(q, "build")
                              ELSE LogInfo(q) /\ UNCHANGED row
    BY <1>2, <1>8, <1>13 DEF LoginFetch, FetchFails
  <2>2. /\ pc[q] = "fetch_password" /\ users' = users /\ cursor = Own(q) /\ (i = 0 <=> Own(q) = {})
        /\ (i # 0 => i \in Own(q)) /\ token' = token /\ row[q] = 0 /\ token[q] = 0
        /\ req[q].op = "login"
    BY <1>1, <1>2, <1>13, <2>1, Fetched DEF LoginFetch, FetchOne, StageOf
  <2>3. CASE Matches(q, i)
    <3>1. i \in Good(q)
      BY <2>2, <2>3 DEF Matches, Good
    <3>2. pc'[q] = "build" /\ row'[q] = i
      BY <1>1, <2>1, <2>3 DEF Goto
    <3> QED BY <1>7, <2>2, <3>1, <3>2
  <2>4. CASE ~Matches(q, i)
    <3>1. pc'[q] = "done" /\ row'[q] = 0 /\ token'[q] = 0
      BY <1>1, <2>1, <2>2, <2>4 DEF LogInfo, Answer
    <3>2. Own(q) = {} \/ Good(q) # Own(q)
      BY <2>2, <2>4 DEF Matches, Good
    <3> QED BY <1>9, <2>2, <3>1, <3>2
  <2> QED BY <2>3, <2>4
<1>14. CASE BuildFetch(q)
  <2>1. PICK i \in Ids \cup {0} :
          /\ FetchOne(i)
          /\ IF i = 0 THEN LogInfo(q) /\ UNCHANGED token
             ELSE token' = [token EXCEPT ![q] = i] /\ Goto(q, "create")
    BY <1>2, <1>8, <1>14 DEF BuildFetch, FetchFails
  <2>2. pc[q] = "fetch_data" /\ users' = users /\ row' = row /\ i = row[q] /\ i # 0 /\ row[q] \in Good(q)
    BY <1>1, <1>2, <1>14, <2>1 DEF BuildFetch, FetchOne, StageOf
  <2>3. pc'[q] = "create" /\ token'[q] = i
    BY <1>1, <2>1, <2>2 DEF Goto
  <2> QED BY <1>7, <2>2, <2>3
<1>15. CASE CreateSession(q) \/ (RedisFails(q) /\ pc[q] = "create")
  <2>1. /\ row' = row /\ token' = token /\ pc'[q] = "done" /\ pc[q] = "create"
        /\ req[q].op = "login"
    BY <1>1, <1>15 DEF CreateSession, RedisFails, LogInfo, Answer, StageOf
  <2>2. token[q] = row[q] /\ row[q] \in Good(q) /\ token[q] # 0
    BY <1>1, <1>2, <2>1 DEF StageOf
  <2> QED BY <1>3, <2>1, <2>2 DEF LoginIsRight
<1>16. CASE \/ LogoutCheck(q) \/ DeleteSession(q) \/ Show(q)
            \/ (RedisFails(q) /\ pc[q] # "create")
  <2>1. pc[q] \in {"logout", "delete", "me"} /\ pc'[q] \in {"delete", "done"}
    BY <1>1, <1>16 DEF LogoutCheck, DeleteSession, Show, RedisFails, Goto, Answer
  <2>2. req[q].op \notin {"register", "login"}
    BY <1>1, <2>1 DEF StageOf
  <2>3. users' = users
    BY <1>16 DEF LogoutCheck, DeleteSession, Show, RedisFails
  <2> QED BY <1>7, <2>1, <2>2, <2>3
<1>17. ~ExecuteFails(q)
  BY <1>2 DEF ExecuteFails
<1> QED BY <1>10, <1>11, <1>12, <1>13, <1>14, <1>15, <1>16, <1>17 DEF Handle

LEMMA AloneNext ==
  ASSUME AccountInv, [Next]_vars
  PROVE  AloneStage' /\ AloneIsRight'
<1> SUFFICES ASSUME NEW q \in Requests
             PROVE  /\ AloneOf(q)'
                    /\ pc'[q] = "done" /\ alone'[q] =>
                         /\ req'[q].op = "register" => RegisterIsRight(q)'
                         /\ req'[q].op = "login" => LoginIsRight(q)'
  BY Zenon DEF AloneStage, AloneIsRight
<1>1. req' = req /\ pc \in [Requests -> Labels] /\ before[q] \in 0..Len(users) /\ Len(users) \in Nat
  BY VariablesKept DEF AccountInv, TypeOK, Labels
<1>2. alone'[q] \in BOOLEAN
  BY TypeNext, Zenon DEF TypeOK
<1>3. CASE alone'[q] # TRUE \/ pc'[q] = "away"
  BY <1>2, <1>3 DEF AloneOf, Busy
<1>4. CASE Call(q) /\ Busy = {} /\ connected = TRUE
  <2>1. /\ pc' = [pc EXCEPT ![q] = req[q].op] /\ before'[q] = Len(users)
        /\ users' = users /\ connected' = TRUE
    BY <1>4 DEF Call, tables, AccountInv, TypeOK
  <2>2. req[q].op \in {"register", "login", "logout", "me"}
    <3>1. req \in [Requests -> Calls]
      BY DEF AccountInv, TypeOK
    <3>2. req[q] \in Calls
      BY <3>1, Zenon
    <3> QED BY <3>2 DEF Calls
  <2>3. Busy' \subseteq {q}
    BY <1>1, <1>4, <2>1 DEF Busy
  <2>4. pc'[q] = req[q].op
    BY <1>1, <2>1
  <2> QED BY <2>1, <2>2, <2>3, <2>4 DEF AloneOf
<1>5. CASE alone[q] = TRUE /\ pc[q] = "done" /\ pc'[q] = "done"
  <2>1. /\ req[q].op = "register" => RegisterIsRight(q)
        /\ req[q].op = "login" => LoginIsRight(q)
    <3>1. AloneIsRight
      BY Zenon DEF AccountInv
    <3> QED BY <1>5, <3>1 DEF AloneIsRight
  <2>2. Own(q)' = Own(q) /\ Good(q)' = Good(q)
    BY <1>5, OwnKept
  <2>3. row'[q] = row[q] /\ token'[q] = token[q]
    BY <1>5, VariablesKept
  <2>4. q \in Adders' <=> q \in Adders
    <3>1. \A r \in Requests : AddsRow(r) => r # q
      BY <1>5 DEF AddsRow
    <3> QED BY <3>1, UsersChange, UsersGrow
  <2>5. RegisterIsRight(q)' <=> RegisterIsRight(q)
    <3>1. RegisterIsRight(q)' <=> (q \in Adders' <=> Own(q)' = {} /\ req[q].fits)
      BY <1>1, Zenon DEF RegisterIsRight, Adders
    <3>2. RegisterIsRight(q) <=> (q \in Adders <=> Own(q) = {} /\ req[q].fits)
      BY Zenon DEF RegisterIsRight, Adders
    <3> QED BY <2>2, <2>4, <3>1, <3>2, Zenon
  <2>6. LoginIsRight(q)' <=> LoginIsRight(q)
    BY <2>2, <2>3 DEF LoginIsRight
  <2> QED BY <1>1, <1>5, <2>1, <2>5, <2>6 DEF AloneOf, Busy
<1>6. CASE alone[q] = TRUE /\ q \in Busy /\ Handle(q)
  <2>1. pc'[q] = "done" => AloneOf(q)'
    BY DEF AloneOf, Busy
  <2>2. /\ pc'[q] # "done" => AloneOf(q)'
        /\ pc'[q] = "done" => /\ req[q].op = "register" => RegisterIsRight(q)'
                              /\ req[q].op = "login" => LoginIsRight(q)'
    BY <1>6, AloneStep
  <2> QED BY <1>1, <2>1, <2>2
<1>7. CASE alone[q] = TRUE /\ q \in Busy /\ ((\E t \in Ids : Expire(t)) \/ UNCHANGED vars)
  <2>1. UNCHANGED <<users, cursor, connected, req, pc, row, token, before, alone>>
    BY <1>7 DEF Expire, vars, tables, history
  <2>2. AloneOf(q)' <=> AloneOf(q)
    BY <2>1 DEF AloneOf, Busy, Own, Good
  <2>3. pc'[q] # "done"
    BY <1>7, <2>1 DEF Busy
  <2> QED BY <2>2, <2>3 DEF AccountInv, AloneStage
<1> QED BY <1>2, <1>3, <1>4, <1>5, <1>6, <1>7, AloneBefore

-----------------------------------------------------------------------------
\* The theorems

\* The inductive invariant: what the handlers' variables say at each point of
\* their code, and with it the three properties below.
THEOREM AccountInvariant == Spec => []AccountInv
<1>1. AccountInv /\ [Next]_vars => AccountInv'
  BY TypeNext, RowsNext, StageNext, PasswordNext, AloneNext DEF AccountInv
<1> QED BY <1>1, AccountInit, PTL DEF Spec

\* Types: whatever threads take from each other's cursor, user_id and token_
\* are ids of rows that the table has.
THEOREM TypeCorrect == Spec => []TypeOK
BY AccountInvariant, PTL DEF AccountInv

\* Whatever the interleaving and whatever is lost or killed half-way, every
\* session is for a user whose password a login gave, and every request that
\* is accepted has the token of such a login.
THEOREM PasswordsWereGiven == Spec => []PasswordWasGiven
BY AccountInvariant, PTL DEF AccountInv

\* A request that no other overlaps is answered as the handlers were meant to,
\* also after requests that were mixed up, failures and restarts.
THEOREM AloneRequestsAreRight == Spec => []AloneIsRight
BY AccountInvariant, PTL DEF AccountInv
=============================================================================
