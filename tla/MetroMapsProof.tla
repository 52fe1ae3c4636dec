---------------------------- MODULE MetroMapsProof ----------------------------
(***************************************************************************)
(* What MetroMaps ensures for any number of clients, cores and failures:    *)
(* no two handlers of a chain ever run at the same time, the chain of        *)
(* accepts does not break, and an answer is the one to the client's request. *)
(***************************************************************************)
EXTENDS MetroMaps, FiniteSetTheorems, TLAPS

USE NoClientAssumption, CoresAssumption, MaxErrorsAssumption, AsksAssumption

-----------------------------------------------------------------------------
\* A chain: its links are those of some kinds and some clients, wherever they are.
In(x, K, C) == x.kind \in K /\ x.c \in C

None(K, C) ==
  /\ \A x \in pending : ~In(x, K, C)
  /\ \A x \in ready : ~In(x, K, C)
  /\ \A i \in DOMAIN thread : ~In(thread[i], K, C)

\* One link at most, among the three places it can be in.
One(K, C) ==
  /\ \A x, y \in pending : In(x, K, C) /\ In(y, K, C) => x = y
  /\ \A x, y \in ready : In(x, K, C) /\ In(y, K, C) => x = y
  /\ \A i, j \in DOMAIN thread : In(thread[i], K, C) /\ In(thread[j], K, C) => i = j
  /\ \A x \in pending, y \in ready : ~(In(x, K, C) /\ In(y, K, C))
  /\ \A x \in pending, i \in DOMAIN thread : ~(In(x, K, C) /\ In(thread[i], K, C))
  /\ \A x \in ready, i \in DOMAIN thread : ~(In(x, K, C) /\ In(thread[i], K, C))

\* A link that completes stays in its chain; one can enter a chain that has none.
LEMMA Completes ==
  ASSUME NEW K, NEW C, NEW op, NEW h, Complete(op, h), One(K, C),
         In(h, K, C) => In(op, K, C) \/ None(K, C)
  PROVE  /\ One(K, C)'
         /\ ~None(K, C) /\ (In(op, K, C) => In(h, K, C)) => ~None(K, C)'
         /\ None(K, C) /\ ~In(h, K, C) => None(K, C)'
<1>1. op \in pending /\ pending' = pending \ {op} /\ ready' = ready \cup {h} /\ thread' = thread
  BY DEF Complete
<1> QED BY <1>1 DEF One, None

\* A thread that is idle takes a handler.
LEMMA Runs ==
  ASSUME NEW K, NEW C, NEW i \in DOMAIN thread, run(i), One(K, C), "idle" \notin K
  PROVE  One(K, C)' /\ (None(K, C)' <=> None(K, C))
<1>1. PICK h \in ready : ready' = ready \ {h} /\ thread' = [thread EXCEPT ![i] = h]
  BY DEF run
<1>2. pending' = pending /\ DOMAIN thread' = DOMAIN thread /\ ~In(thread[i], K, C)
  BY <1>1 DEF run, In, Idle, Link
<1>3. thread'[i] = h /\ \A j \in DOMAIN thread : j # i => thread'[j] = thread[j]
  BY <1>1
<1>4. One(K, C)'
  BY <1>1, <1>2, <1>3 DEF One
<1>5. None(K, C)' <=> None(K, C)
  BY <1>1, <1>2, <1>3 DEF None
<1> QED BY <1>4, <1>5

\* A handler puts in the place of its link what it begins or goes on to.
LEMMA Handles ==
  ASSUME NEW K, NEW C, NEW i \in DOMAIN thread, NEW kind, NEW begun, NEW next,
         Handler(i, kind, begun, next), One(K, C),
         \A x, y \in begun : In(x, K, C) /\ In(y, K, C) => x = y,
         \A x \in begun : ~(In(x, K, C) /\ In(next, K, C)),
         In(next, K, C) => In(thread[i], K, C),
         \A x \in begun : In(x, K, C) => In(thread[i], K, C)
  PROVE  /\ One(K, C)'
         /\ None(K, C) => None(K, C)'
         /\ ~None(K, C) /\ (In(thread[i], K, C) => In(next, K, C) \/ \E x \in begun : In(x, K, C))
              => ~None(K, C)'
<1>1. /\ thread' = [thread EXCEPT ![i] = next] /\ pending' = pending \cup begun /\ ready' = ready
      /\ DOMAIN thread' = DOMAIN thread
  BY DEF Handler
<1>2. thread'[i] = next /\ \A j \in DOMAIN thread : j # i => thread'[j] = thread[j]
  BY <1>1
<1>3. One(K, C)'
  BY <1>1, <1>2 DEF One
<1>4. None(K, C) => None(K, C)'
  BY <1>1, <1>2 DEF None
<1>5. ~None(K, C) /\ (In(thread[i], K, C) => In(next, K, C) \/ \E x \in begun : In(x, K, C))
        => ~None(K, C)'
  BY <1>1, <1>2 DEF None
<1> QED BY <1>3, <1>4, <1>5

LEMMA SmallSet ==
  ASSUME NEW S, \A x, y \in S : x = y
  PROVE  (S = {} => Cardinality(S) = 0) /\ (S # {} => Cardinality(S) = 1)
<1>1. CASE S = {}
  BY <1>1, FS_EmptySet
<1>2. CASE S # {}
  <2>1. PICK x \in S : TRUE
    BY <1>2
  <2>2. S = {x}
    BY <2>1
  <2> QED BY <1>2, <2>2, FS_Singleton
<1> QED BY <1>1, <1>2

\* What One says of the number of links that the model counts.
LEMMA OneIsOne ==
  ASSUME NEW K, NEW C, One(K, C)
  PROVE  /\ LinksOf(K, C) \in {0, 1}
         /\ ~None(K, C) => LinksOf(K, C) = 1
<1> DEFINE P == {x \in pending : x.kind \in K /\ x.c \in C}
           R == {x \in ready : x.kind \in K /\ x.c \in C}
           T == {i \in DOMAIN thread : thread[i].kind \in K /\ thread[i].c \in C}
<1>1. (\A x, y \in P : x = y) /\ (\A x, y \in R : x = y) /\ (\A x, y \in T : x = y)
  BY DEF One, In
<1>2. (P = {} /\ R = {}) \/ (P = {} /\ T = {}) \/ (R = {} /\ T = {})
  BY DEF One, In
<1>3. ~None(K, C) => P # {} \/ R # {} \/ T # {}
  BY DEF None, In
<1>4. LinksOf(K, C) = Cardinality(P) + Cardinality(R) + Cardinality(T)
  BY DEF LinksOf
<1> HIDE DEF P, R, T
<1>5. /\ P = {} => Cardinality(P) = 0
      /\ P # {} => Cardinality(P) = 1
      /\ R = {} => Cardinality(R) = 0
      /\ R # {} => Cardinality(R) = 1
      /\ T = {} => Cardinality(T) = 0
      /\ T # {} => Cardinality(T) = 1
  BY <1>1, SmallSet
<1> QED BY <1>2, <1>3, <1>4, <1>5

\* A part of a chain.
LEMMA OneOfPart ==
  ASSUME NEW K, NEW C, NEW L, L \subseteq K, One(K, C)
  PROVE  One(L, C)
BY DEF One, In

-----------------------------------------------------------------------------
\* The inductive invariant

Accepting == {"accept", "rearm"}
Everyone == Clients \cup {NoClient}
Serving == {"accept", "read", "write"}

\* The two kinds of chains.  That of a client begins when its socket is
\* accepted, in the link of the other one.
AcceptChain == One(Accepting, Everyone) /\ (main = "join" => ~None(Accepting, Everyone))
ClientChains == \A c \in Clients : One(Serving, {c}) /\ (c \notin accepted => None(Serving, {c}))

\* A read that has succeeded has read a request that can be answered.
Sane(x) == x.kind = "read" /\ x.ok = TRUE => x.c \in Clients /\ request[x.c] \in Sound
ReadsAreSound == (\A x \in ready : Sane(x)) /\ (\A i \in DOMAIN thread : Sane(thread[i]))

\* The member response and what was sent of it answer the client's request.
Answers(answer, c) == answer = <<>> \/ (request[c] \in Sound /\ answer = handle_req(request[c]))
AnswersAreOwn == \A c \in Clients : Answers(response[c], c) /\ Answers(got[c], c)

\* Nothing happens before main has made the server.
NothingYet ==
  main = "start" => /\ pending = {} /\ ready = {} /\ accepted = {}
                    /\ \A i \in DOMAIN thread : thread[i] = Idle

MetroInv == TypeOK /\ AcceptChain /\ ClientChains /\ ReadsAreSound /\ AnswersAreOwn /\ NothingYet

LEMMA MetroInit == Init => MetroInv
<1> SUFFICES ASSUME Init PROVE MetroInv
  OBVIOUS
<1>1. /\ main = "start" /\ pending = {} /\ ready = {} /\ accepted = {}
      /\ \A i \in DOMAIN thread : thread[i] = Idle
      /\ \A c \in Clients : response[c] = <<>> /\ got[c] = <<>>
  BY DEF Init
<1>2. /\ main \in {"start", "join", "returned", "failed"}
      /\ pending \subseteq Links /\ ready \subseteq Links
      /\ accepted \subseteq Clients /\ errors \in 0 .. MaxErrors
  BY DEF Init
<1>3. \E n \in CoreCounts : thread \in [1 .. n \div 2 -> Links \cup {Idle, Ended}]
  BY DEF Init
<1>4. stopped \in BOOLEAN /\ signalled \in BOOLEAN
  BY Zenon DEF Init
<1>5. /\ response \in [Clients -> {<<>>} \cup {handle_req(r) : r \in Sound}]
      /\ got \in [Clients -> {<<>>} \cup {handle_req(r) : r \in Sound}]
  BY DEF Init
<1>6. /\ client \in [Clients -> {"away", "connected", "left"}]
      /\ request \in [Clients -> Requests]
  BY DEF Init, Requests
<1>7. TypeOK
  BY <1>2, <1>3, <1>4, <1>5, <1>6 DEF TypeOK
<1>8. \A i \in DOMAIN thread : thread[i].kind = "idle"
  BY <1>1 DEF Idle, Link
<1>9. \A C : None(Accepting, C) /\ None(Serving, C) /\ One(Accepting, C) /\ One(Serving, C)
  BY <1>1, <1>8 DEF None, One, In, Accepting, Serving
<1>10. AcceptChain /\ ClientChains
  BY <1>1, <1>9 DEF AcceptChain, ClientChains
<1>11. ReadsAreSound /\ AnswersAreOwn /\ NothingYet
  BY <1>1, <1>8 DEF ReadsAreSound, Sane, AnswersAreOwn, Answers, NothingYet
<1> QED BY <1>7, <1>10, <1>11 DEF MetroInv

-----------------------------------------------------------------------------
\* Types

\* A handler leaves links of the types that there are.
LEMMA HandlerTypes ==
  ASSUME TypeOK, NEW i \in DOMAIN thread, NEW kind, NEW begun, NEW next,
         Handler(i, kind, begun, next), begun \subseteq Links, next \in Links \cup {Idle, Ended}
  PROVE  /\ \E n \in CoreCounts : thread' \in [1 .. n \div 2 -> Links \cup {Idle, Ended}]
         /\ pending' \subseteq Links /\ UNCHANGED <<main, ready, clientVars, systemVars>>
<1>1. PICK n \in CoreCounts : thread \in [1 .. n \div 2 -> Links \cup {Idle, Ended}]
  BY DEF TypeOK
<1>2. thread' \in [1 .. n \div 2 -> Links \cup {Idle, Ended}]
  BY <1>1 DEF Handler
<1> QED BY <1>1, <1>2 DEF Handler, TypeOK

\* What a thread runs is a link, unless it is idle or has ended.
LEMMA Running ==
  ASSUME TypeOK, NEW i \in DOMAIN thread
  PROVE  /\ thread[i] \in Links \cup {Idle, Ended}
         /\ thread[i].kind \in {"accept", "rearm", "read", "write", "signal"} => thread[i] \in Links
<1>1. PICK n \in CoreCounts : thread \in [1 .. n \div 2 -> Links \cup {Idle, Ended}]
  BY DEF TypeOK
<1> QED BY <1>1 DEF Idle, Ended, Link

\* The links that the code makes are links.
LEMMA LinkTypes ==
  ASSUME NEW kind \in {"accept", "rearm", "read", "write", "signal"}, NEW c \in Everyone,
         NEW ok \in BOOLEAN
  PROVE  Link(kind, c, ok) \in Links
BY Zenon DEF Link, Links, Everyone

\* A completion turns a link to another of the same kind and client; only an
\* accept gets a client, one whose socket was not taken before.
Completed(op, h) ==
  /\ Complete(op, h) /\ op \in Links /\ h \in Links /\ op.kind = h.kind /\ Sane(h)
  /\ \/ op.c = h.c /\ accepted' = accepted
     \/ op.kind = "accept" /\ h.c \in Clients \ accepted /\ accepted' = accepted \cup {h.c}

LEMMA Completions ==
  ASSUME AcceptFails \/ \E c \in Clients : Completion(c)
  PROVE  \E op, h : Completed(op, h)
<1>1. TRUE \in BOOLEAN /\ FALSE \in BOOLEAN /\ NoClient \in Everyone /\ Clients \subseteq Everyone
  BY Zenon DEF Everyone
<1>2. CASE AcceptFails
  <2>1. Link("accept", NoClient, TRUE) \in Links /\ Link("accept", NoClient, FALSE) \in Links
    BY <1>1, LinkTypes
  <2>2. Completed(Link("accept", NoClient, TRUE), Link("accept", NoClient, FALSE))
    BY <1>2, <2>1 DEF AcceptFails, Completed, Link, Sane
  <2> QED BY <2>2
<1>3. ASSUME NEW c \in Clients, Accepted(c) PROVE \E op, h : Completed(op, h)
  <2>1. Link("accept", NoClient, TRUE) \in Links /\ Link("accept", c, TRUE) \in Links
    BY <1>1, LinkTypes
  <2>2. Completed(Link("accept", NoClient, TRUE), Link("accept", c, TRUE))
    BY <1>3, <2>1 DEF Accepted, Completed, Link, Sane
  <2> QED BY <2>2
<1>4. ASSUME NEW c \in Clients, ReadDone(c) PROVE \E op, h : Completed(op, h)
  <2>1. PICK ok \in BOOLEAN :
          /\ IF request[c] \in Sound THEN ok \/ client[c] = "left" ELSE ~ok
          /\ Complete(Link("read", c, TRUE), Link("read", c, ok))
    BY <1>4, Zenon DEF ReadDone
  <2>2. Link("read", c, TRUE) \in Links /\ Link("read", c, ok) \in Links
    BY <1>1, LinkTypes
  <2>3. ok = TRUE => request[c] \in Sound
    BY <2>1, Zenon
  <2>4. accepted' = accepted
    BY <1>4 DEF ReadDone, systemVars
  <2>5. Completed(Link("read", c, TRUE), Link("read", c, ok))
    BY <2>1, <2>2, <2>3, <2>4 DEF Completed, Link, Sane
  <2> QED BY <2>5
<1>5. ASSUME NEW c \in Clients, WriteDone(c) PROVE \E op, h : Completed(op, h)
  <2>1. PICK ok \in BOOLEAN : ok = (client[c] # "left")
    BY Zenon
  <2>2. Link("write", c, TRUE) \in Links /\ Link("write", c, ok) \in Links
    BY <1>1, LinkTypes
  <2>3. Complete(Link("write", c, TRUE), Link("write", c, ok)) /\ accepted' = accepted
    BY <1>5, <2>1, Zenon DEF WriteDone, systemVars
  <2>4. Completed(Link("write", c, TRUE), Link("write", c, ok))
    BY <2>2, <2>3 DEF Completed, Link, Sane
  <2> QED BY <2>4
<1> QED BY <1>2, <1>3, <1>4, <1>5 DEF Completion

\* What clients send and get: a request stays what it is once it is sound.
LEMMA RequestsStay ==
  ASSUME TypeOK, [Next]_vars
  PROVE  /\ request' \in [Clients -> Requests]
         /\ \A c \in Clients : request[c] \in Sound => request'[c] = request[c]
<1>1. request \in [Clients -> Requests]
  BY DEF TypeOK
<1>2. ASSUME NEW c \in Clients, NEW r \in Asks[c], Send(c, r)
      PROVE  request' = [request EXCEPT ![c] = r] /\ request[c] = "none" /\ r \in Requests
  BY <1>2 DEF Send
<1>3. ASSUME ~(\E c \in Clients : \E r \in Asks[c] : Send(c, r)) PROVE request' = request
  BY <1>3 DEF Next, Start, Return, AcceptFails, Signal, ClientStep, Connect, Leave, Completion,
       Accepted, ReadDone, WriteDone, Complete, ThreadStep, run, RunReturns, OnAccept, accept_conn, OnRead,
       OnWrite, OnSignal, Handler, clientVars, vars
<1>4. CASE \E c \in Clients : \E r \in Asks[c] : Send(c, r)
  BY <1>1, <1>2, <1>4 DEF Sound
<1> QED BY <1>1, <1>3, <1>4

\* What a handler does, each of the five: where its link goes.
Stepped(i, begun, next) ==
  /\ i \in DOMAIN thread /\ Handler(i, thread[i].kind, begun, next)
  /\ begun \subseteq Links /\ next \in {Idle, Link("rearm", NoClient, TRUE)}
  /\ \/ /\ thread[i].kind = "accept" /\ next = Link("rearm", NoClient, TRUE)
        /\ begun \in {{}, {Link("read", thread[i].c, TRUE)}}
     \/ thread[i].kind = "rearm" /\ next = Idle /\ begun = {Link("accept", NoClient, TRUE)}
     \/ /\ thread[i].kind = "read" /\ next = Idle
        /\ begun \in {{}, {Link("write", thread[i].c, TRUE)}}
     \/ thread[i].kind \in {"write", "signal"} /\ next = Idle /\ begun = {}

LEMMA HandlersStep ==
  ASSUME TypeOK, NEW i \in DOMAIN thread,
         OnAccept(i) \/ accept_conn(i) \/ OnRead(i) \/ OnWrite(i) \/ OnSignal(i)
  PROVE  \E begun, next : Stepped(i, begun, next)
<1>1. TRUE \in BOOLEAN /\ NoClient \in Everyone
  BY Zenon DEF Everyone
<1>2. thread[i].kind \in {"accept", "rearm", "read", "write", "signal"} => thread[i].c \in Everyone
  BY Running DEF Links, Everyone
<1>3. \A k \in {"accept", "rearm", "read", "write", "signal"} : \A c \in Everyone : Link(k, c, TRUE) \in Links
  BY <1>1, LinkTypes
<1>4. CASE OnAccept(i)
  <2>1. PICK begun : /\ begun \in {{}, {Link("read", thread[i].c, TRUE)}}
                     /\ Handler(i, "accept", begun, Link("rearm", NoClient, TRUE))
    BY <1>4, Zenon DEF OnAccept, read_req, AfterAccept
  <2>2. thread[i].kind = "accept"
    BY <2>1 DEF Handler
  <2>3. Stepped(i, begun, Link("rearm", NoClient, TRUE))
    BY <1>2, <1>3, <2>1, <2>2 DEF Stepped
  <2> QED BY <2>3
<1>5. CASE accept_conn(i)
  <2>1. Handler(i, "rearm", {Link("accept", NoClient, TRUE)}, Idle) /\ thread[i].kind = "rearm"
    BY <1>5 DEF accept_conn, Handler
  <2>2. Stepped(i, {Link("accept", NoClient, TRUE)}, Idle)
    BY <1>1, <1>3, <2>1 DEF Stepped
  <2> QED BY <2>2
<1>6. CASE OnRead(i)
  <2>1. PICK begun : /\ begun \in {{}, {Link("write", thread[i].c, TRUE)}}
                     /\ Handler(i, "read", begun, Idle)
    BY <1>6, Zenon DEF OnRead, write_response
  <2>2. thread[i].kind = "read"
    BY <2>1 DEF Handler
  <2>3. Stepped(i, begun, Idle)
    BY <1>2, <1>3, <2>1, <2>2 DEF Stepped
  <2> QED BY <2>3
<1>7. CASE OnWrite(i) \/ OnSignal(i)
  <2>1. Handler(i, thread[i].kind, {}, Idle) /\ thread[i].kind \in {"write", "signal"}
    BY <1>7 DEF OnWrite, OnSignal, Handler
  <2>2. Stepped(i, {}, Idle)
    BY <2>1 DEF Stepped
  <2> QED BY <2>2
<1> QED BY <1>4, <1>5, <1>6, <1>7

LEMMA SteppedLinks ==
  ASSUME NEW i, NEW begun, NEW next, Stepped(i, begun, next)
  PROVE  /\ \A x, y \in begun : x = y
         /\ thread[i].kind \in {"accept", "rearm", "read", "write", "signal"}
         /\ thread[i].kind = "rearm" => begun # {}
         /\ IF thread[i].kind = "accept" THEN next.kind = "rearm" ELSE next.kind = "idle"
         /\ next.c = NoClient
         /\ \A x \in begun :
              \/ thread[i].kind = "rearm" /\ x.kind = "accept" /\ x.c = NoClient
              \/ thread[i].kind = "accept" /\ x.kind = "read" /\ x.c = thread[i].c
              \/ thread[i].kind = "read" /\ x.kind = "write" /\ x.c = thread[i].c
<1>1. \A x, y \in begun : x = y
  BY DEF Stepped
<1>2. \/ /\ thread[i].kind = "accept" /\ next = Link("rearm", NoClient, TRUE)
         /\ \A x \in begun : x = Link("read", thread[i].c, TRUE)
      \/ /\ thread[i].kind = "rearm" /\ next = Idle
         /\ begun = {Link("accept", NoClient, TRUE)}
      \/ /\ thread[i].kind = "read" /\ next = Idle
         /\ \A x \in begun : x = Link("write", thread[i].c, TRUE)
      \/ thread[i].kind \in {"write", "signal"} /\ next = Idle /\ begun = {}
  BY Zenon DEF Stepped
<1> DEFINE accept == Link("accept", NoClient, TRUE)
           rearm == Link("rearm", NoClient, TRUE)
           read == Link("read", thread[i].c, TRUE)
           write == Link("write", thread[i].c, TRUE)
<1>3. /\ accept.kind = "accept" /\ accept.c = NoClient
      /\ rearm.kind = "rearm" /\ rearm.c = NoClient
      /\ read.kind = "read" /\ read.c = thread[i].c
      /\ write.kind = "write" /\ write.c = thread[i].c
  BY DEF Link
<1>4. Idle.kind = "idle" /\ Idle.c = NoClient
  BY DEF Idle, Link
<1> HIDE DEF accept, rearm, read, write
<1>5. CASE thread[i].kind = "accept" /\ next = rearm /\ \A x \in begun : x = read
  BY <1>1, <1>3, <1>5
<1>6. CASE thread[i].kind = "rearm" /\ next = Idle /\ begun = {accept}
  BY <1>1, <1>3, <1>4, <1>6
<1>7. CASE thread[i].kind = "read" /\ next = Idle /\ \A x \in begun : x = write
  BY <1>1, <1>3, <1>4, <1>7
<1>8. CASE thread[i].kind \in {"write", "signal"} /\ next = Idle /\ begun = {}
  BY <1>1, <1>4, <1>8
<1> QED BY <1>2, <1>5, <1>6, <1>7, <1>8 DEF accept, rearm, read, write

\* The steps by what they do to the links.
LEMMA NextCases ==
  ASSUME TypeOK, [Next]_vars
  PROVE  \/ UNCHANGED <<main, pending, ready, thread, accepted>>
         \/ Start \/ Return \/ Signal
         \/ \E op, h : Completed(op, h)
         \/ \E i \in DOMAIN thread : run(i) \/ RunReturns(i) \/ \E begun, next : Stepped(i, begun, next)
<1>1. CASE UNCHANGED vars \/ \E c \in Clients : ClientStep(c)
  BY <1>1 DEF vars, serverVars, systemVars, ClientStep, Connect, Leave, Send
<1>2. CASE Start \/ Return \/ Signal
  BY <1>2
<1>3. CASE AcceptFails \/ \E c \in Clients : Completion(c)
  BY <1>3, Completions
<1>4. CASE \E i \in ThreadIds : ThreadStep(i)
  BY <1>4, HandlersStep DEF ThreadStep
<1> QED BY <1>1, <1>2, <1>3, <1>4 DEF Next

LEMMA LinkTypesNext ==
  ASSUME TypeOK, [Next]_vars
  PROVE  /\ pending' \subseteq Links /\ ready' \subseteq Links /\ accepted' \subseteq Clients
         /\ \E n \in CoreCounts : thread' \in [1 .. n \div 2 -> Links \cup {Idle, Ended}]
         /\ main' \in {"start", "join", "returned", "failed"}
<1>1. /\ pending \subseteq Links /\ ready \subseteq Links /\ accepted \subseteq Clients
      /\ main \in {"start", "join", "returned", "failed"}
  BY DEF TypeOK
<1>2. PICK n \in CoreCounts : thread \in [1 .. n \div 2 -> Links \cup {Idle, Ended}]
  BY DEF TypeOK
<1>3. /\ Link("accept", NoClient, TRUE) \in Links /\ Link("signal", NoClient, TRUE) \in Links
      /\ Link("rearm", NoClient, TRUE) \in Links
  <2>1. TRUE \in BOOLEAN /\ NoClient \in Everyone
    BY Zenon DEF Everyone
  <2> QED BY <2>1, LinkTypes
<1>4. CASE UNCHANGED <<main, pending, ready, thread, accepted>>
  BY <1>1, <1>2, <1>4
<1>5. CASE Start \/ Return \/ Signal
  BY <1>1, <1>2, <1>3, <1>5 DEF Start, Return, Signal, systemVars
<1>6. CASE \E op, h : Completed(op, h)
  BY <1>1, <1>2, <1>6 DEF Completed, Complete
<1>7. CASE \E i \in DOMAIN thread : run(i)
  BY <1>1, <1>2, <1>7 DEF run, systemVars
<1>8. CASE \E i \in DOMAIN thread : RunReturns(i)
  BY <1>1, <1>2, <1>8 DEF RunReturns, systemVars
<1>9. CASE \E i \in DOMAIN thread : \E begun, next : Stepped(i, begun, next)
  <2>1. PICK i, begun, next : i \in DOMAIN thread /\ Stepped(i, begun, next)
    BY <1>9
  <2>2. /\ thread' = [thread EXCEPT ![i] = next] /\ pending' = pending \cup begun
        /\ UNCHANGED <<main, ready, accepted>>
        /\ begun \subseteq Links /\ next \in Links \cup {Idle, Ended}
    BY <1>3, <2>1 DEF Stepped, Handler, systemVars
  <2> QED BY <1>1, <1>2, <2>1, <2>2
<1> QED BY <1>4, <1>5, <1>6, <1>7, <1>8, <1>9, NextCases

-----------------------------------------------------------------------------
\* Chains

LEMMA NothingYetNext ==
  ASSUME MetroInv, [Next]_vars
  PROVE  NothingYet' /\ (main' = "join" => main = "join" \/ Start)
<1>1. CASE UNCHANGED <<main, pending, ready, thread, accepted>>
  BY <1>1 DEF MetroInv, NothingYet
<1>2. CASE Start \/ Return \/ Signal
  BY <1>2 DEF Start, Return, Signal, NothingYet
<1>3. CASE \E op, h : Completed(op, h)
  BY <1>3 DEF Completed, Complete, NothingYet
<1>4. CASE \E i \in DOMAIN thread : run(i) \/ RunReturns(i)
  BY <1>4 DEF run, RunReturns, NothingYet
<1>5. CASE \E i \in DOMAIN thread : \E begun, next : Stepped(i, begun, next)
  <2>1. PICK i, begun, next : i \in DOMAIN thread /\ Stepped(i, begun, next)
    BY <1>5
  <2>2. thread[i] # Idle /\ main' = main
    BY <2>1 DEF Stepped, Handler, Idle, Link
  <2> QED BY <2>1, <2>2 DEF MetroInv, NothingYet
<1> QED BY <1>1, <1>2, <1>3, <1>4, <1>5, NextCases DEF MetroInv

\* Steps that move no link of a chain, those of main and of the system.
LEMMA Untouched ==
  ASSUME NEW K, NEW C, One(K, C), "idle" \notin K, "ended" \notin K, "signal" \notin K,
         \/ UNCHANGED <<main, pending, ready, thread, accepted>>
         \/ Signal \/ \E i \in DOMAIN thread : run(i) \/ RunReturns(i)
  PROVE  One(K, C)' /\ (None(K, C)' <=> None(K, C))
<1>1. CASE UNCHANGED <<main, pending, ready, thread, accepted>>
  BY <1>1 DEF One, None
<1>2. CASE Signal
  <2>1. /\ pending' = pending /\ thread' = thread
        /\ ready' = ready \cup {Link("signal", NoClient, TRUE)}
    BY <1>2 DEF Signal
  <2>2. ~In(Link("signal", NoClient, TRUE), K, C)
    BY DEF In, Link
  <2> QED BY <2>1, <2>2 DEF One, None
<1>3. CASE \E i \in DOMAIN thread : run(i)
  BY <1>3, Runs
<1>4. CASE \E i \in DOMAIN thread : RunReturns(i)
  <2>1. PICK i \in DOMAIN thread : RunReturns(i)
    BY <1>4
  <2>2. ~In(thread[i], K, C) /\ ~In(Ended, K, C)
    BY <2>1 DEF RunReturns, In, Idle, Ended, Link
  <2>3. /\ pending' = pending /\ ready' = ready /\ thread' = [thread EXCEPT ![i] = Ended]
        /\ DOMAIN thread' = DOMAIN thread
    BY <2>1 DEF RunReturns
  <2>4. thread'[i] = Ended /\ \A j \in DOMAIN thread : j # i => thread'[j] = thread[j]
    BY <2>3
  <2> QED BY <2>2, <2>3, <2>4 DEF One, None
<1> QED BY <1>1, <1>2, <1>3, <1>4

\* When main returns no thread has a link of a chain, and the rest is dropped.
LEMMA ReturnEnds ==
  ASSUME NEW K, NEW C, Return, "ended" \notin K
  PROVE  One(K, C)' /\ None(K, C)'
<1>1. /\ pending' = {} /\ ready' = {} /\ thread' = thread
      /\ \A i \in DOMAIN thread : thread[i].kind = "ended"
  BY DEF Return, Joined, Ended, Link
<1> QED BY <1>1 DEF One, None, In

LEMMA AcceptNext ==
  ASSUME MetroInv, [Next]_vars
  PROVE  AcceptChain'
<1> DEFINE K == Accepting  C == Everyone
<1>1. One(K, C) /\ (main = "join" => ~None(K, C))
  BY DEF MetroInv, AcceptChain
<1>2. main' = "join" => main = "join" \/ Start
  BY NothingYetNext
<1>3. "idle" \notin K /\ "ended" \notin K /\ "signal" \notin K /\ NoClient \in C
  BY DEF Accepting, Everyone
<1>4. CASE Start
  <2>1. /\ pending = {} /\ ready = {} /\ ready' = ready /\ thread' = thread
        /\ \A i \in DOMAIN thread : thread[i].kind = "idle"
    BY <1>4 DEF Start, MetroInv, NothingYet, Idle, Link
  <2>2. CASE main' = "failed" /\ pending' = pending
    BY <1>3, <2>1, <2>2 DEF AcceptChain, One, In
  <2>3. CASE main' = "join" /\ pending' = {Link("accept", NoClient, TRUE)}
    <3>1. In(Link("accept", NoClient, TRUE), K, C)
      BY <1>3 DEF In, Link, Accepting
    <3> QED BY <1>3, <2>1, <2>3, <3>1 DEF AcceptChain, One, None, In
  <2> QED BY <1>4, <2>2, <2>3 DEF Start
<1>5. CASE Return
  BY <1>3, <1>5, ReturnEnds DEF AcceptChain, Return
<1>6. CASE \/ UNCHANGED <<main, pending, ready, thread, accepted>>
           \/ Signal \/ \E i \in DOMAIN thread : run(i) \/ RunReturns(i)
  <2>1. One(K, C)' /\ (None(K, C)' <=> None(K, C))
    BY <1>1, <1>3, <1>6, Untouched
  <2>2. main' = main
    BY <1>6 DEF Signal, run, RunReturns
  <2> QED BY <1>1, <2>1, <2>2 DEF AcceptChain
<1>7. CASE \E op, h : Completed(op, h)
  <2>1. PICK op, h : Completed(op, h)
    BY <1>7
  <2>2. /\ op \in Links /\ h \in Links /\ op.kind = h.kind
        /\ Complete(op, h) /\ main' = main
    BY <2>1 DEF Completed, Complete
  <2>3. In(op, K, C) <=> In(h, K, C)
    BY <2>2 DEF In, Links, Everyone
  <2>4. One(K, C)' /\ (~None(K, C) => ~None(K, C)')
    BY <1>1, <2>2, <2>3, Completes
  <2> QED BY <1>1, <2>2, <2>4 DEF AcceptChain
<1>8. CASE \E i \in DOMAIN thread : \E begun, next : Stepped(i, begun, next)
  <2>1. PICK i, begun, next : i \in DOMAIN thread /\ Stepped(i, begun, next)
    BY <1>8
  <2>2. Handler(i, thread[i].kind, begun, next) /\ main' = main
    BY <2>1 DEF Stepped, Handler
  <2>3. thread[i].c \in C
    BY <2>1, Running DEF MetroInv, Stepped, Links, Everyone
  <2>4. /\ \A x, y \in begun : x = y
        /\ In(next, K, C) <=> thread[i].kind = "accept"
        /\ \A x \in begun : In(x, K, C) <=> thread[i].kind = "rearm"
        /\ thread[i].kind = "rearm" => begun # {}
        /\ In(thread[i], K, C) <=> thread[i].kind \in {"accept", "rearm"}
    BY <1>3, <2>1, <2>3, SteppedLinks DEF In, Accepting
  <2>5. One(K, C)' /\ (~None(K, C) => ~None(K, C)')
    <3> HIDE DEF K, C
    <3> QED BY <1>1, <2>1, <2>2, <2>4, Handles
  <2> QED BY <1>1, <2>2, <2>5 DEF AcceptChain
<1> QED BY <1>4, <1>5, <1>6, <1>7, <1>8, NextCases DEF MetroInv

LEMMA ClientsNext ==
  ASSUME MetroInv, [Next]_vars
  PROVE  ClientChains'
<1> SUFFICES ASSUME NEW c \in Clients
             PROVE  One(Serving, {c})' /\ (c \notin accepted' => None(Serving, {c})')
  BY DEF ClientChains
<1> DEFINE K == Serving  C == {c}
<1>1. One(K, C) /\ (c \notin accepted => None(K, C))
  BY DEF MetroInv, ClientChains
<1>2. "idle" \notin K /\ "ended" \notin K /\ "signal" \notin K /\ NoClient \notin C
  BY DEF Serving
<1>3. CASE Start
  <2>1. /\ pending = {} /\ ready = {} /\ ready' = ready /\ thread' = thread
        /\ \A i \in DOMAIN thread : thread[i].kind = "idle"
    BY <1>3 DEF Start, MetroInv, NothingYet, Idle, Link
  <2>2. \A x \in pending' : ~In(x, K, C)
    BY <1>2, <1>3, <2>1 DEF Start, In, Link
  <2> QED BY <1>2, <2>1, <2>2 DEF One, None, In
<1>4. CASE Return
  BY <1>2, <1>4, ReturnEnds
<1>5. CASE \/ UNCHANGED <<main, pending, ready, thread, accepted>>
           \/ Signal \/ \E i \in DOMAIN thread : run(i) \/ RunReturns(i)
  <2>1. One(K, C)' /\ (None(K, C)' <=> None(K, C))
    BY <1>1, <1>2, <1>5, Untouched
  <2>2. accepted' = accepted
    BY <1>5 DEF Signal, run, RunReturns, systemVars
  <2> QED BY <1>1, <2>1, <2>2
<1>6. CASE \E op, h : Completed(op, h)
  <2>1. PICK op, h : Completed(op, h)
    BY <1>6
  <2>2. Complete(op, h) /\ op.kind = h.kind
    BY <2>1 DEF Completed
  <2>3. CASE op.c = h.c /\ accepted' = accepted
    <3>1. In(op, K, C) <=> In(h, K, C)
      BY <2>2, <2>3 DEF In
    <3>2. None(K, C) => ~In(h, K, C)
      BY <2>2, <3>1 DEF Complete, None
    <3>3. One(K, C)' /\ (None(K, C) => None(K, C)')
      BY <1>1, <2>2, <3>1, <3>2, Completes
    <3> QED BY <1>1, <2>3, <3>3
  <2>4. CASE h.c \in Clients \ accepted /\ accepted' = accepted \cup {h.c}
    <3>1. In(h, K, C) => h.c = c /\ None(K, C)
      BY <1>1, <2>4 DEF In
    <3>2. One(K, C)' /\ (None(K, C) /\ ~In(h, K, C) => None(K, C)')
      BY <1>1, <2>2, <3>1, Completes
    <3>3. c \notin accepted' => ~In(h, K, C) /\ None(K, C)
      BY <1>1, <2>4, <3>1
    <3> QED BY <3>2, <3>3
  <2> QED BY <2>1, <2>3, <2>4 DEF Completed
<1>7. CASE \E i \in DOMAIN thread : \E begun, next : Stepped(i, begun, next)
  <2>1. PICK i, begun, next : i \in DOMAIN thread /\ Stepped(i, begun, next)
    BY <1>7
  <2>2. Handler(i, thread[i].kind, begun, next) /\ accepted' = accepted
    BY <2>1 DEF Stepped, Handler, systemVars
  <2>3. /\ \A x, y \in begun : x = y
        /\ next.c = NoClient
        /\ \A x \in begun :
             \/ x.c = NoClient
             \/ thread[i].kind = "accept" /\ x.c = thread[i].c
             \/ thread[i].kind = "read" /\ x.c = thread[i].c
    BY <2>1, SteppedLinks
  <2>4. ~In(next, K, C) /\ \A x \in begun : In(x, K, C) => In(thread[i], K, C)
    BY <1>2, <2>3 DEF In, Serving
  <2>5. \A x, y \in begun : In(x, K, C) /\ In(y, K, C) => x = y
    BY <2>3
  <2>6. One(K, C)' /\ (None(K, C) => None(K, C)')
    <3> HIDE DEF K, C
    <3> QED BY <1>1, <2>1, <2>2, <2>4, <2>5, Handles DEF Stepped
  <2> QED BY <1>1, <2>2, <2>6
<1> QED BY <1>3, <1>4, <1>5, <1>6, <1>7, NextCases DEF MetroInv

-----------------------------------------------------------------------------
\* Requests and answers

LEMMA ReadsNext ==
  ASSUME MetroInv, [Next]_vars
  PROVE  ReadsAreSound'
<1>1. /\ \A x \in ready : Sane(x)
      /\ \A i \in DOMAIN thread : Sane(thread[i])
      /\ TypeOK
  BY DEF MetroInv, ReadsAreSound
<1>2. \A x : Sane(x) => Sane(x)'
  BY <1>1, RequestsStay DEF Sane
<1>3. \A x : x.kind # "read" => Sane(x)'
  BY DEF Sane
<1>4. SUFFICES /\ \A x \in ready' : Sane(x)'
               /\ \A i \in DOMAIN thread' : \A x : x = thread'[i] => Sane(x)'
  BY DEF ReadsAreSound, Sane
<1>5. CASE UNCHANGED <<main, pending, ready, thread, accepted>>
  BY <1>1, <1>2, <1>5
<1>6. CASE Start \/ Return \/ Signal
  <2>1. Link("signal", NoClient, TRUE).kind # "read"
    BY DEF Link
  <2>2. thread' = thread /\ ready' \subseteq ready \cup {Link("signal", NoClient, TRUE)}
    BY <1>6 DEF Start, Return, Signal
  <2> QED BY <1>1, <1>2, <1>3, <2>1, <2>2
<1>7. CASE \E op, h : Completed(op, h)
  <2>1. PICK op, h : Completed(op, h)
    BY <1>7
  <2>2. thread' = thread /\ ready' = ready \cup {h} /\ Sane(h)
    BY <2>1 DEF Completed, Complete
  <2> QED BY <1>1, <1>2, <2>2
<1>8. CASE \E i \in DOMAIN thread : run(i)
  <2>1. PICK i \in DOMAIN thread, h \in ready : ready' = ready \ {h} /\ thread' = [thread EXCEPT ![i] = h]
    BY <1>8 DEF run
  <2> QED BY <1>1, <1>2, <2>1
<1>9. CASE \E i \in DOMAIN thread : RunReturns(i)
  <2>1. PICK i \in DOMAIN thread : ready' = ready /\ thread' = [thread EXCEPT ![i] = Ended]
    BY <1>9 DEF RunReturns
  <2>2. Ended.kind # "read"
    BY DEF Ended, Link
  <2> QED BY <1>1, <1>2, <1>3, <2>1, <2>2
<1>10. CASE \E i \in DOMAIN thread : \E begun, next : Stepped(i, begun, next)
  <2>1. PICK i, begun, next : i \in DOMAIN thread /\ Stepped(i, begun, next)
    BY <1>10
  <2>2. ready' = ready /\ thread' = [thread EXCEPT ![i] = next] /\ next.kind # "read"
    BY <2>1, SteppedLinks DEF Stepped, Handler
  <2> QED BY <1>1, <1>2, <1>3, <2>2
<1> QED BY <1>1, <1>5, <1>6, <1>7, <1>8, <1>9, <1>10, NextCases

\* Only the handler of a read makes an answer, and only the system sends it on.
LEMMA AnswersNext ==
  ASSUME MetroInv, [Next]_vars
  PROVE  /\ AnswersAreOwn'
         /\ response' \in [Clients -> {<<>>} \cup {handle_req(r) : r \in Sound}]
         /\ got' \in [Clients -> {<<>>} \cup {handle_req(r) : r \in Sound}]
<1> DEFINE Type == [Clients -> {<<>>} \cup {handle_req(r) : r \in Sound}]
<1>1. /\ TypeOK /\ response \in Type /\ got \in Type
      /\ \A c \in Clients : Answers(response[c], c) /\ Answers(got[c], c)
  BY DEF MetroInv, TypeOK, AnswersAreOwn
<1>2. \A x : \A c \in Clients : Answers(x, c) => Answers(x, c)'
  BY <1>1, RequestsStay DEF Answers
<1>3. \A x, c : Answers(x, c) => x \in {<<>>} \cup {handle_req(r) : r \in Sound}
  BY DEF Answers
<1>4. CASE response' = response /\ got' = got
  BY <1>1, <1>2, <1>4 DEF AnswersAreOwn
<1>5. CASE \E c \in Clients : WriteDone(c)
  <2>1. PICK c \in Clients : WriteDone(c)
    BY <1>5
  <2>2. response' = response /\ (got' = got \/ got' = [got EXCEPT ![c] = response[c]])
    BY <2>1 DEF WriteDone, Complete, responseOf
  <2>3. CASE got' = got
    BY <1>4, <2>2, <2>3
  <2>4. CASE got' = [got EXCEPT ![c] = response[c]]
    <3>1. got' \in Type /\ \A d \in Clients : got'[d] = IF d = c THEN response[c] ELSE got[d]
      BY <1>1, <2>4
    <3> QED BY <1>1, <1>2, <2>2, <3>1 DEF AnswersAreOwn
  <2> QED BY <2>2, <2>3, <2>4
<1>6. CASE \E i \in DOMAIN thread : OnRead(i)
  <2>1. PICK i \in DOMAIN thread : OnRead(i)
    BY <1>6
  <2>2. PICK h : h = thread[i]
    BY Zenon
  <2>3. /\ h.kind = "read" /\ got' = got
        /\ response' = IF h.ok THEN [response EXCEPT ![h.c] = handle_req(request[h.c])] ELSE response
    BY <2>1, <2>2 DEF OnRead, Handler, Readable, responseOf, clientVars
  <2>4. Sane(h) /\ h.ok \in BOOLEAN
    <3>1. h \in Links
      BY <1>1, <2>2, <2>3, Running
    <3> QED BY <2>2, <3>1, Zenon DEF MetroInv, ReadsAreSound, Links
  <2>5. CASE h.ok = TRUE
    <3>1. PICK c \in Clients : c = h.c /\ request[c] \in Sound
      BY <2>3, <2>4, <2>5 DEF Sane
    <3>2. PICK x : x = handle_req(request[c])
      BY Zenon
    <3>3. response' = [response EXCEPT ![c] = x] /\ Answers(x, c)
      BY <2>3, <2>5, <3>1, <3>2 DEF Answers
    <3>4. response' \in Type /\ \A d \in Clients : response'[d] = IF d = c THEN x ELSE response[d]
      BY <1>1, <1>3, <3>3
    <3> QED BY <1>1, <1>2, <2>3, <3>3, <3>4 DEF AnswersAreOwn
  <2>6. CASE h.ok = FALSE
    BY <1>4, <2>3, <2>6
  <2> QED BY <2>4, <2>5, <2>6
<1>7. ASSUME ~(\E c \in Clients : WriteDone(c)), ~(\E i \in DOMAIN thread : OnRead(i))
      PROVE  response' = response /\ got' = got
  BY <1>7 DEF Next, Start, Return, AcceptFails, Signal, ClientStep, Connect, Leave, Send, Completion,
       Accepted, ReadDone, Complete, ThreadStep, run, RunReturns, OnAccept, accept_conn,
       OnWrite, OnSignal, Handler, clientVars, serverVars, vars
<1> QED BY <1>4, <1>5, <1>6, <1>7

LEMMA TypeNext ==
  ASSUME MetroInv, [Next]_vars
  PROVE  TypeOK'
<1>1. TypeOK
  BY DEF MetroInv
<1>2. client \in [Clients -> {"away", "connected", "left"}] /\ errors \in 0 .. MaxErrors
  BY <1>1 DEF TypeOK
<1>3. stopped \in BOOLEAN /\ signalled \in BOOLEAN
  BY <1>1, Zenon DEF TypeOK
<1>4. client' \in [Clients -> {"away", "connected", "left"}]
  <2>1. client' = client \/ \E c \in Clients : client' = [client EXCEPT ![c] = "connected"]
                                            \/ client' = [client EXCEPT ![c] = "left"]
    BY DEF Next, Start, Return, AcceptFails, Signal, ClientStep, Connect, Leave, Send, Completion,
       Accepted, ReadDone, WriteDone, Complete, ThreadStep, run, RunReturns, OnAccept, accept_conn,
       OnRead, OnWrite, OnSignal, Handler, clientVars, serverVars, vars
  <2> QED BY <1>2, <2>1
<1>5. errors' \in 0 .. MaxErrors
  <2>1. errors' = errors \/ (errors < MaxErrors /\ errors' = errors + 1)
    BY DEF Next, Start, Return, AcceptFails, Signal, ClientStep, Connect, Leave, Send, Completion,
       Accepted, ReadDone, WriteDone, Complete, ThreadStep, run, RunReturns, OnAccept, accept_conn,
       OnRead, OnWrite, OnSignal, Handler, systemVars, vars
  <2> QED BY <1>2, <2>1
<1>6. stopped' \in BOOLEAN /\ signalled' \in BOOLEAN
  <2>1. (stopped' = stopped \/ stopped' = TRUE) /\ (signalled' = signalled \/ signalled' = TRUE)
    BY DEF Next, Start, Return, AcceptFails, Signal, ClientStep, Connect, Leave, Send, Completion,
       Accepted, ReadDone, WriteDone, Complete, ThreadStep, run, RunReturns, OnAccept, accept_conn,
       OnRead, OnWrite, OnSignal, Handler, serverVars, systemVars, vars
  <2> QED BY <1>3, <2>1, Zenon
<1> QED BY <1>1, <1>4, <1>5, <1>6, LinkTypesNext, RequestsStay, AnswersNext DEF TypeOK

-----------------------------------------------------------------------------
\* The theorems

\* The inductive invariant: each chain has its one link, a read that succeeded
\* has a request to answer, and what is in a response answers it.
THEOREM MetroInvariant == Spec => []MetroInv
<1>1. MetroInv /\ [Next]_vars => MetroInv'
  BY TypeNext, AcceptNext, ClientsNext, ReadsNext, AnswersNext, NothingYetNext DEF MetroInv
<1> QED BY <1>1, MetroInit, PTL DEF Spec

\* Types: no handler runs a link of a kind it is not written for, and none
\* answers what was not read.
THEOREM TypeCorrect == Spec => []TypeOK
BY MetroInvariant, PTL DEF MetroInv

\* No two threads are ever in handlers of the same connection, nor of the
\* acceptor, and the server never ceases to accept, whatever fails.
THEOREM ChainsHaveOneLink == Spec => []OneLinkPerChain
<1>1. MetroInv => OneLinkPerChain
  <2> SUFFICES ASSUME MetroInv PROVE OneLinkPerChain
    OBVIOUS
  <2>1. main = "join" => LinksOf({"accept", "rearm"}, Clients \cup {NoClient}) = 1
    BY OneIsOne DEF MetroInv, AcceptChain, Accepting, Everyone
  <2>2. ASSUME NEW c \in Clients PROVE LinksOf({"read", "write"}, {c}) <= 1
    <3>1. {"read", "write"} \subseteq Serving /\ One(Serving, {c})
      BY DEF Serving, MetroInv, ClientChains
    <3>2. One({"read", "write"}, {c})
      BY <3>1, OneOfPart
    <3>3. LinksOf({"read", "write"}, {c}) \in {0, 1}
      BY <3>2, OneIsOne
    <3> QED BY <3>3
  <2> QED BY <2>1, <2>2 DEF OneLinkPerChain
<1> QED BY <1>1, MetroInvariant, PTL

\* A client only ever gets the answer to the request that it sent.
THEOREM AnswersAreToOwnRequests == Spec => []AnswerIsOwn
<1>1. MetroInv => AnswerIsOwn
  BY DEF MetroInv, AnswersAreOwn, Answers, AnswerIsOwn
<1> QED BY <1>1, MetroInvariant, PTL

-----------------------------------------------------------------------------
\* The end of main

\* The inductive invariant: whatever leads to the end begins with the signal.
\* A thread has returned from io.run() only because the context was stopped, it
\* was stopped only by the handler of the signal, and that exists only after it.
AskedInv ==
  /\ stopped = TRUE => signalled = TRUE
  /\ \A x \in pending \cup ready : x.kind = "signal" => signalled = TRUE
  /\ \A i \in DOMAIN thread : /\ thread[i].kind = "signal" => signalled = TRUE
                              /\ thread[i] = Ended => stopped = TRUE
  /\ main = "returned" => signalled = TRUE \/ thread = <<>>

\* The first half of ReturnsWhenAsked, the one that needs no fairness.
NotBefore == main = "returned" => signalled \/ thread = <<>>

\* A signal once come is not forgotten; only its handler stops the io_context.
LEMMA OnlySignalStops ==
  ASSUME TypeOK, [Next]_vars
  PROVE  /\ signalled = TRUE => signalled' = TRUE
         /\ stopped = TRUE => stopped' = TRUE
         /\ stopped' = TRUE => stopped = TRUE \/ \E i \in DOMAIN thread : thread[i].kind = "signal"
         /\ Signal => signalled' = TRUE
<1>1. CASE UNCHANGED vars \/ Start \/ Return \/ Signal
  BY <1>1 DEF vars, serverVars, systemVars, Start, Return, Signal
<1>2. CASE AcceptFails
  BY <1>2 DEF AcceptFails, Complete, Signal
<1>3. CASE \E c \in Clients : ClientStep(c) \/ Completion(c)
  BY <1>3 DEF ClientStep, Connect, Leave, Send, Completion, Accepted, ReadDone, WriteDone, Complete,
       serverVars, systemVars, Signal
<1>4. CASE \E i \in ThreadIds : ThreadStep(i)
  BY <1>4 DEF ThreadStep, run, RunReturns, OnAccept, accept_conn, OnRead, OnWrite, OnSignal, Handler,
       serverVars, systemVars, Signal
<1> QED BY <1>1, <1>2, <1>3, <1>4 DEF Next

\* With a thread, all have ended only if one has.
LEMMA SomeThread ==
  ASSUME TypeOK, thread # <<>>
  PROVE  DOMAIN thread # {}
<1>1. PICK n \in CoreCounts : thread \in [1 .. n \div 2 -> Links \cup {Idle, Ended}]
  BY DEF TypeOK
<1> QED BY <1>1

LEMMA AskedNext == MetroInv /\ AskedInv /\ [Next]_vars => AskedInv'
<1> SUFFICES ASSUME MetroInv, AskedInv, [Next]_vars PROVE AskedInv'
  OBVIOUS
<1>1. /\ signalled = TRUE => signalled' = TRUE
      /\ stopped = TRUE => stopped' = TRUE
      /\ stopped' = TRUE => signalled = TRUE
  BY OnlySignalStops DEF AskedInv, MetroInv
<1>2. CASE UNCHANGED <<main, pending, ready, thread, accepted>>
  BY <1>1, <1>2 DEF AskedInv
<1>3. CASE Start
  BY <1>1, <1>3 DEF AskedInv, Start, Link
<1>4. CASE Return
  <2>1. thread = <<>> \/ stopped = TRUE
    BY <1>4, SomeThread DEF Return, Joined, AskedInv, MetroInv
  <2> QED BY <1>1, <1>4, <2>1 DEF AskedInv, Return
<1>5. CASE Signal
  <2>1. signalled' = TRUE
    BY <1>5, OnlySignalStops DEF MetroInv
  <2> QED BY <1>1, <1>5, <2>1 DEF AskedInv, Signal
<1>6. CASE \E op, h : Completed(op, h)
  <2>1. PICK op, h : Completed(op, h)
    BY <1>6
  <2>2. /\ pending' \subseteq pending /\ ready' = ready \cup {h} /\ thread' = thread /\ main' = main
        /\ op \in pending /\ op.kind = h.kind
    BY <2>1 DEF Completed, Complete
  <2> QED BY <1>1, <2>2 DEF AskedInv
<1>7. ASSUME NEW i \in DOMAIN thread, run(i) PROVE AskedInv'
  <2>1. PICK h \in ready : ready' = ready \ {h} /\ thread' = [thread EXCEPT ![i] = h]
    BY <1>7 DEF run
  <2>2. main' = "join" /\ pending' = pending /\ DOMAIN thread' = DOMAIN thread /\ h # Ended
    BY <1>7, <2>1 DEF run, MetroInv, TypeOK, Links, Ended, Link
  <2>3. thread'[i] = h /\ \A j \in DOMAIN thread : j # i => thread'[j] = thread[j]
    BY <2>1
  <2> QED BY <1>1, <2>1, <2>2, <2>3 DEF AskedInv
<1>8. ASSUME NEW i \in DOMAIN thread, RunReturns(i) PROVE AskedInv'
  <2>1. /\ main' = "join" /\ stopped = TRUE /\ UNCHANGED <<pending, ready>>
        /\ thread' = [thread EXCEPT ![i] = Ended]
    BY <1>8 DEF RunReturns, MetroInv, TypeOK
  <2>2. /\ DOMAIN thread' = DOMAIN thread /\ thread'[i] = Ended
        /\ \A j \in DOMAIN thread : j # i => thread'[j] = thread[j]
    BY <2>1
  <2> QED BY <1>1, <2>1, <2>2 DEF AskedInv
<1>9. ASSUME NEW i \in DOMAIN thread, NEW begun, NEW next, Stepped(i, begun, next) PROVE AskedInv'
  <2>1. thread' = [thread EXCEPT ![i] = next] /\ UNCHANGED <<main, ready>> /\ pending' = pending \cup begun
    BY <1>9 DEF Stepped, Handler, systemVars
  <2>2. next.kind # "signal" /\ next # Ended /\ \A x \in begun : x.kind # "signal"
    BY <1>9, SteppedLinks DEF Ended, Link
  <2>3. /\ DOMAIN thread' = DOMAIN thread /\ thread'[i] = next
        /\ \A j \in DOMAIN thread : j # i => thread'[j] = thread[j]
    BY <2>1
  <2>4. thread = <<>> => DOMAIN thread = {}
    OBVIOUS
  <2> QED BY <1>1, <2>1, <2>2, <2>3, <2>4 DEF AskedInv
<1> QED BY <1>2, <1>3, <1>4, <1>5, <1>6, <1>7, <1>8, <1>9, NextCases DEF MetroInv

\* main does not return unless it was asked to, or half of the cores is no thread.
THEOREM ReturnsOnlyWhenAsked == Spec => []NotBefore
<1>1. Init => AskedInv
  BY DEF Init, AskedInv, Idle, Ended, Link
<1>2. AskedInv => NotBefore
  BY DEF AskedInv, NotBefore
<1> QED BY <1>1, <1>2, AskedNext, MetroInvariant, PTL DEF Spec
=============================================================================
