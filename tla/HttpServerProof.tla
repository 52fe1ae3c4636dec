--------------------------- MODULE HttpServerProof ---------------------------
(***************************************************************************)
(* What the HTTP server ensures for any number of connections, workers and  *)
(* paths, any socket numbers and any size of an fd_set.                      *)
(***************************************************************************)
EXTENDS HttpServer, FiniteSetTheorems, TLAPS

USE AsksAssumption, FdsAssumption, NoneAssumption

-----------------------------------------------------------------------------
\* Queues whose elements are all different

In(s, x) == \E i \in 1..Len(s) : s[i] = x
Once(s) == \A i, j \in 1..Len(s) : s[i] = s[j] => i = j

LEMMA AppendOnce ==
  ASSUME NEW S, NEW s \in Seq(S), NEW x \in S
  PROVE  /\ Append(s, x) \in Seq(S)
         /\ \A y : In(Append(s, x), y) <=> In(s, y) \/ y = x
         /\ Once(s) /\ ~In(s, x) => Once(Append(s, x))
<1>1. PICK n \in Nat : n = Len(s)
  OBVIOUS
<1>2. /\ Len(Append(s, x)) = n + 1 /\ Append(s, x)[n + 1] = x
      /\ \A i \in 1..n : Append(s, x)[i] = s[i]
      /\ \A i \in 1..n + 1 : i \in 1..n \/ i = n + 1
  BY <1>1
<1>3. ASSUME NEW y PROVE In(Append(s, x), y) <=> In(s, y) \/ y = x
  <2>1. 1..n \subseteq 1..n + 1 /\ n + 1 \in 1..n + 1
    OBVIOUS
  <2> QED BY <1>1, <1>2, <2>1 DEF In
<1>4. ASSUME Once(s), ~In(s, x) PROVE Once(Append(s, x))
  <2> SUFFICES ASSUME NEW i \in 1..n + 1, NEW j \in 1..n + 1, Append(s, x)[i] = Append(s, x)[j]
               PROVE  i = j
    BY <1>2 DEF Once
  <2>1. CASE i \in 1..n /\ j \in 1..n
    BY <1>1, <1>2, <1>4, <2>1 DEF Once
  <2>2. CASE i = n + 1 \/ j = n + 1
    BY <1>1, <1>2, <1>4, <2>2 DEF In
  <2> QED BY <1>2, <2>1, <2>2
<1> QED BY <1>3, <1>4

LEMMA TailOnce ==
  ASSUME NEW S, NEW s \in Seq(S), s # <<>>
  PROVE  /\ Head(s) \in S /\ In(s, Head(s)) /\ Tail(s) \in Seq(S)
         /\ \A y : In(Tail(s), y) => In(s, y)
         /\ Once(s) => Once(Tail(s)) /\ ~In(Tail(s), Head(s))
<1>1. PICK n \in Nat : Len(s) = n + 1
  <2>1. Len(s) \in Nat /\ Len(s) # 0
    OBVIOUS
  <2> QED BY <2>1
<1>2. /\ Head(s) = s[1] /\ Tail(s) \in Seq(S) /\ Len(Tail(s)) = n
      /\ \A i \in 1..n : Tail(s)[i] = s[i + 1]
  BY <1>1
<1>3. 1 \in 1..n + 1 /\ \A i \in 1..n : i + 1 \in 1..n + 1 /\ i + 1 # 1
  OBVIOUS
<1>4. Head(s) \in S /\ In(s, Head(s))
  BY <1>1, <1>2, <1>3 DEF In
<1>5. \A y : In(Tail(s), y) => In(s, y)
  BY <1>1, <1>2, <1>3 DEF In
<1>6. ASSUME Once(s) PROVE Once(Tail(s)) /\ ~In(Tail(s), Head(s))
  <2>1. ASSUME NEW i \in 1..n, NEW j \in 1..n, Tail(s)[i] = Tail(s)[j] PROVE i = j
    <3>1. i + 1 = j + 1
      BY <1>1, <1>2, <1>3, <1>6, <2>1 DEF Once
    <3> QED BY <3>1
  <2>2. ASSUME NEW i \in 1..n PROVE Tail(s)[i] # Head(s)
    BY <1>1, <1>2, <1>3, <1>6 DEF Once
  <2> QED BY <1>2, <2>1, <2>2 DEF Once, In
<1> QED BY <1>2, <1>4, <1>5, <1>6

-----------------------------------------------------------------------------
\* A worker has a job exactly when it is not waiting for one.
StepRuns == \A w \in Workers : step[w] = "idle" <=> running[w] = 0

\* OneOwner without the counting: a socket number is watched, queued or held by
\* one worker, and only while it stands for a connection.
OnePlace ==
  /\ Once(queued)
  /\ \A v, w \in Workers : running[v] = running[w] /\ running[v] # 0 => v = w
  /\ \A fd \in Fds : In(queued, fd) => fd \notin master /\ sock[fd] # NoConn
  /\ \A w \in Workers : running[w] # 0 => /\ running[w] \notin master
                                         /\ ~In(queued, running[w])
                                         /\ sock[running[w]] # NoConn
  /\ \A fd \in Fds \cap master : sock[fd] # NoConn
  /\ pending \ {ListenFd} \subseteq master

\* A connection has one socket number at a time and keeps its place in the
\* backlog until then; what is not accepted is not answered.
OneSocket ==
  /\ Once(backlog) /\ (ListenFd \in pending => backlog # <<>>)
  /\ \A c \in Conns : In(backlog, c) => conn[c] = "backlog"
  /\ \A f \in Fds : sock[f] # NoConn => conn[sock[f]] \in {"open", "lost"}
  /\ \A f, g \in Fds : sock[f] = sock[g] /\ sock[f] # NoConn => f = g
  /\ \A c \in Conns : conn[c] \in {"away", "backlog"} => answer[c] = NoAnswer

\* Nothing is sent before the connection is asked for.
SentLater == \A c \in Conns : conn[c] = "away" => sent[c] = 0

\* What a worker has received was sent on the connection behind the socket it
\* holds, and what it has sent there is the response it has made.
WorkerKnows ==
  \A w \in Workers :
    LET c == sock[running[w]] IN
    /\ step[w] \in {"lookup", "put", "send", "rest", "close"} =>
         data[w].n \in 1..sent[c] /\ data[w].text = req[c][data[w].n]
    /\ step[w] = "rest" => answer[c] = [response |-> response[w], extent |-> "part"]
    /\ step[w] = "close" => answer[c] = [response |-> response[w], extent |-> "whole"]

\* A cached response is the one to its path, whoever made it; only for a GET the
\* cache is asked; and the response a worker has made or found is the one to the
\* text it received.
Page(p) == [code |-> 200, says |-> p]
EntriesAreTrue == \A p \in Words : entry[p].age # "absent" => entry[p].value = Page(p)
ResponseIsTrue ==
  \A w \in Workers :
    /\ step[w] \in {"lookup", "put"} => data[w].text.method = "GET"
    /\ step[w] \in {"send", "rest", "close"} => response[w] = Response(data[w].text)

HttpInv == /\ TypeOK /\ StepRuns /\ OnePlace /\ OneSocket /\ SentLater /\ WorkerKnows
           /\ EntriesAreTrue /\ ResponseIsTrue /\ AnswerIsOwn

\* The response to a text is a response; the one to a GET depends on its path.
LEMMA ResponseType ==
  ASSUME NEW text \in Texts
  PROVE  /\ Response(text) \in Responses /\ Key(text) \in Words
         /\ text.method = "GET" => Response(text) = Page(Key(text))
<1>1. /\ text.method \in {"GET", "POST", "other"} /\ text.path \in Words /\ text.body \in Words
      /\ NoWord \in Words
  BY DEF Texts
<1>2. CASE text.method = "GET"
  <2>1. Response(text) = [code |-> 200, says |-> text.path]
    BY <1>2 DEF Response
  <2> QED BY <1>1, <2>1 DEF Responses, Key, Page
<1>3. CASE text.method = "POST"
  <2>1. \E n \in {200, 400} : Response(text) = [code |-> n, says |-> text.body]
    BY <1>3 DEF Response
  <2> QED BY <1>1, <1>3, <2>1 DEF Responses, Key
<1>4. CASE text.method = "other"
  <2>1. Response(text) = [code |-> 501, says |-> NoWord]
    BY <1>4 DEF Response
  <2> QED BY <1>1, <1>4, <2>1 DEF Responses, Key
<1> QED BY <1>1, <1>2, <1>3, <1>4

Slots == [age: {"absent", "fresh", "stale"}, value: Responses \cup {NoAnswer}]

LEMMA NothingType == Nothing \in [text: Texts, n: Nat] /\ Absent \in Slots
  BY DEF Nothing, NoText, Texts, Absent, Slots

LEMMA HttpInit == Init => HttpInv
<1> SUFFICES ASSUME Init PROVE HttpInv
  OBVIOUS
<1>1. /\ conn \in [Conns -> {"away", "backlog", "open", "over", "lost"}]
      /\ req \in [Conns -> Seq(Texts)] /\ sent \in [Conns -> Nat]
      /\ \A c \in Conns : sent[c] <= Len(req[c])
      /\ answer \in [Conns -> Answers \cup {NoAnswer}]
      /\ backlog \in Seq(Conns)
      /\ sock \in [Fds -> Conns \cup {NoConn}]
  BY DEF Init
<1>2. gone \in [Conns -> BOOLEAN] /\ closed \in BOOLEAN
  BY Zenon DEF Init, Pool!Init
<1>3. /\ master \subseteq Fds \cup {ListenFd} /\ pending \subseteq Fds \cup {ListenFd}
      /\ max_fd \in Nat /\ loop \in {"init", "dead", "select", "scan"} /\ SetSize \in SetSizes
      /\ queued \in Seq(Fds) /\ running \in [Workers -> Fds \cup {0}]
      /\ step \in [Workers -> {"idle", "recv", "lookup", "put", "send", "rest", "close"}]
  BY DEF Init, Pool!Init
<1>4. /\ data \in [Workers -> [text: Texts, n: Nat]]
      /\ response \in [Workers -> Responses \cup {NoAnswer}]
      /\ entry \in [Words -> Slots]
  BY NothingType DEF Init
<1>5. TypeOK
  BY <1>1, <1>2, <1>3, <1>4 DEF TypeOK, Slots
<1>6. StepRuns /\ OnePlace /\ OneSocket /\ SentLater /\ WorkerKnows
  BY DEF Init, Pool!Init, StepRuns, OnePlace, OneSocket, SentLater, WorkerKnows, In, Once
<1>7. EntriesAreTrue /\ ResponseIsTrue /\ AnswerIsOwn
  BY DEF Init, EntriesAreTrue, ResponseIsTrue, AnswerIsOwn, Absent
<1> QED BY <1>5, <1>6, <1>7 DEF HttpInv

\* A worker with a job holds an open socket.
LEMMA AtWork ==
  ASSUME HttpInv, NEW w \in Workers, step[w] # "idle"
  PROVE  /\ running[w] \in Fds /\ running[w] # 0
         /\ sock[running[w]] \in Conns /\ sock[running[w]] # NoConn
         /\ running[w] \notin master /\ ~In(queued, running[w])
         /\ data[w] \in [text: Texts, n: Nat] /\ data[w].text \in Texts
<1>1. running[w] # 0 /\ running[w] \in Fds
  BY DEF HttpInv, TypeOK, StepRuns
<1>2. sock[running[w]] \in Conns \cup {NoConn} /\ data[w] \in [text: Texts, n: Nat]
  BY <1>1 DEF HttpInv, TypeOK
<1> QED BY <1>1, <1>2 DEF HttpInv, OnePlace

\* What is sent is the response to the text received, a first part of it first.
LEMMA WhatIsSent ==
  ASSUME HttpInv, NEW w \in Workers, step[w] \in {"send", "rest", "close"}
  PROVE  /\ response[w] = Response(data[w].text) /\ response[w] \in Responses
         /\ \A e \in {"part", "whole"} : [response |-> response[w], extent |-> e] \in Answers
<1>1. response[w] = Response(data[w].text) /\ data[w].text \in Texts
  BY AtWork DEF HttpInv, ResponseIsTrue
<1>2. response[w] \in Responses
  BY <1>1, ResponseType
<1> QED BY <1>1, <1>2 DEF Answers

\* The rest makes the first part of a response whole.
LEMMA RestIsWhole ==
  ASSUME HttpInv, NEW w \in Workers, SendRest(w)
  PROVE  /\ step[w] = "rest" /\ sock[running[w]] \in Conns
         /\ answer' = [answer EXCEPT ![sock[running[w]]] = [response |-> response[w], extent |-> "whole"]]
<1>1. step[w] = "rest"
  BY DEF SendRest, Takes
<1>2. answer[sock[running[w]]] = [response |-> response[w], extent |-> "part"]
  BY <1>1 DEF HttpInv, WorkerKnows
<1>3. [answer[sock[running[w]]] EXCEPT !.extent = "whole"] = [response |-> response[w], extent |-> "whole"]
  BY <1>2
<1>4. answer' = [answer EXCEPT ![sock[running[w]]] = [answer[sock[running[w]]] EXCEPT !.extent = "whole"]]
  BY DEF SendRest
<1> QED BY <1>1, <1>3, <1>4, AtWork

\* A text received is a text.
LEMMA TextType ==
  ASSUME TypeOK, NEW c \in Conns, NEW n \in 1..sent[c]
  PROVE  req[c][n] \in Texts /\ n \in Nat
<1>1. req[c] \in Seq(Texts) /\ sent[c] \in Nat /\ sent[c] <= Len(req[c])
  BY DEF TypeOK
<1> QED BY <1>1

LEMMA TypeEndJob ==
  ASSUME HttpInv, NEW w \in Workers, step[w] # "idle", EndJob(w),
         answer' \in [Conns -> Answers \cup {NoAnswer}]
  PROVE  TypeOK' /\ StepRuns'
<1>1. running[w] \in Fds /\ sock[running[w]] \in Conns
  BY AtWork
<1>2. Nothing \in [text: Texts, n: Nat]
  BY NothingType
<1>3. /\ UNCHANGED <<req, sent, gone, backlog, SetSize, master, pending, max_fd, loop, entry,
                     queued, closed>>
      /\ running' = [running EXCEPT ![w] = 0]
      /\ step' = [step EXCEPT ![w] = "idle"]
      /\ data' = [data EXCEPT ![w] = Nothing]
      /\ response' = [response EXCEPT ![w] = NoAnswer]
      /\ sock' = [sock EXCEPT ![running[w]] = NoConn]
      /\ conn' = conn \/ conn' = [conn EXCEPT ![sock[running[w]]] = "over"]
  BY DEF EndJob, ClosedSock, loopVars, Pool!Finish
<1>4. TypeOK'
  BY <1>1, <1>2, <1>3 DEF HttpInv, TypeOK
<1>5. StepRuns'
  BY <1>3 DEF HttpInv, TypeOK, StepRuns
<1> QED BY <1>4, <1>5

LEMMA TypeWorker ==
  ASSUME HttpInv, NEW w \in Workers, WorkerStep(w)
  PROVE  TypeOK' /\ StepRuns'
<1> USE DEF clientVars, loopVars, poolVars, workerVars
<1>t. TypeOK /\ StepRuns
  BY DEF HttpInv
<1>1. CASE StartJob(w)
  <2>1. Head(queued) \in Fds /\ Tail(queued) \in Seq(Fds)
    BY <1>t, <1>1, TailOnce DEF StartJob, Pool!Start, TypeOK
  <2>2. TypeOK'
    BY <1>t, <1>1, <2>1 DEF StartJob, Pool!Start, TypeOK
  <2>3. StepRuns'
    BY <1>t, <1>1, <2>1 DEF StartJob, Pool!Start, TypeOK, StepRuns
  <2> QED BY <2>2, <2>3
<1>2. CASE Recv(w)
  <2>1. PICK c \in Conns : c = sock[running[w]]
    BY <1>2, AtWork DEF Recv
  <2>2. PICK n \in 1..sent[c] :
             /\ data' = [data EXCEPT ![w] = [text |-> req[c][n], n |-> n]]
             /\ \E to \in {"lookup", "send"} : step' = [step EXCEPT ![w] = to]
             /\ response' = response \/ response' = [response EXCEPT ![w] = Response(req[c][n])]
    BY <1>2, <2>1 DEF Recv
  <2>t. /\ data \in [Workers -> [text: Texts, n: Nat]]
        /\ response \in [Workers -> Responses \cup {NoAnswer}]
    BY <1>t DEF TypeOK
  <2>3. UNCHANGED <<clientVars, backlog, sock, loopVars, poolVars, entry>> /\ step[w] = "recv"
    BY <1>2 DEF Recv, SockAfterRecv
  <2>4. req[c][n] \in Texts /\ n \in Nat /\ Response(req[c][n]) \in Responses
    BY <1>t, TextType, ResponseType
  <2>5. [text |-> req[c][n], n |-> n] \in [text: Texts, n: Nat]
    BY <2>4
  <2>6. TypeOK'
    <3>1. data' \in [Workers -> [text: Texts, n: Nat]]
      BY <2>t, <2>2, <2>5
    <3>2. response' \in [Workers -> Responses \cup {NoAnswer}]
      BY <2>t, <2>2, <2>4
    <3>3. step' \in [Workers -> {"idle", "recv", "lookup", "put", "send", "rest", "close"}]
      BY <1>t, <2>2 DEF TypeOK
    <3> QED BY <1>t, <2>3, <3>1, <3>2, <3>3 DEF TypeOK
  <2>7. StepRuns'
    BY <1>t, <2>2, <2>3 DEF TypeOK, StepRuns
  <2> QED BY <2>6, <2>7
<1>3. CASE RecvFails(w)
  BY <1>t, <1>3, TypeEndJob DEF RecvFails, TypeOK
<1>4. CASE Lookup(w)
  <2>1. PICK p \in Words : p = Key(data[w].text)
    BY <1>4, AtWork, ResponseType DEF Lookup
  <2>2. entry \in [Words -> Slots] /\ Absent \in Slots
    BY <1>t, NothingType DEF TypeOK, Slots
  <2>3. entry' \in [Words -> Slots]
    BY <1>4, <2>1, <2>2 DEF Lookup
  <2>4. response' \in [Workers -> Responses \cup {NoAnswer}]
    <3>1. entry[p].value \in Responses \cup {NoAnswer}
      BY <2>2 DEF Slots
    <3>2. response' = response \/ response' = [response EXCEPT ![w] = entry[p].value]
      BY <1>4, <2>1 DEF Lookup
    <3> QED BY <1>t, <3>1, <3>2 DEF TypeOK
  <2>5. PICK to \in {"send", "put"} : step' = [step EXCEPT ![w] = to]
    BY <1>4 DEF Lookup
  <2>6. step[w] = "lookup" /\ UNCHANGED <<clientVars, backlog, sock, loopVars, poolVars, data>>
    BY <1>4 DEF Lookup
  <2>7. TypeOK'
    BY <1>t, <2>3, <2>4, <2>5, <2>6 DEF TypeOK, Slots
  <2>8. StepRuns'
    BY <1>t, <2>5, <2>6 DEF TypeOK, StepRuns
  <2> QED BY <2>7, <2>8
<1>5. CASE Put(w)
  <2>1. PICK p \in Words, r \in Responses : p = Key(data[w].text) /\ r = Response(data[w].text)
    BY <1>5, AtWork, ResponseType DEF Put
  <2>2. response' = [response EXCEPT ![w] = r] /\ response'[w] = r
    BY <1>t, <1>5, <2>1 DEF Put, TypeOK
  <2>3. entry' = [entry EXCEPT ![p] = [age |-> "fresh", value |-> r]]
    BY <1>5, <2>1, <2>2 DEF Put
  <2>4. [age |-> "fresh", value |-> r] \in Slots
    BY DEF Slots
  <2>5. entry' \in [Words -> Slots]
    BY <1>t, <2>3, <2>4 DEF TypeOK, Slots
  <2>6. /\ step[w] = "put" /\ step' = [step EXCEPT ![w] = "send"]
        /\ UNCHANGED <<clientVars, backlog, sock, loopVars, poolVars, data>>
    BY <1>5 DEF Put
  <2>7. TypeOK'
    BY <1>t, <2>2, <2>5, <2>6 DEF TypeOK, Slots
  <2>8. StepRuns'
    BY <1>t, <2>6 DEF TypeOK, StepRuns
  <2> QED BY <2>7, <2>8
<1>6. CASE SendFirst(w)
  <2>1. [response |-> response[w], extent |-> "part"] \in Answers /\ sock[running[w]] \in Conns
    BY <1>6, AtWork, WhatIsSent DEF SendFirst, Takes
  <2> QED BY <1>t, <1>6, <2>1 DEF SendFirst, Takes, AfterFirst, TypeOK, StepRuns
<1>7. CASE SendRest(w)
  <2>1. PICK a \in Answers : answer' = [answer EXCEPT ![sock[running[w]]] = a]
    BY <1>7, RestIsWhole, WhatIsSent
  <2>2. answer' \in [Conns -> Answers \cup {NoAnswer}]
    BY <1>t, <2>1 DEF TypeOK
  <2> QED BY <1>t, <1>7, <2>2 DEF SendRest, Takes, TypeOK, StepRuns
<1>8. CASE SendFails(w)
  BY <1>t, <1>8, TypeEndJob DEF SendFails, TypeOK
<1>9. CASE Close(w)
  <2>1. answer' \in [Conns -> Answers \cup {NoAnswer}]
    BY <1>t, <1>9 DEF Close, TypeOK
  <2> QED BY <1>9, <2>1, TypeEndJob DEF Close
<1> QED BY <1>1, <1>2, <1>3, <1>4, <1>5, <1>6, <1>7, <1>8, <1>9 DEF WorkerStep

\* A scan that has yet to accept finds a connection to accept.
LEMMA HeadOfBacklog ==
  ASSUME HttpInv, Scanned(ListenFd)
  PROVE  /\ Head(backlog) \in Conns /\ Tail(backlog) \in Seq(Conns)
         /\ conn[Head(backlog)] = "backlog"
         /\ Once(Tail(backlog)) /\ ~In(Tail(backlog), Head(backlog))
         /\ \A c : In(Tail(backlog), c) => In(backlog, c)
<1>1. backlog # <<>> /\ backlog \in Seq(Conns)
  BY DEF HttpInv, OneSocket, Scanned, TypeOK
<1> QED BY <1>1, TailOnce DEF HttpInv, OneSocket

LEMMA TypeLoop ==
  ASSUME HttpInv, LoopStep
  PROVE  TypeOK' /\ StepRuns'
<1> USE DEF clientVars, loopVars, poolVars, workerVars
<1>t. TypeOK /\ StepRuns
  BY DEF HttpInv
<1>u. UNCHANGED <<step, running>>
  BY DEF LoopStep, init_socket, Select, AcceptFails, EndScan, Accept, Dispatch, Pool!Submit
<1>v. StepRuns'
  BY <1>t, <1>u DEF StepRuns
<1>1. CASE init_socket
  BY <1>t, <1>v, <1>1 DEF init_socket, TypeOK
<1>2. CASE Select
  BY <1>t, <1>v, <1>2 DEF Select, TypeOK
<1>3. CASE AcceptFails
  BY <1>t, <1>v, <1>3, HeadOfBacklog DEF AcceptFails, AcceptRefused, TypeOK
<1>4. CASE EndScan
  <2>1. entry \in [Words -> Slots] /\ Absent \in Slots
    BY <1>t, NothingType DEF TypeOK, Slots
  <2>2. entry' \in [Words -> Slots]
    BY <1>4, <2>1 DEF EndScan
  <2> QED BY <1>t, <1>v, <1>4, <2>2 DEF EndScan, TypeOK, Slots
<1>5. ASSUME NEW fd \in Fds, Accept(fd) PROVE TypeOK'
  <2>1. PICK c \in Conns : c = Head(backlog) /\ Tail(backlog) \in Seq(Conns)
    BY <1>5, HeadOfBacklog DEF Accept
  <2>2. \E to \in {"lost", "open"} : conn' = [conn EXCEPT ![c] = to]
    BY <1>5, <2>1 DEF Accept
  <2>3. /\ sock' = [sock EXCEPT ![fd] = c] /\ backlog' \in Seq(Conns)
        /\ master' \subseteq master \cup {fd} /\ max_fd' \in {max_fd, fd} /\ pending' \subseteq pending
        /\ UNCHANGED <<req, sent, gone, answer, loop, SetSize, poolVars, workerVars, entry>>
    BY <1>5, <2>1 DEF Accept, FdSet, NewMax
  <2> QED BY <1>t, <2>1, <2>2, <2>3 DEF TypeOK
<1>6. ASSUME NEW fd \in Fds, Dispatch(fd) PROVE TypeOK'
  <2>1. queued' \in Seq(Fds)
    BY <1>t, <1>6, AppendOnce DEF Dispatch, Pool!Submit, TypeOK
  <2> QED BY <1>t, <1>6, <2>1 DEF Dispatch, Pool!Submit, FdClr, TypeOK
<1> QED BY <1>v, <1>1, <1>2, <1>3, <1>4, <1>5, <1>6 DEF LoopStep

LEMMA TypeNext ==
  ASSUME HttpInv, [Next]_vars
  PROVE  TypeOK' /\ StepRuns'
<1> USE DEF clientVars, loopVars, poolVars, workerVars
<1>t. TypeOK /\ StepRuns
  BY DEF HttpInv
<1>1. ASSUME NEW c \in Conns, Connect(c) PROVE TypeOK' /\ StepRuns'
  <2>1. PICK r \in Seq(Texts) : req' = [req EXCEPT ![c] = r]
    BY <1>1 DEF Connect
  <2>2. Append(backlog, c) \in Seq(Conns)
    BY <1>t DEF TypeOK
  <2>3. req' \in [Conns -> Seq(Texts)] /\ \A d \in Conns : sent[d] <= Len(req'[d])
    <3>1. sent[c] = 0 /\ Len(r) \in Nat
      BY <1>1 DEF Connect, HttpInv, SentLater
    <3> QED BY <1>t, <2>1, <3>1 DEF TypeOK
  <2>4. /\ conn' = [conn EXCEPT ![c] = "backlog"] /\ backlog' = Append(backlog, c)
        /\ UNCHANGED <<sent, gone, answer, sock, loopVars, poolVars, workerVars, entry>>
    BY <1>1 DEF Connect
  <2>5. TypeOK'
    BY <1>t, <2>2, <2>3, <2>4 DEF TypeOK
  <2> QED BY <1>t, <2>4, <2>5 DEF StepRuns
<1>2. ASSUME NEW c \in Conns, SendPart(c) PROVE TypeOK' /\ StepRuns'
  <2>1. /\ sent' = [sent EXCEPT ![c] = sent[c] + 1] /\ sent[c] < Len(req[c])
        /\ UNCHANGED <<conn, req, gone, answer, backlog, sock, loopVars, poolVars, workerVars, entry>>
    BY <1>2 DEF SendPart
  <2>2. sent' \in [Conns -> Nat] /\ \A d \in Conns : sent'[d] <= Len(req[d])
    <3>1. sent[c] \in Nat /\ Len(req[c]) \in Nat
      BY <1>t DEF TypeOK
    <3> QED BY <1>t, <2>1, <3>1 DEF TypeOK
  <2>3. TypeOK'
    BY <1>t, <2>1, <2>2 DEF TypeOK
  <2> QED BY <1>t, <2>1, <2>3 DEF StepRuns
<1>3. ASSUME NEW c \in Conns, HangUp(c) PROVE TypeOK' /\ StepRuns'
  BY <1>t, <1>3 DEF HangUp, TypeOK, StepRuns
<1>4. ASSUME NEW p \in Words, Expire(p) PROVE TypeOK' /\ StepRuns'
  <2>1. entry \in [Words -> Slots]
    BY <1>t DEF TypeOK, Slots
  <2>2. entry' \in [Words -> Slots]
    <3>1. [entry[p] EXCEPT !.age = "stale"] \in Slots
      BY <2>1 DEF Slots
    <3> QED BY <1>4, <2>1, <3>1 DEF Expire
  <2>3. UNCHANGED <<clientVars, backlog, sock, loopVars, poolVars, workerVars>>
    BY <1>4 DEF Expire
  <2> QED BY <1>t, <2>2, <2>3 DEF TypeOK, StepRuns, Slots
<1>5. ASSUME UNCHANGED vars PROVE TypeOK' /\ StepRuns'
  BY <1>t, <1>5 DEF vars, TypeOK, StepRuns
<1> QED BY <1>1, <1>2, <1>3, <1>4, <1>5, TypeLoop, TypeWorker DEF Next

LEMMA SentNext ==
  ASSUME HttpInv, [Next]_vars
  PROVE  SentLater'
<1>1. /\ conn \in [Conns -> {"away", "backlog", "open", "over", "lost"}] /\ sent \in [Conns -> Nat]
      /\ SentLater
  BY DEF HttpInv, TypeOK
<1>2. CASE UNCHANGED sent
  <2>1. conn' = conn \/ \E c : \E to \in {"backlog", "open", "over", "lost"} : conn' = [conn EXCEPT ![c] = to]
    BY DEF Next, vars, clientVars, Connect, SendPart, HangUp, Expire, LoopStep, init_socket, Select,
           AcceptFails, EndScan, Accept, Dispatch, WorkerStep, StartJob, Recv, RecvFails, Lookup, Put,
           SendFirst, SendRest, SendFails, Close, EndJob
  <2> QED BY <1>1, <1>2, <2>1 DEF SentLater
<1>3. ASSUME NEW c \in Conns, SendPart(c) PROVE SentLater'
  BY <1>1, <1>3 DEF SendPart, SentLater
<1>4. UNCHANGED sent \/ \E c \in Conns : SendPart(c)
  BY DEF Next, vars, clientVars, Connect, HangUp, Expire, LoopStep, init_socket, Select,
         AcceptFails, EndScan, Accept, Dispatch, WorkerStep, StartJob, Recv, RecvFails, Lookup, Put,
         SendFirst, SendRest, SendFails, Close, EndJob
<1> QED BY <1>2, <1>3, <1>4

-----------------------------------------------------------------------------
\* Where a socket number is

LEMMA PlaceQuiet ==
  ASSUME OnePlace, UNCHANGED <<queued, running, sock, master>>,
         pending' \ {ListenFd} \subseteq master
  PROVE  OnePlace'
  BY DEF OnePlace, In, Once

\* The end of a job frees the number, which nobody else has.
LEMMA PlaceEndJob ==
  ASSUME HttpInv, NEW w \in Workers, step[w] # "idle", EndJob(w)
  PROVE  OnePlace'
<1>1. PICK f \in Fds : f = running[w] /\ f # 0 /\ f \notin master /\ ~In(queued, f)
  BY AtWork
<1>2. /\ running' = [running EXCEPT ![w] = 0] /\ sock' = [sock EXCEPT ![f] = NoConn]
      /\ UNCHANGED <<queued, master, pending>>
  BY <1>1 DEF EndJob, ClosedSock, loopVars, Pool!Finish
<1>3. /\ running \in [Workers -> Fds \cup {0}] /\ sock \in [Fds -> Conns \cup {NoConn}]
      /\ OnePlace
  BY DEF HttpInv, TypeOK
<1>4. \A v \in Workers : running'[v] # 0 => v # w /\ running'[v] = running[v] /\ running[v] # f
  BY <1>1, <1>2, <1>3 DEF OnePlace
<1>5. \A fd \in Fds \ {f} : sock'[fd] = sock[fd]
  BY <1>2, <1>3
<1>6. \A v \in Workers : running'[v] # 0 => running[v] \in Fds \ {f}
  BY <1>3, <1>4
<1> QED BY <1>1, <1>2, <1>3, <1>4, <1>5, <1>6 DEF OnePlace, In, Once

LEMMA PlaceNext ==
  ASSUME HttpInv, [Next]_vars
  PROVE  OnePlace'
<1> USE DEF clientVars, loopVars, poolVars, workerVars
<1>t. /\ running \in [Workers -> Fds \cup {0}] /\ sock \in [Fds -> Conns \cup {NoConn}]
      /\ queued \in Seq(Fds) /\ OnePlace
  BY DEF HttpInv, TypeOK
<1>p. pending \ {ListenFd} \subseteq master
  BY <1>t DEF OnePlace
<1>1. ASSUME NEW c \in Conns, Connect(c) \/ SendPart(c) \/ HangUp(c) PROVE OnePlace'
  BY <1>t, <1>p, <1>1, PlaceQuiet DEF Connect, SendPart, HangUp
<1>2. ASSUME (\E p \in Words : Expire(p)) \/ init_socket \/ Select \/ AcceptFails \/ EndScan
             \/ UNCHANGED vars
      PROVE  OnePlace'
  <2>1. UNCHANGED <<queued, running, sock, master>>
    BY <1>2 DEF Expire, init_socket, Select, AcceptFails, AcceptRefused, EndScan, vars
  <2>2. pending' \ {ListenFd} \subseteq master
    BY <1>p, <1>2 DEF Expire, init_socket, Select, AcceptFails, EndScan, vars
  <2> QED BY <1>t, <2>1, <2>2, PlaceQuiet
<1>3. ASSUME NEW fd \in Fds, Accept(fd) PROVE OnePlace'
  <2>1. PICK c \in Conns : c = Head(backlog)
    BY <1>3, HeadOfBacklog DEF Accept
  <2>2. /\ sock' = [sock EXCEPT ![fd] = c] /\ sock[fd] = NoConn
        /\ master \subseteq master' /\ master' \subseteq master \cup {fd} /\ pending' \subseteq pending
        /\ UNCHANGED <<queued, running>>
    BY <1>3, <2>1 DEF Accept, FdSet
  <2>3. c # NoConn /\ sock'[fd] # NoConn /\ \A f \in Fds \ {fd} : sock'[f] = sock[f]
    BY <1>t, <2>2
  <2>4. \A w \in Workers : running[w] # 0 => running[w] \in Fds \ {fd}
    BY <1>t, <2>2 DEF OnePlace
  <2>5. ~In(queued, fd)
    BY <1>t, <2>2 DEF OnePlace
  <2> QED BY <1>t, <2>2, <2>3, <2>4, <2>5 DEF OnePlace, In, Once
<1>4. ASSUME NEW fd \in Fds, Dispatch(fd) PROVE OnePlace'
  <2>1. fd \in pending /\ fd # ListenFd /\ fd \in master /\ sock[fd] # NoConn
    BY <1>t, <1>4 DEF Dispatch, Scanned, OnePlace
  <2>2. /\ master' = master \ {fd} /\ pending' = pending \ {fd} /\ queued' = Append(queued, fd)
        /\ UNCHANGED <<running, sock>>
    BY <1>4 DEF Dispatch, FdClr, Pool!Submit
  <2>3. ~In(queued, fd) /\ \A w \in Workers : running[w] # fd
    BY <1>t, <2>1 DEF OnePlace
  <2>4. Once(queued') /\ \A y : In(queued', y) <=> In(queued, y) \/ y = fd
    BY <1>t, <2>2, <2>3, AppendOnce DEF OnePlace
  <2>5. \A f \in Fds : In(queued', f) => f \notin master' /\ sock'[f] # NoConn
    BY <1>t, <2>1, <2>2, <2>4 DEF OnePlace
  <2>6. \A w \in Workers : running'[w] # 0 => /\ running'[w] \notin master'
                                             /\ ~In(queued', running'[w])
                                             /\ sock'[running'[w]] # NoConn
    BY <1>t, <2>2, <2>3, <2>4 DEF OnePlace
  <2>7. /\ \A v, w \in Workers : running'[v] = running'[w] /\ running'[v] # 0 => v = w
        /\ \A f \in Fds \cap master' : sock'[f] # NoConn
        /\ pending' \ {ListenFd} \subseteq master'
    BY <1>t, <2>2 DEF OnePlace
  <2> QED BY <2>4, <2>5, <2>6, <2>7 DEF OnePlace
<1>5. ASSUME NEW w \in Workers, StartJob(w) PROVE OnePlace'
  <2>1. PICK f : f = Head(queued)
    OBVIOUS
  <2>2. /\ running' = [running EXCEPT ![w] = f] /\ queued' = Tail(queued) /\ queued # <<>>
        /\ UNCHANGED <<master, pending, sock>>
    BY <1>5, <2>1 DEF StartJob, Pool!Start
  <2>3. /\ f \in Fds /\ In(queued, f) /\ Once(queued') /\ ~In(queued', f)
        /\ \A y : In(queued', y) => In(queued, y)
    BY <1>t, <2>1, <2>2, TailOnce DEF OnePlace
  <2>4. f \notin master /\ sock[f] # NoConn /\ \A v \in Workers : running[v] # f
    BY <1>t, <2>3 DEF OnePlace
  <2>5. running'[w] = f /\ \A v \in Workers \ {w} : running'[v] = running[v]
    BY <1>t, <2>2
  <2>6. \A u, v \in Workers : running'[u] = running'[v] /\ running'[u] # 0 => u = v
    BY <1>t, <2>4, <2>5 DEF OnePlace
  <2>7. \A v \in Workers : running'[v] # 0 => /\ running'[v] \notin master'
                                             /\ ~In(queued', running'[v])
                                             /\ sock'[running'[v]] # NoConn
    BY <1>t, <2>2, <2>3, <2>4, <2>5 DEF OnePlace
  <2> QED BY <1>t, <2>2, <2>3, <2>6, <2>7 DEF OnePlace
<1>6. ASSUME NEW w \in Workers, Recv(w) \/ Lookup(w) \/ Put(w) \/ SendFirst(w) \/ SendRest(w)
      PROVE  OnePlace'
  BY <1>t, <1>p, <1>6, PlaceQuiet DEF Recv, SockAfterRecv, Lookup, Put, SendFirst, SendRest
<1>7. ASSUME NEW w \in Workers, RecvFails(w) \/ SendFails(w) \/ Close(w) PROVE OnePlace'
  BY <1>7, PlaceEndJob DEF RecvFails, SendFails, Close
<1> QED BY <1>1, <1>2, <1>3, <1>4, <1>5, <1>6, <1>7 DEF Next, LoopStep, WorkerStep

-----------------------------------------------------------------------------
\* Which connection a socket stands for

\* The connection a worker serves is open, and no other worker serves it.
LEMMA ServedOnce ==
  ASSUME HttpInv, NEW w \in Workers, step[w] # "idle"
  PROVE  /\ conn[sock[running[w]]] \in {"open", "lost"}
         /\ ~In(backlog, sock[running[w]])
         /\ \A f \in Fds : sock[f] = sock[running[w]] => f = running[w]
         /\ \A v \in Workers : v # w /\ step[v] # "idle" =>
              running[v] \in Fds \ {running[w]} /\ sock[running[v]] # sock[running[w]]
<1>1. PICK f \in Fds, c \in Conns : f = running[w] /\ c = sock[f] /\ c # NoConn /\ f # 0
  BY AtWork
<1>2. conn[c] \in {"open", "lost"} /\ ~In(backlog, c) /\ \A g \in Fds : sock[g] = c => g = f
  BY <1>1 DEF HttpInv, OneSocket
<1>3. ASSUME NEW v \in Workers, v # w, step[v] # "idle"
      PROVE  running[v] \in Fds \ {f} /\ sock[running[v]] # c
  <2>1. running[v] \in Fds /\ running[v] # 0
    BY <1>3, AtWork
  <2>2. running[v] # running[w]
    BY <1>3, <2>1 DEF HttpInv, OnePlace
  <2> QED BY <1>1, <1>2, <2>1, <2>2
<1> QED BY <1>1, <1>2, <1>3

LEMMA SocketQuiet ==
  ASSUME OneSocket, UNCHANGED <<backlog, conn, sock>>, ListenFd \in pending' => backlog # <<>>,
         \A c \in Conns : answer'[c] = answer[c] \/ conn[c] \notin {"away", "backlog"}
  PROVE  OneSocket'
  BY DEF OneSocket, In, Once

LEMMA SocketNext ==
  ASSUME HttpInv, [Next]_vars
  PROVE  OneSocket'
<1> USE DEF clientVars, loopVars, poolVars, workerVars
<1>t. /\ conn \in [Conns -> {"away", "backlog", "open", "over", "lost"}]
      /\ answer \in [Conns -> Answers \cup {NoAnswer}]
      /\ sock \in [Fds -> Conns \cup {NoConn}] /\ backlog \in Seq(Conns) /\ OneSocket
  BY DEF HttpInv, TypeOK
<1>p. ListenFd \in pending => backlog # <<>>
  BY <1>t DEF OneSocket
<1>1. ASSUME NEW c \in Conns, Connect(c) PROVE OneSocket'
  <2>1. /\ conn[c] = "away" /\ conn' = [conn EXCEPT ![c] = "backlog"]
        /\ backlog' = Append(backlog, c) /\ UNCHANGED <<answer, sock, pending>>
    BY <1>1 DEF Connect
  <2>2. ~In(backlog, c)
    BY <1>t, <2>1 DEF OneSocket
  <2>3. Once(backlog') /\ \A y : In(backlog', y) <=> In(backlog, y) \/ y = c
    BY <1>t, <2>1, <2>2, AppendOnce DEF OneSocket
  <2>4. backlog' # <<>>
    <3>1. backlog' \in Seq(Conns) /\ In(backlog', c)
      BY <1>t, <2>1, <2>3
    <3> QED BY <3>1 DEF In
  <2>5. \A f \in Fds : sock[f] # NoConn => sock[f] \in Conns /\ sock[f] # c
    BY <1>t, <2>1 DEF OneSocket
  <2> QED BY <1>t, <2>1, <2>3, <2>4, <2>5 DEF OneSocket
<1>2. ASSUME NEW c \in Conns, SendPart(c) \/ HangUp(c) PROVE OneSocket'
  BY <1>t, <1>p, <1>2, SocketQuiet DEF SendPart, HangUp
<1>3. ASSUME (\E p \in Words : Expire(p)) \/ init_socket \/ EndScan \/ UNCHANGED vars
      PROVE  OneSocket'
  BY <1>t, <1>p, <1>3, SocketQuiet DEF Expire, init_socket, EndScan, vars
<1>4. CASE Select
  BY <1>t, <1>4, SocketQuiet DEF Select, Readable
<1>5. ASSUME NEW fd \in Fds, Dispatch(fd) PROVE OneSocket'
  BY <1>t, <1>p, <1>5, SocketQuiet DEF Dispatch
<1>6. ASSUME AcceptFails \/ \E fd \in Fds : Accept(fd) PROVE OneSocket'
  <2>1. PICK c \in Conns : /\ c = Head(backlog) /\ conn[c] = "backlog" /\ Once(Tail(backlog))
                           /\ ~In(Tail(backlog), c)
                           /\ \A y : In(Tail(backlog), y) => In(backlog, y)
    BY <1>6, HeadOfBacklog DEF AcceptFails, Accept
  <2>2. /\ backlog' = Tail(backlog) /\ pending' = pending \ {ListenFd} /\ answer' = answer
    BY <1>6 DEF AcceptFails, Accept
  <2>3. \A f \in Fds : sock[f] # NoConn => sock[f] \in Conns /\ sock[f] # c
    BY <1>t, <2>1 DEF OneSocket
  <2>4. PICK to \in {"open", "lost", "over"} : conn' = [conn EXCEPT ![c] = to]
    BY <1>6, <2>1 DEF AcceptFails, Accept
  <2>5. CASE sock' = sock
    BY <1>t, <2>1, <2>2, <2>3, <2>4, <2>5 DEF OneSocket
  <2>6. CASE \E fd \in Fds : Accept(fd)
    <3>1. PICK fd \in Fds : Accept(fd)
      BY <2>6
    <3>2. sock' = [sock EXCEPT ![fd] = c]
      BY <2>1, <3>1 DEF Accept
    <3>3. conn'[c] \in {"open", "lost"}
      BY <1>t, <2>1, <3>1 DEF Accept
    <3>4. \A f \in Fds : sock'[f] = IF f = fd THEN c ELSE sock[f]
      BY <1>t, <3>2
    <3>5. \A f \in Fds : sock'[f] # NoConn => conn'[sock'[f]] \in {"open", "lost"}
      BY <1>t, <2>1, <2>3, <2>4, <3>3, <3>4 DEF OneSocket
    <3>6. \A f, g \in Fds : sock'[f] = sock'[g] /\ sock'[f] # NoConn => f = g
      BY <1>t, <2>3, <3>4 DEF OneSocket
    <3>7. \A d \in Conns : In(backlog', d) => conn'[d] = "backlog"
      BY <1>t, <2>1, <2>2, <2>4 DEF OneSocket
    <3>8. \A d \in Conns : conn'[d] \in {"away", "backlog"} => answer'[d] = NoAnswer
      BY <1>t, <2>1, <2>2, <2>4 DEF OneSocket
    <3> QED BY <2>1, <2>2, <3>5, <3>6, <3>7, <3>8 DEF OneSocket
  <2> QED BY <1>6, <2>5, <2>6 DEF AcceptFails
<1>7. ASSUME NEW w \in Workers, StartJob(w) \/ Recv(w) \/ Lookup(w) \/ Put(w) PROVE OneSocket'
  BY <1>t, <1>p, <1>7, SocketQuiet DEF StartJob, Recv, SockAfterRecv, Lookup, Put
<1>8. ASSUME NEW w \in Workers, SendFirst(w) \/ SendRest(w) PROVE OneSocket'
  <2>1. PICK c \in Conns : c = sock[running[w]] /\ conn[c] \in {"open", "lost"}
    BY <1>8, AtWork, ServedOnce DEF SendFirst, SendRest, Takes
  <2>2. \A d \in Conns \ {c} : answer'[d] = answer[d]
    BY <1>t, <1>8, <2>1 DEF SendFirst, SendRest
  <2> QED BY <1>t, <1>p, <1>8, <2>1, <2>2, SocketQuiet DEF SendFirst, SendRest
<1>9. ASSUME NEW w \in Workers, RecvFails(w) \/ SendFails(w) \/ Close(w) PROVE OneSocket'
  <2>1. PICK f \in Fds, c \in Conns :
             /\ f = running[w] /\ c = sock[f] /\ c # NoConn /\ conn[c] \in {"open", "lost"}
             /\ ~In(backlog, c) /\ \A g \in Fds : sock[g] = c => g = f
    <3>1. step[w] # "idle"
      BY <1>9 DEF RecvFails, SendFails, Close
    <3>2. PICK f \in Fds, c \in Conns : f = running[w] /\ c = sock[f] /\ c # NoConn
      BY <3>1, AtWork
    <3>3. conn[c] \in {"open", "lost"} /\ ~In(backlog, c) /\ \A g \in Fds : sock[g] = c => g = f
      BY <3>1, <3>2, ServedOnce
    <3> QED BY <3>2, <3>3
  <2>2. /\ sock' = [sock EXCEPT ![f] = NoConn] /\ conn' = [conn EXCEPT ![c] = "over"]
        /\ UNCHANGED <<backlog, pending>>
    BY <1>9, <2>1 DEF RecvFails, SendFails, Close, EndJob, ClosedSock
  <2>3. \A d \in Conns \ {c} : answer'[d] = answer[d]
    BY <1>t, <1>9, <2>1 DEF RecvFails, SendFails, Close
  <2>4. \A g \in Fds : sock'[g] = IF g = f THEN NoConn ELSE sock[g]
    BY <1>t, <2>2
  <2>5. \A d \in Conns : conn'[d] = IF d = c THEN "over" ELSE conn[d]
    BY <1>t, <2>2
  <2>6. \A g \in Fds : sock'[g] # NoConn => conn'[sock'[g]] \in {"open", "lost"}
    BY <1>t, <2>1, <2>4, <2>5 DEF OneSocket
  <2>7. \A g, h \in Fds : sock'[g] = sock'[h] /\ sock'[g] # NoConn => g = h
    BY <1>t, <2>4 DEF OneSocket
  <2>8. \A d \in Conns : In(backlog', d) => conn'[d] = "backlog"
    BY <1>t, <2>1, <2>2, <2>5 DEF OneSocket
  <2>9. \A d \in Conns : conn'[d] \in {"away", "backlog"} => answer'[d] = NoAnswer
    BY <1>t, <2>3, <2>5 DEF OneSocket
  <2>10. Once(backlog') /\ (ListenFd \in pending' => backlog' # <<>>)
    BY <1>t, <1>p, <2>2 DEF OneSocket, Once
  <2> QED BY <2>6, <2>7, <2>8, <2>9, <2>10 DEF OneSocket
<1> QED BY <1>1, <1>2, <1>3, <1>4, <1>5, <1>6, <1>7, <1>8, <1>9 DEF Next, LoopStep, WorkerStep

-----------------------------------------------------------------------------
\* What a worker knows and answers

\* A worker that goes on with its job is not disturbed by what happens to other
\* connections, nor by more of its own request arriving.
LEMMA KnowsQuiet ==
  ASSUME HttpInv,
         \A w \in Workers : step'[w] \in {"idle", "recv"} \/
           /\ step[w] \notin {"idle", "recv"}
           /\ data'[w] = data[w] /\ running'[w] = running[w] /\ sock'[running[w]] = sock[running[w]]
           /\ (step'[w] = step[w] /\ response'[w] = response[w]) \/ step'[w] \in {"lookup", "put", "send"},
         \A w \in Workers : step[w] # "idle" =>
           LET c == sock[running[w]] IN
             req'[c] = req[c] /\ answer'[c] = answer[c] /\ sent'[c] >= sent[c] /\ sent'[c] \in Int
  PROVE  WorkerKnows'
<1> SUFFICES ASSUME NEW w \in Workers, step'[w] \notin {"idle", "recv"}
             PROVE  LET c == sock'[running'[w]] IN
                    /\ step'[w] \in {"lookup", "put", "send", "rest", "close"} =>
                         data'[w].n \in 1..sent'[c] /\ data'[w].text = req'[c][data'[w].n]
                    /\ step'[w] = "rest" => answer'[c] = [response |-> response'[w], extent |-> "part"]
                    /\ step'[w] = "close" => answer'[c] = [response |-> response'[w], extent |-> "whole"]
  BY DEF WorkerKnows
<1>1. PICK c \in Conns : c = sock[running[w]]
  BY AtWork
<1>2. /\ sock'[running'[w]] = c /\ data'[w] = data[w]
      /\ req'[c] = req[c] /\ answer'[c] = answer[c] /\ sent'[c] >= sent[c] /\ sent'[c] \in Int
      /\ (step'[w] = step[w] /\ response'[w] = response[w]) \/ step'[w] \in {"lookup", "put", "send"}
  BY <1>1
<1>3. step[w] \in {"lookup", "put", "send", "rest", "close"} /\ sent[c] \in Int
  BY DEF HttpInv, TypeOK
<1>4. /\ data[w].n \in 1..sent[c] /\ data[w].text = req[c][data[w].n]
      /\ step[w] = "rest" => answer[c] = [response |-> response[w], extent |-> "part"]
      /\ step[w] = "close" => answer[c] = [response |-> response[w], extent |-> "whole"]
  BY <1>1, <1>3 DEF HttpInv, WorkerKnows
<1>5. data[w].n \in 1..sent'[c]
  BY <1>2, <1>3, <1>4
<1> QED BY <1>2, <1>4, <1>5

\* A send changes what its worker knows of its own connection only.
LEMMA KnowsSend ==
  ASSUME HttpInv, NEW w \in Workers, step[w] \in {"send", "rest"},
         NEW e \in {"part", "whole"}, NEW to \in {"rest", "close"}, e = "part" <=> to = "rest",
         answer' = [answer EXCEPT ![sock[running[w]]] = [response |-> response[w], extent |-> e]],
         step' = [step EXCEPT ![w] = to],
         UNCHANGED <<req, sent, sock, running, data, response>>
  PROVE  WorkerKnows'
<1>1. PICK c \in Conns : c = sock[running[w]]
  BY AtWork
<1>2. /\ step \in [Workers -> {"idle", "recv", "lookup", "put", "send", "rest", "close"}]
      /\ answer \in [Conns -> Answers \cup {NoAnswer}]
  BY DEF HttpInv, TypeOK
<1> SUFFICES ASSUME NEW v \in Workers, step'[v] \notin {"idle", "recv"}
             PROVE  LET d == sock[running[v]] IN
                    /\ step'[v] \in {"lookup", "put", "send", "rest", "close"} =>
                         data[v].n \in 1..sent[d] /\ data[v].text = req[d][data[v].n]
                    /\ step'[v] = "rest" => answer'[d] = [response |-> response[v], extent |-> "part"]
                    /\ step'[v] = "close" => answer'[d] = [response |-> response[v], extent |-> "whole"]
  BY DEF WorkerKnows
<1>3. CASE v = w
  <2>1. data[w].n \in 1..sent[c] /\ data[w].text = req[c][data[w].n]
    BY <1>1 DEF HttpInv, WorkerKnows
  <2>2. step'[w] = to /\ answer'[c] = [response |-> response[w], extent |-> e]
    BY <1>1, <1>2
  <2> QED BY <1>1, <1>3, <2>1, <2>2
<1>4. CASE v # w
  <2>1. step'[v] = step[v]
    BY <1>2, <1>4
  <2>2. PICK d \in Conns : d = sock[running[v]] /\ d # c
    BY <1>1, <1>4, <2>1, AtWork, ServedOnce
  <2>3. answer'[d] = answer[d]
    BY <1>1, <1>2, <2>2
  <2> QED BY <2>1, <2>2, <2>3 DEF HttpInv, WorkerKnows
<1> QED BY <1>3, <1>4

LEMMA KnowsEndJob ==
  ASSUME HttpInv, NEW w \in Workers, step[w] # "idle", EndJob(w),
         \A c \in Conns \ {sock[running[w]]} : answer'[c] = answer[c]
  PROVE  WorkerKnows'
<1>1. /\ step \in [Workers -> {"idle", "recv", "lookup", "put", "send", "rest", "close"}]
      /\ running \in [Workers -> Fds \cup {0}] /\ sock \in [Fds -> Conns \cup {NoConn}]
      /\ data \in [Workers -> [text: Texts, n: Nat]]
      /\ response \in [Workers -> Responses \cup {NoAnswer}]
  BY DEF HttpInv, TypeOK
<1>2. /\ step' = [step EXCEPT ![w] = "idle"] /\ running' = [running EXCEPT ![w] = 0]
      /\ data' = [data EXCEPT ![w] = Nothing] /\ response' = [response EXCEPT ![w] = NoAnswer]
      /\ sock' = [sock EXCEPT ![running[w]] = NoConn]
      /\ UNCHANGED <<req, sent>>
  BY DEF EndJob, ClosedSock, Pool!Finish
<1> SUFFICES ASSUME NEW v \in Workers, step'[v] \notin {"idle", "recv"}
             PROVE  LET c == sock'[running'[v]] IN
                    /\ step'[v] \in {"lookup", "put", "send", "rest", "close"} =>
                         data'[v].n \in 1..sent'[c] /\ data'[v].text = req'[c][data'[v].n]
                    /\ step'[v] = "rest" => answer'[c] = [response |-> response'[v], extent |-> "part"]
                    /\ step'[v] = "close" => answer'[c] = [response |-> response'[v], extent |-> "whole"]
  BY DEF WorkerKnows
<1>3. /\ v # w /\ step'[v] = step[v] /\ running'[v] = running[v] /\ data'[v] = data[v]
      /\ response'[v] = response[v]
  BY <1>1, <1>2
<1>4. PICK f \in Fds, c \in Conns : f = running[v] /\ c = sock[f] /\ f # running[w] /\ c # sock[running[w]]
  <2>1. step[v] # "idle"
    BY <1>3
  <2>2. PICK f \in Fds, c \in Conns : f = running[v] /\ c = sock[f]
    BY <2>1, AtWork
  <2>3. f # running[w] /\ c # sock[running[w]]
    BY <1>3, <2>1, <2>2, ServedOnce
  <2> QED BY <2>2, <2>3
<1>5. sock'[f] = c /\ answer'[c] = answer[c]
  BY <1>1, <1>2, <1>4
<1> QED BY <1>2, <1>3, <1>4, <1>5 DEF HttpInv, WorkerKnows

LEMMA KnowsNext ==
  ASSUME HttpInv, [Next]_vars
  PROVE  WorkerKnows'
<1> USE DEF clientVars, loopVars, poolVars, workerVars
<1>t. /\ req \in [Conns -> Seq(Texts)] /\ sent \in [Conns -> Nat]
      /\ answer \in [Conns -> Answers \cup {NoAnswer}]
      /\ sock \in [Fds -> Conns \cup {NoConn}] /\ running \in [Workers -> Fds \cup {0}]
      /\ step \in [Workers -> {"idle", "recv", "lookup", "put", "send", "rest", "close"}]
      /\ data \in [Workers -> [text: Texts, n: Nat]]
  BY DEF HttpInv, TypeOK
<1>a. \A w \in Workers : step[w] # "idle" =>
        /\ running[w] \in Fds /\ sock[running[w]] \in Conns /\ sock[running[w]] # NoConn
        /\ conn[sock[running[w]]] \in {"open", "lost"}
  BY AtWork, ServedOnce
<1>1. ASSUME NEW c \in Conns, Connect(c) PROVE WorkerKnows'
  <2>1. \A d \in Conns \ {c} : req'[d] = req[d]
    BY <1>t, <1>1 DEF Connect
  <2>2. \A w \in Workers : step[w] # "idle" => sock[running[w]] \in Conns \ {c}
    BY <1>a, <1>1 DEF Connect
  <2> QED BY <1>t, <1>1, <2>1, <2>2, KnowsQuiet DEF Connect
<1>2. ASSUME NEW c \in Conns, SendPart(c) PROVE WorkerKnows'
  <2>1. \A d \in Conns : sent'[d] >= sent[d] /\ sent'[d] \in Int
    BY <1>t, <1>2 DEF SendPart
  <2> QED BY <1>t, <1>a, <1>2, <2>1, KnowsQuiet DEF SendPart
<1>3. ASSUME NEW c \in Conns, HangUp(c) PROVE WorkerKnows'
  BY <1>t, <1>a, <1>3, KnowsQuiet DEF HangUp
<1>4. ASSUME (\E p \in Words : Expire(p)) \/ init_socket \/ Select \/ AcceptFails \/ EndScan
             \/ (\E fd \in Fds : Dispatch(fd)) \/ UNCHANGED vars
      PROVE  WorkerKnows'
  <2>1. UNCHANGED <<step, data, response, running, sock, req, answer, sent>>
    BY <1>4 DEF Expire, init_socket, Select, AcceptFails, EndScan, Dispatch, Pool!Submit, vars
  <2> QED BY <1>t, <1>a, <2>1, KnowsQuiet
<1>5. ASSUME NEW fd \in Fds, Accept(fd) PROVE WorkerKnows'
  <2>1. \A f \in Fds \ {fd} : sock'[f] = sock[f]
    BY <1>t, <1>5 DEF Accept
  <2>2. \A w \in Workers : step[w] # "idle" => running[w] \in Fds \ {fd}
    BY <1>a, <1>5 DEF Accept
  <2> QED BY <1>t, <1>a, <1>5, <2>1, <2>2, KnowsQuiet DEF Accept
<1>6. ASSUME NEW w \in Workers, StartJob(w) PROVE WorkerKnows'
  <2>1. /\ step'[w] = "recv" /\ \A v \in Workers \ {w} : step'[v] = step[v] /\ running'[v] = running[v]
        /\ UNCHANGED <<data, response, sock, req, answer, sent>>
    BY <1>t, <1>6 DEF StartJob, Pool!Start
  <2> QED BY <1>t, <1>a, <2>1, KnowsQuiet
<1>7. ASSUME NEW w \in Workers, Recv(w) PROVE WorkerKnows'
  <2>1. PICK c \in Conns : c = sock[running[w]]
    BY <1>a, <1>7 DEF Recv
  <2>2. PICK n \in 1..sent[c] :
             /\ data' = [data EXCEPT ![w] = [text |-> req[c][n], n |-> n]]
             /\ \E to \in {"lookup", "send"} : step' = [step EXCEPT ![w] = to]
             /\ \E r : response' = response \/ response' = [response EXCEPT ![w] = r]
             /\ UNCHANGED <<running, sock, req, answer, sent>>
    BY <1>7, <2>1 DEF Recv, SockAfterRecv
  <2>3. /\ step'[w] \in {"lookup", "send"} /\ data'[w].text = req[c][n] /\ data'[w].n = n
        /\ \A v \in Workers \ {w} : step'[v] = step[v] /\ data'[v] = data[v]
    BY <1>t, <2>2
  <2>4. \A v \in Workers \ {w} : response'[v] = response[v]
    BY <2>2 DEF HttpInv, TypeOK
  <2> QED BY <2>1, <2>2, <2>3, <2>4 DEF HttpInv, WorkerKnows
<1>8. ASSUME NEW w \in Workers, Lookup(w) \/ Put(w) PROVE WorkerKnows'
  <2>1. /\ step[w] \in {"lookup", "put"} /\ step'[w] \in {"put", "send"}
        /\ \A v \in Workers \ {w} : step'[v] = step[v]
        /\ UNCHANGED <<data, running, sock, req, answer, sent>>
    BY <1>t, <1>8 DEF Lookup, Put
  <2>2. \A v \in Workers \ {w} : response'[v] = response[v]
    BY <1>8 DEF Lookup, Put, HttpInv, TypeOK
  <2> QED BY <1>t, <1>a, <2>1, <2>2, KnowsQuiet
<1>9. ASSUME NEW w \in Workers, SendFirst(w) PROVE WorkerKnows'
  BY <1>9, KnowsSend DEF SendFirst, Takes, AfterFirst
<1>10. ASSUME NEW w \in Workers, SendRest(w) PROVE WorkerKnows'
  BY <1>10, RestIsWhole, KnowsSend DEF SendRest
<1>11. ASSUME NEW w \in Workers, RecvFails(w) \/ SendFails(w) \/ Close(w) PROVE WorkerKnows'
  <2>1. /\ step[w] # "idle" /\ EndJob(w)
        /\ \/ UNCHANGED answer
           \/ answer' = [answer EXCEPT ![sock[running[w]]] = NoAnswer]
    BY <1>11 DEF RecvFails, SendFails, Close
  <2> QED BY <1>t, <2>1, KnowsEndJob
<1> QED BY <1>1, <1>2, <1>3, <1>4, <1>5, <1>6, <1>7, <1>8, <1>9, <1>10, <1>11
        DEF Next, LoopStep, WorkerStep

-----------------------------------------------------------------------------
\* The cache and the responses

LEMMA TrueQuiet ==
  ASSUME EntriesAreTrue, ResponseIsTrue, UNCHANGED entry,
         \A w \in Workers : step'[w] \in {"idle", "recv"} \/
           (data'[w] = data[w] /\ response'[w] = response[w] /\
              (step'[w] = step[w] \/ (step[w] \in {"send", "rest"} /\ step'[w] \in {"rest", "close"})))
  PROVE  EntriesAreTrue' /\ ResponseIsTrue'
<1>1. EntriesAreTrue'
  BY DEF EntriesAreTrue
<1>2. ResponseIsTrue'
  BY DEF ResponseIsTrue
<1> QED BY <1>1, <1>2

LEMMA TrueNext ==
  ASSUME HttpInv, [Next]_vars
  PROVE  EntriesAreTrue' /\ ResponseIsTrue'
<1> USE DEF clientVars, loopVars, poolVars, workerVars
<1>t. /\ step \in [Workers -> {"idle", "recv", "lookup", "put", "send", "rest", "close"}]
      /\ data \in [Workers -> [text: Texts, n: Nat]]
      /\ response \in [Workers -> Responses \cup {NoAnswer}]
      /\ entry \in [Words -> Slots]
      /\ EntriesAreTrue /\ ResponseIsTrue
  BY DEF HttpInv, TypeOK, Slots
<1>1. ASSUME \/ \E c \in Conns : Connect(c) \/ SendPart(c) \/ HangUp(c)
             \/ init_socket \/ Select \/ AcceptFails
             \/ (\E fd \in Fds : Accept(fd) \/ Dispatch(fd)) \/ UNCHANGED vars
      PROVE  EntriesAreTrue' /\ ResponseIsTrue'
  <2>1. UNCHANGED <<step, data, response, entry>>
    BY <1>1 DEF Connect, SendPart, HangUp, init_socket, Select, AcceptFails, Accept, Dispatch, vars
  <2> QED BY <1>t, <2>1, TrueQuiet
<1>2. ASSUME NEW p \in Words, Expire(p) PROVE EntriesAreTrue' /\ ResponseIsTrue'
  <2>1. /\ entry' = [entry EXCEPT ![p].age = "stale"] /\ entry[p].age = "fresh"
        /\ UNCHANGED <<step, data, response>>
    BY <1>2 DEF Expire
  <2>2. \A q \in Words : entry'[q].value = entry[q].value /\ (entry'[q].age = "absent" <=> entry[q].age = "absent")
    BY <1>t, <2>1 DEF Slots
  <2> QED BY <1>t, <2>1, <2>2 DEF EntriesAreTrue, ResponseIsTrue
<1>3. CASE EndScan
  <2>1. \A q \in Words : entry'[q] = entry[q] \/ entry'[q].age = "absent"
    BY <1>3 DEF EndScan, Absent
  <2>2. UNCHANGED <<step, data, response>>
    BY <1>3 DEF EndScan
  <2> QED BY <1>t, <2>1, <2>2 DEF EntriesAreTrue, ResponseIsTrue
<1>4. ASSUME NEW w \in Workers, StartJob(w) PROVE EntriesAreTrue' /\ ResponseIsTrue'
  <2>1. step' = [step EXCEPT ![w] = "recv"] /\ UNCHANGED <<data, response, entry>>
    BY <1>4 DEF StartJob
  <2> QED BY <1>t, <2>1, TrueQuiet
<1>5. ASSUME NEW w \in Workers, Recv(w) PROVE EntriesAreTrue' /\ ResponseIsTrue'
  <2>1. PICK text : /\ \E n : data' = [data EXCEPT ![w] = [text |-> text, n |-> n]]
                    /\ \/ /\ text.method = "GET" /\ response' = response
                          /\ step' = [step EXCEPT ![w] = "lookup"]
                       \/ /\ response' = [response EXCEPT ![w] = Response(text)]
                          /\ step' = [step EXCEPT ![w] = "send"]
    BY <1>5 DEF Recv
  <2>2. UNCHANGED entry
    BY <1>5 DEF Recv
  <2>3. /\ data'[w].text = text
        /\ \/ step'[w] = "lookup" /\ text.method = "GET"
           \/ step'[w] = "send" /\ response'[w] = Response(text)
        /\ \A v \in Workers \ {w} : step'[v] = step[v] /\ data'[v] = data[v] /\ response'[v] = response[v]
    BY <1>t, <2>1
  <2> QED BY <1>t, <2>2, <2>3 DEF EntriesAreTrue, ResponseIsTrue
<1>6. ASSUME NEW w \in Workers, Lookup(w) PROVE EntriesAreTrue' /\ ResponseIsTrue'
  <2>1. PICK p \in Words : p = Key(data[w].text) /\ Response(data[w].text) = Page(p)
    BY <1>t, <1>6, ResponseType DEF Lookup, ResponseIsTrue
  <2>2. data[w].text.method = "GET" /\ UNCHANGED data
    BY <1>t, <1>6 DEF Lookup, ResponseIsTrue
  <2>3. CASE entry[p].age = "fresh"
    <3>1. /\ response' = [response EXCEPT ![w] = entry[p].value]
          /\ step' = [step EXCEPT ![w] = "send"] /\ UNCHANGED entry
      BY <1>6, <2>1, <2>3 DEF Lookup
    <3>2. entry[p].value = Page(p)
      BY <1>t, <2>3 DEF EntriesAreTrue
    <3>3. /\ step'[w] = "send" /\ response'[w] = Response(data[w].text)
          /\ \A v \in Workers \ {w} : step'[v] = step[v] /\ response'[v] = response[v]
      BY <1>t, <2>1, <3>1, <3>2
    <3> QED BY <1>t, <2>2, <3>1, <3>3 DEF EntriesAreTrue, ResponseIsTrue
  <2>4. CASE entry[p].age # "fresh"
    <3>1. /\ entry' = [entry EXCEPT ![p] = Absent]
          /\ step' = [step EXCEPT ![w] = "put"] /\ UNCHANGED response
      BY <1>6, <2>1, <2>4 DEF Lookup
    <3>2. \A q \in Words : entry'[q] = entry[q] \/ entry'[q].age = "absent"
      BY <1>t, <3>1 DEF Absent
    <3>3. step'[w] = "put" /\ \A v \in Workers \ {w} : step'[v] = step[v]
      BY <1>t, <3>1
    <3> QED BY <1>t, <2>2, <3>1, <3>2, <3>3 DEF EntriesAreTrue, ResponseIsTrue
  <2> QED BY <2>3, <2>4
<1>7. ASSUME NEW w \in Workers, Put(w) PROVE EntriesAreTrue' /\ ResponseIsTrue'
  <2>1. PICK p \in Words : p = Key(data[w].text) /\ Response(data[w].text) = Page(p)
    BY <1>t, <1>7, ResponseType DEF Put, ResponseIsTrue
  <2>2. /\ response' = [response EXCEPT ![w] = Response(data[w].text)]
        /\ step' = [step EXCEPT ![w] = "send"] /\ UNCHANGED data
        /\ entry' = [entry EXCEPT ![p] = [age |-> "fresh", value |-> response'[w]]]
    BY <1>7, <2>1 DEF Put
  <2>3. /\ step'[w] = "send" /\ response'[w] = Response(data[w].text)
        /\ \A v \in Workers \ {w} : step'[v] = step[v] /\ response'[v] = response[v]
    BY <1>t, <2>2
  <2>4. entry'[p].value = Page(p) /\ \A q \in Words \ {p} : entry'[q] = entry[q]
    BY <1>t, <2>1, <2>2, <2>3
  <2> QED BY <1>t, <2>2, <2>3, <2>4 DEF EntriesAreTrue, ResponseIsTrue
<1>8. ASSUME NEW w \in Workers, SendFirst(w) \/ SendRest(w) PROVE EntriesAreTrue' /\ ResponseIsTrue'
  <2>1. /\ \E to \in {"rest", "close"} : step' = [step EXCEPT ![w] = to]
        /\ step[w] \in {"send", "rest"} /\ UNCHANGED <<data, response, entry>>
    BY <1>8 DEF SendFirst, SendRest, Takes, AfterFirst
  <2> QED BY <1>t, <2>1, TrueQuiet
<1>9. ASSUME NEW w \in Workers, RecvFails(w) \/ SendFails(w) \/ Close(w)
      PROVE  EntriesAreTrue' /\ ResponseIsTrue'
  <2>1. /\ step' = [step EXCEPT ![w] = "idle"] /\ data' = [data EXCEPT ![w] = Nothing]
        /\ response' = [response EXCEPT ![w] = NoAnswer] /\ UNCHANGED entry
    BY <1>9 DEF RecvFails, SendFails, Close, EndJob
  <2>2. /\ step'[w] = "idle"
        /\ \A v \in Workers \ {w} : step'[v] = step[v] /\ data'[v] = data[v] /\ response'[v] = response[v]
    BY <1>t, <2>1
  <2> QED BY <1>t, <2>1, <2>2, TrueQuiet
<1> QED BY <1>1, <1>2, <1>3, <1>4, <1>5, <1>6, <1>7, <1>8, <1>9 DEF Next, LoopStep, WorkerStep

-----------------------------------------------------------------------------
\* What a client has been answered

\* The two halves of AnswerIsOwn for one connection.
Own(c) ==
  answer[c] # NoAnswer => \E n \in 1..sent[c] : answer[c].response = Response(req[c][n])
Served(c) ==
  conn[c] = "over" /\ ~gone[c] /\ Len(req[c]) = 1 => answer[c] # NoAnswer /\ answer[c].extent = "whole"

LEMMA OwnAndServed == AnswerIsOwn <=> \A c \in Conns : Own(c) /\ Served(c)
  BY DEF AnswerIsOwn, Own, Served

\* A connection that nobody answers or closes is not affected.
LEMMA OwnQuiet ==
  ASSUME HttpInv, NEW c \in Conns,
         answer'[c] = answer[c], req'[c] = req[c], sent'[c] >= sent[c], sent'[c] \in Int,
         conn'[c] = "over" /\ ~gone'[c] => conn[c] = "over" /\ ~gone[c]
  PROVE  Own(c)' /\ Served(c)'
<1>1. Own(c) /\ Served(c)
  BY OwnAndServed DEF HttpInv
<1>2. sent[c] \in Int
  <2>1. sent \in [Conns -> Nat]
    BY DEF HttpInv, TypeOK
  <2> QED BY <2>1
<1>3. \A n \in 1..sent[c] : n \in 1..sent'[c]
  BY <1>2
<1> QED BY <1>1, <1>3 DEF Own, Served

\* What a worker sends answers what was sent on the connection it serves.
LEMMA OwnSend ==
  ASSUME HttpInv, NEW w \in Workers, step[w] \in {"send", "rest"}, NEW e \in {"part", "whole"},
         answer' = [answer EXCEPT ![sock[running[w]]] = [response |-> response[w], extent |-> e]],
         UNCHANGED <<req, sent, conn, gone>>
  PROVE  AnswerIsOwn'
<1>1. PICK c \in Conns : c = sock[running[w]]
  BY AtWork
<1>2. conn[c] # "over"
  BY <1>1, ServedOnce
<1>3. data[w].n \in 1..sent[c] /\ data[w].text = req[c][data[w].n]
  BY <1>1 DEF HttpInv, WorkerKnows
<1>4. response[w] = Response(req[c][data[w].n])
  BY <1>3, WhatIsSent
<1>5. answer \in [Conns -> Answers \cup {NoAnswer}] /\ sent \in [Conns -> Nat]
  BY DEF HttpInv, TypeOK
<1>6. Own(c)' /\ Served(c)'
  BY <1>1, <1>2, <1>3, <1>4, <1>5 DEF Own, Served
<1>7. ASSUME NEW d \in Conns \ {c} PROVE Own(d)' /\ Served(d)'
  BY <1>1, <1>5, OwnQuiet
<1> QED BY <1>6, <1>7 DEF AnswerIsOwn, Own, Served

\* The end of a job takes nothing from other connections; its own is answered
\* whole, or its client is gone, or its request came in more than one part.
LEMMA OwnEndJob ==
  ASSUME HttpInv, NEW w \in Workers, step[w] # "idle", EndJob(w),
         LET c == sock[running[w]] IN
         \/ gone[c] /\ UNCHANGED answer
         \/ step[w] = "close" /\ UNCHANGED answer
         \/ step[w] = "close" /\ data[w].n < Len(req[c]) /\ answer' = [answer EXCEPT ![c] = NoAnswer]
  PROVE  AnswerIsOwn'
<1>1. PICK c \in Conns : c = sock[running[w]] /\ c # NoConn
  BY AtWork
<1>2. /\ conn' = [conn EXCEPT ![c] = "over"] /\ UNCHANGED <<req, sent, gone>>
  BY <1>1 DEF EndJob
<1>3. /\ answer \in [Conns -> Answers \cup {NoAnswer}] /\ sent \in [Conns -> Nat]
      /\ conn \in [Conns -> {"away", "backlog", "open", "over", "lost"}]
  BY DEF HttpInv, TypeOK
<1>4. ASSUME NEW d \in Conns \ {c} PROVE Own(d)' /\ Served(d)'
  BY <1>1, <1>2, <1>3, OwnQuiet
<1>5. Own(c)'
  <2>1. Own(c)
    BY OwnAndServed DEF HttpInv
  <2>2. answer'[c] = answer[c] \/ answer'[c] = NoAnswer
    BY <1>1, <1>3
  <2> QED BY <1>2, <2>1, <2>2 DEF Own
<1>6. Served(c)'
  <2> SUFFICES ASSUME ~gone[c], Len(req[c]) = 1
               PROVE  answer'[c] # NoAnswer /\ answer'[c].extent = "whole"
    BY <1>2 DEF Served
  <2>1. step[w] = "close"
    BY <1>1
  <2>2. /\ data[w].n \in 1..sent[c] /\ answer[c] = [response |-> response[w], extent |-> "whole"]
    BY <1>1, <2>1 DEF HttpInv, WorkerKnows
  <2>3. UNCHANGED answer
    <3>1. sent[c] \in Nat
      BY <1>3
    <3>2. ~(data[w].n < Len(req[c]))
      BY <2>2, <3>1
    <3> QED BY <1>1, <2>1, <3>2
  <2>4. answer[c] \in Answers /\ answer[c].extent = "whole"
    <3>1. [response |-> response[w], extent |-> "whole"] \in Answers
      BY <2>1, WhatIsSent
    <3> QED BY <2>2, <3>1
  <2> QED BY <2>3, <2>4
<1> QED BY <1>4, <1>5, <1>6 DEF AnswerIsOwn, Own, Served

LEMMA OwnNext ==
  ASSUME HttpInv, [Next]_vars
  PROVE  AnswerIsOwn'
<1> USE DEF clientVars, loopVars, poolVars, workerVars
<1>t. /\ req \in [Conns -> Seq(Texts)] /\ sent \in [Conns -> Nat] /\ gone \in [Conns -> BOOLEAN]
      /\ answer \in [Conns -> Answers \cup {NoAnswer}]
      /\ conn \in [Conns -> {"away", "backlog", "open", "over", "lost"}]
  BY DEF HttpInv, TypeOK
<1>q. ASSUME \A c \in Conns : /\ answer'[c] = answer[c] /\ req'[c] = req[c]
                              /\ sent'[c] >= sent[c] /\ sent'[c] \in Int
                              /\ conn'[c] = "over" /\ ~gone'[c] => conn[c] = "over" /\ ~gone[c]
      PROVE  AnswerIsOwn'
  <2>1. \A c \in Conns : Own(c)' /\ Served(c)'
    BY <1>q, OwnQuiet
  <2> QED BY <2>1 DEF AnswerIsOwn, Own, Served
<1>1. ASSUME NEW c \in Conns, Connect(c) PROVE AnswerIsOwn'
  <2>1. /\ conn[c] = "away" /\ conn' = [conn EXCEPT ![c] = "backlog"] /\ answer' = answer
        /\ \E r : req' = [req EXCEPT ![c] = r]
        /\ UNCHANGED <<sent, gone>>
    BY <1>1 DEF Connect
  <2>2. answer[c] = NoAnswer
    BY <2>1 DEF HttpInv, OneSocket
  <2>3. Own(c)' /\ Served(c)'
    BY <1>t, <2>1, <2>2 DEF Own, Served
  <2>4. ASSUME NEW d \in Conns \ {c} PROVE Own(d)' /\ Served(d)'
    <3>1. req'[d] = req[d] /\ conn'[d] = conn[d] /\ sent[d] \in Int
      BY <1>t, <2>1
    <3> QED BY <2>1, <3>1, OwnQuiet
  <2> QED BY <2>3, <2>4 DEF AnswerIsOwn, Own, Served
<1>2. ASSUME NEW c \in Conns, SendPart(c) PROVE AnswerIsOwn'
  BY <1>t, <1>q, <1>2 DEF SendPart
<1>3. ASSUME NEW c \in Conns, HangUp(c) PROVE AnswerIsOwn'
  <2>1. gone' = [gone EXCEPT ![c] = TRUE] /\ UNCHANGED <<answer, req, sent, conn>>
    BY <1>3 DEF HangUp
  <2>2. \A d \in Conns : ~gone'[d] => ~gone[d]
    BY <1>t, <2>1
  <2> QED BY <1>t, <1>q, <2>1, <2>2
<1>4. ASSUME (\E p \in Words : Expire(p)) \/ init_socket \/ Select \/ EndScan
             \/ (\E fd \in Fds : Dispatch(fd)) \/ UNCHANGED vars
             \/ (\E w \in Workers : StartJob(w) \/ Recv(w) \/ Lookup(w) \/ Put(w))
      PROVE  AnswerIsOwn'
  <2>1. UNCHANGED clientVars
    BY <1>4 DEF Expire, init_socket, Select, EndScan, Dispatch, StartJob, Recv, Lookup, Put, vars
  <2> QED BY <1>t, <1>q, <2>1
<1>5. ASSUME NEW fd \in Fds, Accept(fd) PROVE AnswerIsOwn'
  <2>1. /\ \E c : \E to \in {"lost", "open"} : conn' = [conn EXCEPT ![c] = to]
        /\ UNCHANGED <<req, sent, gone, answer>>
    BY <1>5 DEF Accept
  <2>2. \A c \in Conns : conn'[c] = "over" => conn[c] = "over"
    BY <1>t, <2>1
  <2> QED BY <1>t, <1>q, <2>1, <2>2
<1>6. ASSUME AcceptFails PROVE AnswerIsOwn'
  <2>1. /\ conn' = [conn EXCEPT ![Head(backlog)] = "over"] /\ gone[Head(backlog)]
        /\ UNCHANGED <<req, sent, gone, answer>>
    BY <1>6 DEF AcceptFails
  <2>2. \A c \in Conns : conn'[c] = "over" /\ ~gone[c] => conn[c] = "over"
    BY <1>t, <2>1
  <2> QED BY <1>t, <1>q, <2>1, <2>2
<1>7. ASSUME NEW w \in Workers, SendFirst(w) PROVE AnswerIsOwn'
  BY <1>7, OwnSend DEF SendFirst, Takes
<1>8. ASSUME NEW w \in Workers, SendRest(w) PROVE AnswerIsOwn'
  BY <1>8, RestIsWhole, OwnSend DEF SendRest
<1>9. ASSUME NEW w \in Workers, RecvFails(w) \/ SendFails(w) \/ Close(w) PROVE AnswerIsOwn'
  <2>1. step[w] # "idle" /\ EndJob(w)
    BY <1>9 DEF RecvFails, SendFails, Close
  <2>2. sock[running[w]] # NoConn
    BY <2>1, AtWork
  <2> QED BY <1>9, <2>1, <2>2, OwnEndJob DEF RecvFails, SendFails, Takes, Close
<1> QED BY <1>1, <1>2, <1>3, <1>4, <1>5, <1>6, <1>7, <1>8, <1>9 DEF Next, LoopStep, WorkerStep

-----------------------------------------------------------------------------
LEMMA HttpAlways == Spec => []HttpInv
<1>1. HttpInv /\ [Next]_vars => HttpInv'
  BY TypeNext, PlaceNext, SocketNext, SentNext, KnowsNext, TrueNext, OwnNext DEF HttpInv
<1> QED BY <1>1, HttpInit, PTL DEF Spec

\* Every variable keeps its type in every behaviour.
THEOREM TypeCorrect == Spec => []TypeOK
<1>1. HttpInv => TypeOK
  BY DEF HttpInv
<1> QED BY <1>1, HttpAlways, PTL

\* handle_client answers a connection with the response to what it received
\* there, although socket numbers are given out again and the response may come
\* from the cache that all workers fill and ask, and with all of it unless the
\* request was cut or its client left.
THEOREM AnswersAreOwn == Spec => []AnswerIsOwn
<1>1. HttpInv => AnswerIsOwn
  BY DEF HttpInv
<1> QED BY <1>1, HttpAlways, PTL

\* A set whose elements are all equal has at most one.
LEMMA AtMostOne ==
  ASSUME NEW S, IsFiniteSet(S), \A x, y \in S : x = y
  PROVE  Cardinality(S) \in {0, 1} /\ (S # {} <=> Cardinality(S) = 1)
<1>1. CASE S = {}
  BY <1>1, FS_EmptySet
<1>2. CASE S # {}
  <2>1. PICK x \in S : S = {x}
    BY <1>2
  <2>2. Cardinality({x}) = 1
    BY FS_Singleton
  <2> QED BY <2>1, <2>2
<1> QED BY <1>1, <1>2

\* The event loop, the pool's queue and the workers hand a socket on without
\* ever sharing it, and let go of it when it is closed.
THEOREM SocketsHaveOneOwner == Spec => []OneOwner
<1>1. HttpInv => OneOwner
  <2> SUFFICES ASSUME HttpInv, NEW fd \in Fds
               PROVE  Places(fd) <= IF sock[fd] = NoConn THEN 0 ELSE 1
    BY DEF HttpInv, OnePlace, OneOwner
  <2> DEFINE Q == {i \in 1..Len(queued) : queued[i] = fd}
             R == {w \in Workers : running[w] = fd}
             M == IF fd \in master THEN 1 ELSE 0
  <2>1. IsFiniteSet(Q) /\ IsFiniteSet(R)
    <3>1. Len(queued) \in Nat
      BY DEF HttpInv, TypeOK
    <3>2. IsFiniteSet(1..Len(queued))
      BY <3>1, FS_Interval
    <3> QED BY <3>2, WorkersAssumption, FS_Subset
  <2>2. /\ \A i, j \in Q : i = j
        /\ \A v, w \in R : v = w
    BY DEF HttpInv, OnePlace, Once
  <2>3. /\ Q # {} => fd \notin master /\ sock[fd] # NoConn
        /\ R # {} => fd \notin master /\ Q = {} /\ sock[fd] # NoConn
        /\ fd \in master => sock[fd] # NoConn
    BY DEF HttpInv, OnePlace, In
  <2>4. /\ Cardinality(Q) \in {0, 1} /\ (Q # {} <=> Cardinality(Q) = 1)
        /\ Cardinality(R) \in {0, 1} /\ (R # {} <=> Cardinality(R) = 1)
    BY <2>1, <2>2, AtMostOne
  <2>5. Places(fd) = M + Cardinality(Q) + Cardinality(R)
    BY DEF Places
  <2> HIDE DEF Q, R
  <2>6. M + Cardinality(Q) + Cardinality(R) <= IF sock[fd] = NoConn THEN 0 ELSE 1
    BY <2>3, <2>4
  <2> QED BY <2>5, <2>6
<1> QED BY <1>1, HttpAlways, PTL
=============================================================================
