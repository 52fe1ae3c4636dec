----------------------------- MODULE HttpServer -----------------------------
(***************************************************************************)
(* HTTP-server-cpp: the select loop of Server, the jobs it gives to its     *)
(* pool of workers, the parser and the response cache.  The pool is a       *)
(* TaskPool (ThreadPool implements one); a job is the number of a socket.    *)
(***************************************************************************)
EXTENDS Integers, Sequences, FiniteSets

CONSTANTS Conns,     \* the connections clients will make
          Words, NoWord,  \* the paths and the JSON texts of requests; an empty one
          Asks,      \* Asks[c]: the requests that may be sent on c
          Fds,       \* the numbers the system gives to sockets; there are enough
          ListenFd,  \* the listening socket
          SetSizes,  \* FD_SETSIZE, how many sockets an fd_set holds, is one of these
          Workers, NoConn, NoAnswer

\* What the parser finds in a text that was received.  A request is sent in
\* parts, and is the sequence of what is found in its first part, in its first
\* two parts, and so on: a text that ends inside its method has none that is
\* known, one that ends before its path has an empty path, one that ends after
\* it has all of it.  body is NoWord where there is no blank line with JSON of
\* pairs behind it.
Texts == [method: {"GET", "POST", "other"}, path: Words, body: Words]
Responses == [code: {200, 400, 501}, says: Words]
Answers == [response: Responses, extent: {"part", "whole"}]

ASSUME AsksAssumption == NoWord \in Words /\ Asks \in [Conns -> SUBSET Seq(Texts)]
ASSUME FdsAssumption == Fds \subseteq Nat \ {0, ListenFd} /\ ListenFd \in Nat \ {0}
ASSUME SetSizesAssumption == SetSizes \subseteq Nat \ {0}
ASSUME WorkersAssumption == IsFiniteSet(Workers)
ASSUME NoneAssumption == NoConn \notin Conns /\ NoAnswer \notin Responses \cup Answers

VARIABLES
  conn,      \* conn[c]: "away", in the "backlog", "open", "over", or "lost"
  req,       \* req[c]: the request of the client of c
  sent,      \* sent[c]: how many parts of it are sent
  gone,      \* gone[c]: the client has closed its end
  answer,    \* answer[c]: the response the client got, or the first part of it
  backlog,   \* connections to accept
  sock,      \* sock[fd]: the connection a socket number stands for
  SetSize, master, pending, max_fd,  \* master_set, what is left of read_set, max_fd
  loop,      \* where the event loop is
  queued, running, closed,  \* the pool
  step, data, response,  \* a worker's place, text received, response made of it
  entry      \* entry[p]: what is cached for the path p, and its age

clientVars == <<conn, req, sent, gone, answer>>
loopVars == <<SetSize, master, pending, max_fd, loop>>
poolVars == <<queued, running, closed>>
workerVars == <<step, data, response>>
vars == <<clientVars, backlog, sock, loopVars, poolVars, workerVars, entry>>

Pool == INSTANCE TaskPool WITH Jobs <- Fds, NoJob <- 0

NoText == [method |-> "other", path |-> NoWord, body |-> NoWord]
Nothing == [text |-> NoText, n |-> 0]
Absent == [age |-> "absent", value |-> NoAnswer]

Init ==
  /\ conn = [c \in Conns |-> "away"]
  /\ req = [c \in Conns |-> <<>>]
  /\ sent = [c \in Conns |-> 0]
  /\ gone = [c \in Conns |-> FALSE]
  /\ answer = [c \in Conns |-> NoAnswer]
  /\ backlog = <<>>
  /\ sock = [fd \in Fds |-> NoConn]
  /\ SetSize \in SetSizes
  /\ master = {ListenFd} /\ pending = {} /\ max_fd = ListenFd /\ loop = "init"
  /\ Pool!Init
  /\ step = [w \in Workers |-> "idle"] /\ data = [w \in Workers |-> Nothing]
  /\ response = [w \in Workers |-> NoAnswer]
  /\ entry = [p \in Words |-> Absent]

-----------------------------------------------------------------------------
\* Clients and the clock

Connect(c) ==
  /\ conn[c] = "away" /\ loop \notin {"init", "dead"}
  /\ conn' = [conn EXCEPT ![c] = "backlog"]
  /\ \E r \in Asks[c] : req' = [req EXCEPT ![c] = r]
  /\ backlog' = Append(backlog, c)
  /\ UNCHANGED <<sent, gone, answer, sock, loopVars, poolVars, workerVars, entry>>

SendPart(c) ==
  /\ conn[c] \in {"backlog", "open"} /\ ~gone[c] /\ sent[c] < Len(req[c])
  /\ sent' = [sent EXCEPT ![c] = @ + 1]
  /\ UNCHANGED <<conn, req, gone, answer, backlog, sock, loopVars, poolVars, workerVars, entry>>

HangUp(c) ==
  /\ conn[c] \in {"backlog", "open"} /\ ~gone[c]
  /\ gone' = [gone EXCEPT ![c] = TRUE]
  /\ UNCHANGED <<conn, req, sent, answer, backlog, sock, loopVars, poolVars, workerVars, entry>>

\* The 60 seconds of a cached response are over.
Expire(p) ==
  /\ entry[p].age = "fresh"
  /\ entry' = [entry EXCEPT ![p].age = "stale"]
  /\ UNCHANGED <<clientVars, backlog, sock, loopVars, poolVars, workerVars>>

-----------------------------------------------------------------------------
\* init_socket and event_loop

\* main does not catch what init_socket throws.
init_socket ==
  /\ loop = "init"
  /\ loop' \in {"select", "dead"}
  /\ UNCHANGED <<clientVars, backlog, sock, SetSize, master, pending, max_fd, poolVars, workerVars, entry>>

\* FD_SET of Winsock does nothing when the set is full.  The operators whose
\* names end in Bug are mistakes the code could have made in the definition
\* that follows them; no specification uses them.
FdSet(m, fd) == IF Cardinality(m) < SetSize THEN m \cup {fd} ELSE m
NoClearBug(m, fd) == m
FdClr(m, fd) == m \ {fd}
FixedMaxBug(m, fd) == m
NewMax(m, fd) == IF fd > m THEN fd ELSE m
UncheckedAcceptBug(m) == m \cup {-1}
AcceptRefused(m) == m

Readable(fd) == IF fd = ListenFd THEN backlog # <<>>
                ELSE sock[fd] # NoConn /\ (sent[sock[fd]] > 0 \/ gone[sock[fd]])

\* select fails, and the loop tries again for ever, once master has a socket
\* that is closed.
Select ==
  /\ loop = "select"
  /\ \A fd \in master \ {ListenFd} : sock[fd] # NoConn
  /\ \E fd \in master : Readable(fd)
  /\ pending' = {fd \in master : Readable(fd)}
  /\ loop' = "scan"
  /\ UNCHANGED <<clientVars, backlog, sock, SetSize, master, max_fd, poolVars, workerVars, entry>>

\* The scan goes up through the numbers to max_fd.
Scanned(fd) == loop = "scan" /\ fd \in pending /\ fd <= max_fd /\ \A g \in pending : fd <= g

\* A socket that does not fit into master is lost: neither watched nor closed.
Accept(fd) ==
  /\ Scanned(ListenFd)
  /\ sock[fd] = NoConn
  /\ LET c == Head(backlog) IN
       /\ sock' = [sock EXCEPT ![fd] = c]
       /\ conn' = [conn EXCEPT ![c] = IF FdSet(master, fd) = master THEN "lost" ELSE "open"]
  /\ backlog' = Tail(backlog)
  /\ master' = FdSet(master, fd)
  /\ max_fd' = NewMax(max_fd, fd)
  /\ pending' = pending \ {ListenFd}
  /\ UNCHANGED <<req, sent, gone, answer, loop, SetSize, poolVars, workerVars, entry>>

\* The client has reset the connection since select saw it.
AcceptFails ==
  /\ Scanned(ListenFd)
  /\ gone[Head(backlog)]
  /\ conn' = [conn EXCEPT ![Head(backlog)] = "over"]
  /\ backlog' = Tail(backlog)
  /\ master' = AcceptRefused(master)
  /\ pending' = pending \ {ListenFd}
  /\ UNCHANGED <<req, sent, gone, answer, sock, SetSize, max_fd, loop, poolVars, workerVars, entry>>

Dispatch(fd) ==
  /\ Scanned(fd)
  /\ master' = FdClr(master, fd)
  /\ pending' = pending \ {fd}
  /\ Pool!Submit(fd)
  /\ UNCHANGED <<clientVars, backlog, sock, SetSize, max_fd, loop, workerVars, entry>>

\* After the scan, Cache::cleanup.
EndScan ==
  /\ loop = "scan" /\ \A fd \in pending : fd > max_fd
  /\ pending' = {} /\ loop' = "select"
  /\ entry' = [p \in Words |-> IF entry[p].age = "stale" THEN Absent ELSE entry[p]]
  /\ UNCHANGED <<clientVars, backlog, sock, SetSize, master, max_fd, poolVars, workerVars>>

-----------------------------------------------------------------------------
\* handle_client, in a worker, and HttpParser::handle_request

\* The number of the socket is closed, and free to be given out again, before
\* the job is over.
ClosedSock(fd) == [sock EXCEPT ![fd] = NoConn]
CloseEarlyBug(fd) == ClosedSock(fd)
SockAfterRecv(fd) == sock

\* The response made of a text.  What the words around a path or the pairs of a
\* JSON text are is left out.
Response(text) ==
  CASE text.method = "GET" -> [code |-> 200, says |-> text.path]
    [] text.method = "POST" -> [code |-> IF text.body # NoWord THEN 200 ELSE 400, says |-> text.body]
    [] text.method = "other" -> [code |-> 501, says |-> NoWord]

\* What a response is cached under.
OneKeyBug(text) == NoWord
Key(text) == text.path

StartJob(w) ==
  /\ Pool!Start(w)
  /\ step' = [step EXCEPT ![w] = "recv"]
  /\ UNCHANGED <<clientVars, backlog, sock, loopVars, data, response, entry>>

\* The one recv takes what has arrived of what was sent, and 4096 bytes of it at
\* most.  Of a GET the cache is asked.
Recv(w) ==
  LET c == sock[running[w]] IN
  /\ step[w] = "recv" /\ c # NoConn
  /\ \E n \in 1..sent[c] :
       /\ data' = [data EXCEPT ![w] = [text |-> req[c][n], n |-> n]]
       /\ \/ /\ req[c][n].method = "GET"
             /\ step' = [step EXCEPT ![w] = "lookup"]
             /\ UNCHANGED response
          \/ /\ req[c][n].method # "GET"
             /\ step' = [step EXCEPT ![w] = "send"]
             /\ response' = [response EXCEPT ![w] = Response(req[c][n])]
  /\ sock' = SockAfterRecv(running[w])
  /\ UNCHANGED <<clientVars, backlog, loopVars, poolVars, entry>>

\* Cache::get: the cached response, or none, and an old one is erased.
Lookup(w) ==
  LET p == Key(data[w].text) IN
  /\ step[w] = "lookup"
  /\ \/ /\ entry[p].age = "fresh"
        /\ response' = [response EXCEPT ![w] = entry[p].value]
        /\ step' = [step EXCEPT ![w] = "send"]
        /\ UNCHANGED entry
     \/ /\ entry[p].age # "fresh"
        /\ entry' = [entry EXCEPT ![p] = Absent]
        /\ step' = [step EXCEPT ![w] = "put"]
        /\ UNCHANGED response
  /\ UNCHANGED <<clientVars, backlog, sock, loopVars, poolVars, data>>

\* The response is made, and Cache::put takes a copy of it.
Put(w) ==
  /\ step[w] = "put"
  /\ response' = [response EXCEPT ![w] = Response(data[w].text)]
  /\ entry' = [entry EXCEPT ![Key(data[w].text)] = [age |-> "fresh", value |-> response'[w]]]
  /\ step' = [step EXCEPT ![w] = "send"]
  /\ UNCHANGED <<clientVars, backlog, sock, loopVars, poolVars, data>>

\* closesocket, and the job is over.
EndJob(w) ==
  LET fd == running[w] IN
  /\ sock' = ClosedSock(fd)
  /\ conn' = IF sock[fd] = NoConn THEN conn ELSE [conn EXCEPT ![sock[fd]] = "over"]
  /\ step' = [step EXCEPT ![w] = "idle"]
  /\ data' = [data EXCEPT ![w] = Nothing]
  /\ response' = [response EXCEPT ![w] = NoAnswer]
  /\ Pool!Finish(w)
  /\ UNCHANGED <<req, sent, gone, backlog, loopVars, entry>>

\* received <= 0: the client hung up, with or without something left unread.
RecvFails(w) ==
  /\ step[w] = "recv"
  /\ sock[running[w]] = NoConn \/ gone[sock[running[w]]]
  /\ EndJob(w)
  /\ UNCHANGED answer

\* send may take a first part only, and the loop goes on with the rest.
OneSendBug == "close"
AfterFirst == "rest"
Takes(w, from) == step[w] = from /\ sock[running[w]] # NoConn /\ ~gone[sock[running[w]]]

SendFirst(w) ==
  /\ Takes(w, "send")
  /\ answer' = [answer EXCEPT ![sock[running[w]]] = [response |-> response[w], extent |-> "part"]]
  /\ step' = [step EXCEPT ![w] = AfterFirst]
  /\ UNCHANGED <<conn, req, sent, gone, backlog, sock, loopVars, poolVars, data, response, entry>>

SendRest(w) ==
  /\ Takes(w, "rest")
  /\ answer' = [answer EXCEPT ![sock[running[w]]].extent = "whole"]
  /\ step' = [step EXCEPT ![w] = "close"]
  /\ UNCHANGED <<conn, req, sent, gone, backlog, sock, loopVars, poolVars, data, response, entry>>

\* The loop breaks once the client is gone.
SendFails(w) == step[w] \in {"send", "rest"} /\ ~Takes(w, step[w]) /\ EndJob(w) /\ UNCHANGED answer

\* A socket closed before all of the request was received is reset, and the
\* client may lose what it has not read yet.
Close(w) ==
  LET c == sock[running[w]] IN
  /\ step[w] = "close"
  /\ \/ UNCHANGED answer
     \/ data[w].n < Len(req[c]) /\ answer' = [answer EXCEPT ![c] = NoAnswer]
  /\ EndJob(w)

-----------------------------------------------------------------------------
LoopStep == init_socket \/ Select \/ AcceptFails \/ EndScan \/ \E fd \in Fds : Accept(fd) \/ Dispatch(fd)
WorkerStep(w) == \/ StartJob(w) \/ Recv(w) \/ RecvFails(w) \/ Lookup(w) \/ Put(w)
                 \/ SendFirst(w) \/ SendRest(w) \/ SendFails(w) \/ Close(w)
Next == \/ \E c \in Conns : Connect(c) \/ SendPart(c) \/ HangUp(c)
        \/ \E p \in Words : Expire(p)
        \/ LoopStep \/ \E w \in Workers : WorkerStep(w)

\* The event loop and the workers are threads that are scheduled.  Nothing
\* makes a client connect, send or hang up.
Fairness == WF_vars(LoopStep) /\ \A w \in Workers : WF_vars(WorkerStep(w))

Spec == Init /\ [][Next]_vars
FairSpec == Spec /\ Fairness

-----------------------------------------------------------------------------
\* Properties

\* Type correctness of the kernel's, the loop's and the workers' state.
TypeOK ==
  /\ conn \in [Conns -> {"away", "backlog", "open", "over", "lost"}]
  /\ req \in [Conns -> Seq(Texts)] /\ sent \in [Conns -> Nat] /\ gone \in [Conns -> BOOLEAN]
  /\ \A c \in Conns : sent[c] <= Len(req[c])
  /\ answer \in [Conns -> Answers \cup {NoAnswer}]
  /\ backlog \in Seq(Conns)
  /\ sock \in [Fds -> Conns \cup {NoConn}]
  /\ master \subseteq Fds \cup {ListenFd} /\ pending \subseteq Fds \cup {ListenFd}
  /\ max_fd \in Nat /\ loop \in {"init", "dead", "select", "scan"} /\ SetSize \in SetSizes
  /\ queued \in Seq(Fds) /\ running \in [Workers -> Fds \cup {0}] /\ closed \in BOOLEAN
  /\ step \in [Workers -> {"idle", "recv", "lookup", "put", "send", "rest", "close"}]
  /\ data \in [Workers -> [text: Texts, n: Nat]]
  /\ response \in [Workers -> Responses \cup {NoAnswer}]
  /\ entry \in [Words -> [age: {"absent", "fresh", "stale"}, value: Responses \cup {NoAnswer}]]

\* A socket is watched by select, waits in the pool's queue or is in the hands
\* of one worker, never two of these and never after it was closed, although
\* numbers are used again while the scan of an old read_set goes on.
Places(fd) == (IF fd \in master THEN 1 ELSE 0)
              + Cardinality({i \in 1..Len(queued) : queued[i] = fd})
              + Cardinality({w \in Workers : running[w] = fd})
OneOwner ==
  /\ \A fd \in Fds : Places(fd) <= IF sock[fd] = NoConn THEN 0 ELSE 1
  /\ pending \ {ListenFd} \subseteq master

\* The response that comes back on a connection is the one to what was sent on
\* it, as far as it was received: not to what was sent on one that had its
\* socket number before, nor to another path that the cache was asked for.  And
\* a client whose request came in one part, and that stays, has all of it at the
\* close.
AnswerIsOwn ==
  \A c \in Conns :
    /\ answer[c] # NoAnswer => \E n \in 1..sent[c] : answer[c].response = Response(req[c][n])
    /\ conn[c] = "over" /\ ~gone[c] /\ Len(req[c]) = 1 => answer[c] # NoAnswer /\ answer[c].extent = "whole"

\* A connection on which something arrived, or whose client left, is over in
\* the end: its client has its answer and its socket is closed.  The exception
\* are those accepted while master_set was full, and none is where the set has
\* room for all of them and the listening socket.
EveryConnectionEnds ==
  \A c \in Conns : sent[c] > 0 \/ gone[c] ~>
    conn[c] = "over" \/ (conn[c] = "lost" /\ SetSize <= Cardinality(Conns))
=============================================================================
