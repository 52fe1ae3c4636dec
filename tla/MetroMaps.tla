------------------------------ MODULE MetroMaps ------------------------------
(***************************************************************************)
(* metro-maps-cpp/src/main.cpp: the Boost.Beast server.                     *)
(*                                                                          *)
(* Several threads run one io_context.  A Server keeps a chain of accepts   *)
(* and each Connection a chain of one read and one write; a link of a chain *)
(* is an operation in progress, a handler that waits for a thread, or a     *)
(* handler that a thread runs.  A Connection lives as long as one of its    *)
(* links, for the handlers hold the only shared pointers to it.             *)
(***************************************************************************)
EXTENDS Integers, FiniteSets

CONSTANTS Clients,
          NoClient,
          Asks,        \* Asks[c]: the requests that client c may send
          CoreCounts,  \* what hardware_concurrency() may return
          MaxErrors    \* bound: accepts that fail

ASSUME NoClientAssumption == NoClient \notin Clients
ASSUME CoresAssumption == CoreCounts \subseteq Nat
ASSUME MaxErrorsAssumption == MaxErrors \in Nat

\* "none" is nothing sent yet, "broken" what async_read cannot parse.
Requests == {"none", "broken", "post", "/main", "/maps", "/maps/mstusfl", "/other"}
Sound == Requests \ {"none", "broken"}

ASSUME AsksAssumption == Asks \in [Clients -> SUBSET (Requests \ {"none"})]

VARIABLES
  main,      \* where main() is
  thread,    \* thread[i]: the link that thread i of the io_context runs
  pending,   \* asynchronous operations in progress
  ready,     \* completed operations whose handler has not begun
  stopped,   \* io.stop() was called
  response,  \* response[c]: the member of the Connection of c
  client,    \* client[c]: what c is doing
  accepted,  \* clients whose socket was taken from the backlog
  request,   \* request[c]: what c has sent
  got,       \* got[c]: the answer c has received
  signalled, \* SIGINT or SIGTERM has come
  errors     \* accepts that have failed

serverVars == <<main, thread, pending, ready, stopped, response>>
clientVars == <<client, request, got>>
systemVars == <<accepted, signalled, errors>>
vars == <<serverVars, clientVars, systemVars>>

\* A link of a chain; ok is what the error_code of its handler says.
Link(kind, c, ok) == [kind |-> kind, c |-> c, ok |-> ok]
Idle == Link("idle", NoClient, TRUE)
Ended == Link("ended", NoClient, TRUE)
Links == [kind : {"accept", "rearm", "read", "write", "signal"},
          c : Clients \cup {NoClient}, ok : BOOLEAN]

\* The answer to each: the status, and the page for the three targets there are.
handle_get(r) == IF r = "/other" THEN <<404, "not found">> ELSE <<200, r>>
handle_req(r) == IF r = "post" THEN <<400, "invalid method">> ELSE handle_get(r)

\* Half of the cores run the io_context.
ThreadIds == UNION {1 .. n \div 2 : n \in CoreCounts}

Init ==
  /\ main = "start"
  /\ \E n \in CoreCounts : thread = [i \in 1 .. n \div 2 |-> Idle]
  /\ pending = {} /\ ready = {} /\ stopped = FALSE
  /\ response = [c \in Clients |-> <<>>]
  /\ client = [c \in Clients |-> "away"]
  /\ request = [c \in Clients |-> "none"]
  /\ got = [c \in Clients |-> <<>>]
  /\ accepted = {} /\ signalled = FALSE /\ errors = 0

-----------------------------------------------------------------------------
\* The operators whose names end in Bug are variants of the definition that
\* follows them, each with a mistake the code could have made; no specification
\* uses them.

\* main() up to the start of the threads.  A port in use is an exception, and
\* main fails; otherwise the constructor of Server has begun the first accept.
Start ==
  /\ main = "start"
  /\ \/ main' = "failed" /\ UNCHANGED pending
     \/ main' = "join" /\ pending' = {Link("accept", NoClient, TRUE)}
  /\ UNCHANGED <<thread, ready, stopped, response, clientVars, systemVars>>

DetachBug == main = "join"
\* Every join returns, and the destructors drop what is left of the chains.
Joined == main = "join" /\ \A i \in DOMAIN thread : thread[i] = Ended

Return ==
  /\ Joined
  /\ main' = "returned"
  /\ pending' = {} /\ ready' = {}
  /\ UNCHANGED <<thread, stopped, response, clientVars, systemVars>>

\* Clients, which nothing hurries: one may connect and stay silent for ever.
Connect(c) ==
  /\ main = "join" /\ client[c] = "away"
  /\ client' = [client EXCEPT ![c] = "connected"]
  /\ UNCHANGED <<serverVars, systemVars, request, got>>

Send(c, r) ==
  /\ client[c] = "connected" /\ request[c] = "none"
  /\ request' = [request EXCEPT ![c] = r]
  /\ UNCHANGED <<serverVars, systemVars, client, got>>

Leave(c) ==
  /\ client[c] = "connected"
  /\ client' = [client EXCEPT ![c] = "left"]
  /\ UNCHANGED <<serverVars, systemVars, request, got>>

-----------------------------------------------------------------------------
\* The io_context completes operations while it has threads that run it.
Complete(op, handler) ==
  /\ main = "join" /\ ~stopped /\ op \in pending
  /\ pending' = pending \ {op}
  /\ ready' = ready \cup {handler}
  /\ UNCHANGED <<main, thread, stopped, response, client, request>>

Accepted(c) ==
  /\ client[c] # "away" /\ c \notin accepted
  /\ Complete(Link("accept", NoClient, TRUE), Link("accept", c, TRUE))
  /\ accepted' = accepted \cup {c}
  /\ UNCHANGED <<got, signalled, errors>>

AcceptFails ==
  /\ errors < MaxErrors
  /\ Complete(Link("accept", NoClient, TRUE), Link("accept", NoClient, FALSE))
  /\ errors' = errors + 1
  /\ UNCHANGED <<got, accepted, signalled>>

\* A request that came whole may still be read when its client has left.
ReadDone(c) ==
  /\ client[c] = "left" \/ request[c] # "none"
  /\ \E ok \in BOOLEAN :
       /\ IF request[c] \in Sound THEN ok \/ client[c] = "left" ELSE ~ok
       /\ Complete(Link("read", c, TRUE), Link("read", c, ok))
  /\ UNCHANGED <<got, systemVars>>

\* async_write sends what the response is now, not what it was at the call.
SharedResponseBug(c) == CHOOSE x \in Clients : TRUE
responseOf(c) == c

WriteDone(c) ==
  /\ Complete(Link("write", c, TRUE), Link("write", c, client[c] # "left"))
  /\ got' = IF client[c] = "left" THEN got ELSE [got EXCEPT ![c] = response[responseOf(c)]]
  /\ UNCHANGED systemVars

\* The handler of the signals waits for a thread like any other; async_wait is
\* not called again, so that a second signal does nothing.
Signal ==
  /\ main = "join" /\ ~signalled
  /\ signalled' = TRUE
  /\ ready' = ready \cup {Link("signal", NoClient, TRUE)}
  /\ UNCHANGED <<main, thread, pending, stopped, response, clientVars, accepted, errors>>

-----------------------------------------------------------------------------
\* io.run() in thread i

run(i) ==
  /\ main = "join" /\ thread[i] = Idle /\ ~stopped
  /\ \E h \in ready : ready' = ready \ {h} /\ thread' = [thread EXCEPT ![i] = h]
  /\ UNCHANGED <<main, pending, stopped, response, clientVars, systemVars>>

RunReturns(i) ==
  /\ main = "join" /\ thread[i] = Idle /\ stopped
  /\ thread' = [thread EXCEPT ![i] = Ended]
  /\ UNCHANGED <<main, pending, ready, stopped, response, clientVars, systemVars>>

\* A handler begins operations and either is over or goes on to another link.
Handler(i, kind, begun, next) ==
  /\ thread[i].kind = kind
  /\ thread' = [thread EXCEPT ![i] = next]
  /\ pending' = pending \cup begun
  /\ UNCHANGED <<main, ready, clientVars, systemVars>>

\* The new Connection may be served by another thread before the next accept.
read_req(c) == {Link("read", c, TRUE)}
OnlyGoodBug(h) == IF h.ok THEN Link("rearm", NoClient, TRUE) ELSE Idle
AfterAccept(h) == Link("rearm", NoClient, TRUE)

OnAccept(i) ==
  LET h == thread[i] IN
  /\ Handler(i, "accept", IF h.ok THEN read_req(h.c) ELSE {}, AfterAccept(h))
  /\ UNCHANGED <<stopped, response>>

accept_conn(i) ==
  /\ Handler(i, "rearm", {Link("accept", NoClient, TRUE)}, Idle)
  /\ UNCHANGED <<stopped, response>>

\* The next request is not read before the answer is out, nor after it.
ReadAgainBug(c) == {Link("write", c, TRUE), Link("read", c, TRUE)}
write_response(c) == {Link("write", c, TRUE)}

IgnoreErrorBug(h) == TRUE
\* if (!ec): what could not be read whole is not answered, and the Connection goes.
Readable(h) == h.ok

OnRead(i) ==
  LET h == thread[i] IN
  /\ Handler(i, "read", IF Readable(h) THEN write_response(h.c) ELSE {}, Idle)
  /\ response' = IF Readable(h) THEN [response EXCEPT ![responseOf(h.c)] = handle_req(request[h.c])]
                 ELSE response
  /\ UNCHANGED stopped

\* The socket is shut down, and with the last pointer the Connection goes.
OnWrite(i) == Handler(i, "write", {}, Idle) /\ UNCHANGED <<stopped, response>>

OnSignal(i) == Handler(i, "signal", {}, Idle) /\ stopped' = TRUE /\ UNCHANGED response

-----------------------------------------------------------------------------
ClientStep(c) == Connect(c) \/ Leave(c) \/ \E r \in Asks[c] : Send(c, r)
Completion(c) == Accepted(c) \/ ReadDone(c) \/ WriteDone(c)
ThreadStep(i) == /\ i \in DOMAIN thread
                 /\ \/ run(i) \/ RunReturns(i) \/ OnAccept(i) \/ accept_conn(i)
                    \/ OnRead(i) \/ OnWrite(i) \/ OnSignal(i)

Next == \/ Start \/ Return \/ AcceptFails \/ Signal
        \/ \E c \in Clients : ClientStep(c) \/ Completion(c)
        \/ \E i \in ThreadIds : ThreadStep(i)

\* Threads run, and the system completes what can be completed.  Clients and
\* signals come as they like, or not.
Fairness == /\ WF_vars(Start) /\ WF_vars(Return)
            /\ \A c \in Clients : WF_vars(Accepted(c)) /\ WF_vars(ReadDone(c)) /\ WF_vars(WriteDone(c))
            /\ \A i \in ThreadIds : WF_vars(ThreadStep(i))

Spec == Init /\ [][Next]_vars
FairSpec == Spec /\ Fairness

-----------------------------------------------------------------------------
\* Properties

\* Type correctness of the server, the io_context and the clients.
TypeOK ==
  /\ main \in {"start", "join", "returned", "failed"}
  /\ \E n \in CoreCounts : thread \in [1 .. n \div 2 -> Links \cup {Idle, Ended}]
  /\ pending \subseteq Links /\ ready \subseteq Links
  /\ stopped \in BOOLEAN /\ signalled \in BOOLEAN
  /\ response \in [Clients -> {<<>>} \cup {handle_req(r) : r \in Sound}]
  /\ got \in [Clients -> {<<>>} \cup {handle_req(r) : r \in Sound}]
  /\ client \in [Clients -> {"away", "connected", "left"}]
  /\ request \in [Clients -> Requests]
  /\ accepted \subseteq Clients /\ errors \in 0 .. MaxErrors

\* No strand and no mutex guards a Connection or the acceptor; what keeps the
\* threads apart is that a chain has one link at a time, in progress, waiting
\* or run by a thread.  The chain of accepts never ends before the signal: an
\* accept that fails and a connection that fails are followed by another accept.
LinksOf(kinds, c) ==
  Cardinality({x \in pending : x.kind \in kinds /\ x.c \in c})
  + Cardinality({x \in ready : x.kind \in kinds /\ x.c \in c})
  + Cardinality({i \in DOMAIN thread : thread[i].kind \in kinds /\ thread[i].c \in c})
OneLinkPerChain ==
  /\ main = "join" => LinksOf({"accept", "rearm"}, Clients \cup {NoClient}) = 1
  /\ \A c \in Clients : LinksOf({"read", "write"}, {c}) <= 1

\* Whatever other threads do between the handler that makes an answer and the
\* moment the system sends it, a client gets the answer to its own request.
AnswerIsOwn == \A c \in Clients : got[c] # <<>> => got[c] = handle_req(request[c])

\* A request that is sent whole is answered, however many other clients stay
\* silent, leave, send nonsense or make an accept fail, unless the client goes,
\* the server is being stopped or it has no thread.
EveryRequestAnswered ==
  \A c \in Clients :
    (client[c] = "connected" /\ request[c] \in Sound) ~>
      (got[c] # <<>> \/ client[c] = "left" \/ signalled \/ thread = <<>>)

\* main returns after a signal, whatever connections are open, and not before
\* it, unless half of the cores is no thread at all.
ReturnsWhenAsked ==
  /\ [](main = "returned" => signalled \/ thread = <<>>)
  /\ signalled ~> main = "returned"
=============================================================================
