------------------------------ MODULE Messager ------------------------------
(***************************************************************************)
(* messager-cpp: one io_context run by one thread, whose handlers accept     *)
(* connections, read lines and write each line to everybody but its sender.  *)
(* A line goes out in two segments, because a send on a socket that has      *)
(* room for less takes a part of it and asio writes the rest later.          *)
(***************************************************************************)
EXTENDS Integers, Sequences, FiniteSets

CONSTANTS Clients,
          MaxLines,  \* bound: MaxLines[c], the lines that c sends
          Room       \* the segments that fit into the buffers of one connection

ASSUME MaxLinesAssumption == MaxLines \in [Clients -> Nat]
ASSUME RoomAssumption == Room \in Nat \ {0}

VARIABLES
  running,   \* the io_context is run: no signal has stopped it yet
  status,    \* status[c]: "asks" to be accepted, "open" or "left"
  sent,      \* sent[c]: the lines that c has sent; line i of c is <<c, i>>
  got,       \* got[c]: the segments that c has received
  connects,  \* connects of Server: the connections to write to
  taken,     \* taken[c]: the lines of c that read_request has read
  reading,   \* the clients for whom a read_request is outstanding
  wire,      \* wire[c]: the segments in the buffers of the connection to c
  waiting,   \* waiting[c]: writes to c in the reactor, until there is room
  posted,    \* posted[c]: writes to c that did a part and have to go on
  joined,    \* history: joined[c][d] is taken[d] when c was accepted
  delayed    \* history: the clients for whom a write could not be done at once

clientVars == <<status, sent, got>>
readVars == <<running, connects, taken, reading, joined>>
writeVars == <<wire, waiting, posted, delayed>>
vars == <<clientVars, readVars, writeVars>>

Garbage == <<>>
Lines == UNION {{<<c, i>> : i \in 1..MaxLines[c]} : c \in Clients}
Segments == (Lines \X {1, 2}) \cup {Garbage}
Writes == [line: Lines, next: {1, 2}]

Init ==
  /\ running = TRUE
  /\ status = [c \in Clients |-> "asks"]
  /\ sent = [c \in Clients |-> 0]
  /\ got = [c \in Clients |-> <<>>]
  /\ connects = {} /\ reading = {}
  /\ taken = [c \in Clients |-> 0]
  /\ wire = [c \in Clients |-> <<>>]
  /\ waiting = [c \in Clients |-> <<>>] /\ posted = [c \in Clients |-> <<>>]
  /\ joined = [c \in Clients |-> [d \in Clients |-> 0]]
  /\ delayed = {}

-----------------------------------------------------------------------------
\* Clients.  One that has not called yet is one that the server did not accept yet.

\* main of client.cpp hands a line of its input to send_message, whose async_write
\* gives it to the socket before it returns.  That holds as long as the socket of the
\* client has room, which is assumed here; the server's own writes are below.
SendLine(c) ==
  /\ status[c] \in {"asks", "open"} /\ sent[c] < MaxLines[c]
  /\ sent' = [sent EXCEPT ![c] = @ + 1]
  /\ UNCHANGED <<status, got, readVars, writeVars>>

Receive(c) ==
  /\ status[c] = "open" /\ wire[c] # <<>>
  /\ got' = [got EXCEPT ![c] = Append(@, Head(wire[c]))]
  /\ wire' = [wire EXCEPT ![c] = Tail(@)]
  /\ UNCHANGED <<status, sent, readVars, waiting, posted, delayed>>

\* What is on its way to a client that closes its end is lost, and what the
\* client got is of no more interest.
Leave(c) ==
  /\ status[c] = "open"
  /\ status' = [status EXCEPT ![c] = "left"]
  /\ got' = [got EXCEPT ![c] = <<>>]
  /\ wire' = [wire EXCEPT ![c] = <<>>]
  /\ delayed' = delayed \ {c}
  /\ UNCHANGED <<sent, readVars, waiting, posted>>

-----------------------------------------------------------------------------
\* Connection::write

\* The reactor tries a write when it is asked for, if no other is waiting: what
\* the connection takes of it at once is right.  The operators whose names end
\* in Bug are mistakes the code could have made in the definition that follows
\* them; no specification uses them.
Space(c) == Room - Len(wire[c])
Fits(c, write) == IF Space(c) >= 3 - write.next THEN 3 - write.next ELSE Space(c)
InRoom(c, write) == IF waiting[c] # <<>> THEN 0 ELSE Fits(c, write)

\* The string that broadcast built is gone when a write goes on later.
Stale(line, k) == {<<line, k>>, Garbage}

\* The n segments of a write, from its next one; late ones are read from memory
\* that is no longer its own.
Parts(write, n, late) ==
  {s \in [1..n -> Segments] : \A k \in 1..n :
     s[k] \in IF late THEN Stale(write.line, write.next + k - 1)
              ELSE {<<write.line, write.next + k - 1>>}}

\* What becomes of a write of which n segments went out.
Over(write, n) == write.next + n = 3
FromStartBug(write, n) == write
Rest(write, n) == [write EXCEPT !.next = @ + n]
NowWaiting(c, write, n) == IF n = 0 THEN Append(waiting[c], write) ELSE waiting[c]
OverTooBug(queue, write, n) == IF n = 0 THEN queue ELSE Append(queue, Rest(write, n))
NowPosted(queue, write, n) ==
  IF n = 0 \/ Over(write, n) THEN queue ELSE Append(queue, Rest(write, n))

\* The send fails when the client has left, and the write is over.
Refused(c) == status[c] = "left"

-----------------------------------------------------------------------------
\* Handlers

\* wait_connection: the handler inserts the connection, starts to read from it
\* and waits for the next one.
Accept(c) ==
  /\ status[c] = "asks"
  /\ status' = [status EXCEPT ![c] = "open"]
  /\ connects' = connects \cup {c}
  /\ reading' = reading \cup {c}
  /\ joined' = [joined EXCEPT ![c] = taken]
  /\ UNCHANGED <<running, sent, got, taken, writeVars>>

\* async_accept fails: the client is refused.
AcceptFails(c) ==
  /\ status[c] = "asks"
  /\ status' = [status EXCEPT ![c] = "left"]
  /\ UNCHANGED <<sent, got, readVars, writeVars>>

EchoBug(sender) == connects
Others(sender) == connects \ {sender}

StopReadingBug(c) == reading \ {c}
StillReading(c) == reading

\* read_request: one line, broadcast in the same handler, and the next read.
ReadLine(c) ==
  LET write == [line |-> <<c, taken[c] + 1>>, next |-> 1]
      to == {d \in Others(c) : ~Refused(d)}
      n == [d \in to |-> InRoom(d, write)]
  IN
  /\ c \in reading /\ taken[c] < sent[c]
  /\ taken' = [taken EXCEPT ![c] = @ + 1]
  /\ reading' = StillReading(c)
  /\ wire' = [d \in Clients |-> IF d \in to
                THEN wire[d] \o [k \in 1..n[d] |-> <<write.line, k>>] ELSE wire[d]]
  /\ waiting' = [d \in Clients |-> IF d \in to
                   THEN NowWaiting(d, write, n[d]) ELSE waiting[d]]
  /\ posted' = [d \in Clients |-> IF d \in to
                  THEN NowPosted(posted[d], write, n[d]) ELSE posted[d]]
  /\ delayed' = delayed \cup {d \in to : ~Over(write, n[d])}
  /\ UNCHANGED <<running, clientVars, connects, joined>>

\* The client left: no more reads, but the connection stays in connects.  A
\* reset may lose lines that were not read yet.
ReadEnds(c) ==
  /\ c \in reading /\ status[c] = "left"
  /\ reading' = reading \ {c}
  /\ UNCHANGED <<running, clientVars, connects, taken, joined, writeVars>>

\* The reactor finds room for the first write that waits.
WriteReady(c) ==
  /\ waiting[c] # <<>> /\ status[c] = "open" /\ Space(c) > 0
  /\ LET write == Head(waiting[c])
         n == Fits(c, write)
     IN /\ \E s \in Parts(write, n, TRUE) : wire' = [wire EXCEPT ![c] = @ \o s]
        /\ waiting' = [waiting EXCEPT ![c] = Tail(@)]
        /\ posted' = [posted EXCEPT ![c] = NowPosted(@, write, n)]
  /\ UNCHANGED <<clientVars, readVars, delayed>>

\* async_write goes on with what is left of a write.
Continue(c) ==
  /\ posted[c] # <<>> /\ status[c] = "open"
  /\ LET write == Head(posted[c])
         n == InRoom(c, write)
     IN /\ \E s \in Parts(write, n, TRUE) : wire' = [wire EXCEPT ![c] = @ \o s]
        /\ waiting' = [waiting EXCEPT ![c] = NowWaiting(c, write, n)]
        /\ posted' = [posted EXCEPT ![c] = NowPosted(Tail(@), write, n)]
  /\ UNCHANGED <<clientVars, readVars, delayed>>

\* The writes to a client that left end with an error.
WritesFail(c) ==
  /\ status[c] = "left" /\ waiting[c] \o posted[c] # <<>>
  /\ waiting' = [waiting EXCEPT ![c] = <<>>]
  /\ posted' = [posted EXCEPT ![c] = <<>>]
  /\ UNCHANGED <<clientVars, readVars, wire, delayed>>

\* main: SIGINT or SIGTERM stops the io_context.  What no handler has read or
\* written by then never will be; clients still get what is on its way.
Stop ==
  /\ running /\ running' = FALSE
  /\ UNCHANGED <<clientVars, connects, taken, reading, joined, writeVars>>

ServerStep(c) == \/ Accept(c) \/ AcceptFails(c) \/ ReadLine(c) \/ ReadEnds(c)
                 \/ WriteReady(c) \/ Continue(c) \/ WritesFail(c)
ClientStep(c) == SendLine(c) \/ Receive(c) \/ Leave(c)
Next == Stop \/ \E c \in Clients : ClientStep(c) \/ (running /\ ServerStep(c))

\* io.run() gets to every handler that is ready, and the reader thread of a
\* client (client.cpp) reads as long as it is connected.
Fairness == \A c \in Clients :
  /\ WF_vars(running /\ Accept(c)) /\ WF_vars(running /\ ReadLine(c))
  /\ WF_vars(running /\ WriteReady(c)) /\ WF_vars(running /\ Continue(c))
  /\ WF_vars(Receive(c))

Spec == Init /\ [][Next]_vars
FairSpec == Spec /\ Fairness

-----------------------------------------------------------------------------
\* Properties

\* Type correctness of the clients', the server's and the connections' state.
TypeOK ==
  /\ running \in BOOLEAN
  /\ status \in [Clients -> {"asks", "open", "left"}]
  /\ sent \in [Clients -> Nat] /\ taken \in [Clients -> Nat]
  /\ \A c \in Clients : taken[c] <= sent[c] /\ sent[c] <= MaxLines[c]
  /\ got \in [Clients -> Seq(Segments)] /\ wire \in [Clients -> Seq(Segments)]
  /\ \A c \in Clients : Len(wire[c]) <= Room
  /\ connects \subseteq Clients /\ reading \subseteq connects
  /\ waiting \in [Clients -> Seq(Writes)] /\ posted \in [Clients -> Seq(Writes)]
  /\ joined \in [Clients -> [Clients -> Nat]] /\ delayed \subseteq Clients

Stream(c) == got[c] \o wire[c]

\* The lines of others that the server read since it accepted client c.
Due(c) == {line \in Lines : /\ line[1] # c
                            /\ line[2] \in joined[c][line[1]] + 1 .. taken[line[1]]}

\* Stream s consists of the lines of due, whole, each once and those of one
\* sender in their order: the lines begin at the odd places.
Begins(s) == {k \in 1..Len(s) : k % 2 = 1}
WholeAt(s, k, line) == k < Len(s) /\ s[k] = <<line, 1>> /\ s[k + 1] = <<line, 2>>
Whole(s, due) ==
  /\ \A k \in Begins(s) : \E line \in due : WholeAt(s, k, line)
  /\ \A line \in due : \E k \in Begins(s) : WholeAt(s, k, line)
  /\ \A k, l \in Begins(s) : \A line, later \in due :
       k < l /\ WholeAt(s, k, line) /\ WholeAt(s, l, later) /\ line[1] = later[1]
       => line[2] < later[2]

\* A client whose connection always had room gets whole lines: those that the
\* server read since it accepted the client, each sender's in the order they
\* were sent, none twice and none of its own.
WholeLinesTo(c) == Whole(Stream(c), Due(c))
LinesArriveWhole == \A c \in Clients \ delayed : status[c] = "open" => WholeLinesTo(c)

\* However slow a client is, as many segments are written to it, or still to be
\* written, as the lines it is owed have: none is dropped or written twice when
\* a write is cut, waits in the reactor and goes on.
Left(q) == 2 * Len(q) - Cardinality({i \in DOMAIN q : q[i].next = 2})
Owed(c) == 2 * Cardinality(Due(c))
NoSegmentLost ==
  \A c \in Clients : status[c] = "open" =>
    Len(Stream(c)) + Left(waiting[c]) + Left(posted[c]) = Owed(c)

\* The messager is meant to be a room with one conversation: what it has
\* written to a client is what the client has heard or is sure to hear.
Chat == INSTANCE ChatRoom WITH
          said <- sent, relayed <- taken, speakers <- reading, behind <- delayed,
          heard <- [c \in Clients |-> IF c \in delayed THEN <<>> ELSE Stream(c)]

\* Every step of the server is one of the room: the several writes that make a
\* broadcast are one relay to everybody who keeps up, whoever leaves, falls
\* behind or receives meanwhile, and nobody else hears anything.
ImplementsChatRoom == Chat!Spec

\* Clients that keep up agree on the order of the lines that they both hear,
\* though nobody numbers them: a broadcast is over before another line is read.
OneConversation ==
  \A c, d \in Clients \ delayed : status[c] = "open" /\ status[d] = "open" =>
    \A i, j \in DOMAIN Stream(c), k, l \in DOMAIN Stream(d) :
      i < j /\ Stream(c)[i] = Stream(d)[k] /\ Stream(c)[j] = Stream(d)[l] => k < l

\* Unless the server is stopped, in the end every line that a client sent was
\* read, if the client did not leave, and no write waits for a client that reads.
EveryLineArrives ==
  \A c \in Clients :
    <>[](running /\ status[c] # "left"
           => taken[c] = sent[c] /\ waiting[c] \o posted[c] = <<>>)

-----------------------------------------------------------------------------
\* What the README says and the code does not ensure

\* Lines arrive whole at every client, also at one that reads slowly.
LinesArriveWholeAtAll == \A c \in Clients :
  status[c] = "open" /\ waiting[c] \o posted[c] = <<>> => WholeLinesTo(c)
=============================================================================
