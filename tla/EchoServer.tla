------------------------------ MODULE EchoServer ------------------------------
(***************************************************************************)
(* echo-server-cpp/server.cpp and echo-server-py/server.py: two programs    *)
(* of one design, which serve one client after the other with one recv and  *)
(* one send.  They differ in what a failure does: the one in C++ logs it    *)
(* and closes the socket, the one in Python does not catch it and ends.     *)
(***************************************************************************)
EXTENDS Integers, Sequences

CONSTANTS Clients, NoClient,
          Bytes,
          Messages,    \* Messages[c]: what client c may send, as bytes
          Lead, Cont,  \* the two bytes of a character that takes two
          BufferSize   \* 4096 in C++ and 1024 in Python

ASSUME NoClientAssumption == NoClient \notin Clients
ASSUME BufferAssumption == BufferSize \in Nat \ {0}
ASSUME MessagesAssumption == \A c \in Clients : Messages[c] \subseteq Seq(Bytes)

VARIABLES
  program,  \* which of the two it is
  pc,       \* where its only thread is
  current,  \* the client whose socket it holds
  buffer,   \* the buffer of recv, with what earlier clients left in it
  bytesReceived,  \* what recv returned, -1 when it failed
  client,   \* client[c]: "away", "connected", "left" or "reset"
  message,  \* message[c]: all that c means to say
  arrived,  \* arrived[c]: how much of it is in the server's system
  got,      \* got[c]: what came back
  served,   \* clients whose socket was closed by the server
  accepts   \* FALSE once the listening socket has failed

serverVars == <<program, pc, current, buffer, bytesReceived>>
clientVars == <<client, message, arrived>>
vars == <<serverVars, clientVars, got, served, accepts>>

\* The operators whose names end in Bug are mistakes the code could have made in
\* the definition that follows them; no specification uses them.
Prefix(s, n) == SubSeq(s, 1, n)
Lesser(m, n) == IF m < n THEN m ELSE n

\* str(txt, 'utf-8') decodes what is not cut inside a character.
Decodable(s) == \A i \in 1..Len(s) : /\ s[i] = Lead => i < Len(s) /\ s[i + 1] = Cont
                                     /\ s[i] = Cont => i > 1 /\ s[i - 1] = Lead

Init ==
  /\ program \in {"cpp", "python"}
  /\ pc = "start" /\ current = NoClient
  /\ buffer = [i \in 1..BufferSize |-> 0] /\ bytesReceived = 0
  /\ client = [c \in Clients |-> "away"]
  /\ message \in [Clients -> UNION {Messages[c] : c \in Clients}]
  /\ \A c \in Clients : message[c] \in Messages[c]
  /\ arrived = [c \in Clients |-> 0]
  /\ got = [c \in Clients |-> <<>>]
  /\ served = {} /\ accepts = TRUE

-----------------------------------------------------------------------------
\* Clients.  listen() has been called, so a connect needs no accept.

Connect(c) ==
  /\ pc \notin {"start", "ended"} /\ client[c] = "away"
  /\ client' = [client EXCEPT ![c] = "connected"]
  /\ UNCHANGED <<serverVars, message, arrived, got, served, accepts>>

\* TCP delivers a message in any pieces.
Arrive(c) ==
  /\ client[c] = "connected" /\ c \notin served /\ arrived[c] < Len(message[c])
  /\ \E n \in arrived[c] + 1 .. Len(message[c]) : arrived' = [arrived EXCEPT ![c] = n]
  /\ UNCHANGED <<serverVars, client, message, got, served, accepts>>

Leave(c) ==
  /\ client[c] = "connected"
  /\ \E how \in {"left", "reset"} : client' = [client EXCEPT ![c] = how]
  /\ UNCHANGED <<serverVars, message, arrived, got, served, accepts>>

-----------------------------------------------------------------------------
\* The program

\* The listening socket is made, or the program ends at a step that fails.
Start ==
  /\ pc = "start"
  /\ accepts' \in BOOLEAN /\ pc' = IF accepts' THEN "accept" ELSE "ended"
  /\ UNCHANGED <<program, current, buffer, bytesReceived, clientVars, got, served>>

\* In Python accept does not block: while nobody waits it raises
\* BlockingIOError, the loop passes and accepts again.
Accept(c) ==
  /\ pc = "accept" /\ client[c] # "away" /\ c \notin served
  /\ current' = c /\ pc' = "recv"
  /\ UNCHANGED <<program, buffer, bytesReceived, clientVars, got, served, accepts>>

\* C++ leaves the loop, Python the program: the listening socket is closed.
AcceptFails ==
  /\ pc = "accept"
  /\ accepts' = FALSE /\ pc' = "ended"
  /\ UNCHANGED <<program, current, buffer, bytesReceived, clientVars, got, served>>

\* What stops the program: in Python what recv and str may raise.
AnyErrorEndsBug(n, b) == n <= 0
Raises(n, b) == program = "python" /\ (n < 0 \/ ~Decodable(Prefix(b, n)))

\* recv blocks, for as long as the client is silent, and takes what there is.
Recv ==
  LET c == current IN
  /\ pc = "recv"
  /\ arrived[c] > 0 \/ client[c] # "connected"
  /\ bytesReceived' = IF client[c] = "reset" THEN -1 ELSE Lesser(BufferSize, arrived[c])
  /\ buffer' = [i \in 1..BufferSize |-> IF i <= bytesReceived' THEN message[c][i] ELSE buffer[i]]
  /\ pc' = IF Raises(bytesReceived', buffer') THEN "ended"
           ELSE IF bytesReceived' > 0 THEN "send" ELSE "close"
  /\ UNCHANGED <<program, current, clientVars, got, served, accepts>>

WholeBufferBug == BufferSize
SendLength == bytesReceived

\* A send to a client that has reset the connection fails: C++ logs it.
Send ==
  /\ pc = "send"
  /\ got' = IF client[current] = "connected"
            THEN [got EXCEPT ![current] = Prefix(buffer, SendLength)] ELSE got
  /\ pc' = IF program = "python" /\ client[current] = "reset" THEN "ended" ELSE "close"
  /\ UNCHANGED <<program, current, buffer, bytesReceived, clientVars, served, accepts>>

SameSocketBug ==
  /\ pc = "close"
  /\ served' = served \cup {current} /\ pc' = "recv"
  /\ UNCHANGED <<program, current, buffer, bytesReceived, clientVars, got, accepts>>

\* A socket closed before all that the client says was received is reset, and
\* the client may lose the answer it has not read yet.
Close ==
  /\ pc = "close"
  /\ served' = served \cup {current} /\ current' = NoClient
  /\ \/ UNCHANGED got
     \/ bytesReceived < Len(message[current]) /\ got' = [got EXCEPT ![current] = <<>>]
  /\ pc' = "accept"
  /\ UNCHANGED <<program, buffer, bytesReceived, clientVars, accepts>>

-----------------------------------------------------------------------------
ServerStep == Start \/ Recv \/ Send \/ Close \/ \E c \in Clients : Accept(c)
Next == \/ \E c \in Clients : Connect(c) \/ Arrive(c) \/ Leave(c)
        \/ ServerStep \/ AcceptFails

\* The server runs.  Clients do as they like, and no accept has to fail.
Spec == Init /\ [][Next]_vars
FairSpec == Spec /\ WF_vars(ServerStep)

-----------------------------------------------------------------------------
\* Properties

\* Type correctness of the server and of what its clients sent and got.
TypeOK ==
  /\ program \in {"cpp", "python"} /\ pc \in {"start", "accept", "recv", "send", "close", "ended"}
  /\ current \in Clients \cup {NoClient} /\ bytesReceived \in -1 .. BufferSize
  /\ Len(buffer) = BufferSize
  /\ client \in [Clients -> {"away", "connected", "left", "reset"}]
  /\ \A c \in Clients : arrived[c] \in 0..Len(message[c]) /\ Len(got[c]) <= BufferSize
  /\ served \subseteq Clients \ {current} /\ accepts \in BOOLEAN

\* What comes back is the beginning of what this client said, never a byte that
\* an earlier client left in the buffer, and never what had not arrived.
EchoIsOwn ==
  \A c \in Clients : Len(got[c]) <= arrived[c] /\ got[c] = Prefix(message[c], Len(got[c]))

\* As long as no client stays silent for ever, each of those that connect is
\* served and its socket closed, or the server has ended for a reason it has:
\* a failed accept, and in Python a reset or bytes that do not decode, either
\* wrong in themselves or cut inside a character by the network or the buffer.
Talkative ==
  \A c \in Clients : client[c] = "connected" ~> (arrived[c] > 0 \/ client[c] # "connected")
Excused == \/ ~accepts
           \/ /\ program = "python"
              /\ \E c \in Clients :
                   \/ client[c] = "reset"
                   \/ \E n \in 1..Lesser(BufferSize, arrived[c]) : ~Decodable(Prefix(message[c], n))
EveryClientServed ==
  Talkative => \A c \in Clients : client[c] # "away" ~> (c \in served \/ Excused)
=============================================================================
