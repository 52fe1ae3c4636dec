--------------------------- MODULE EchoServerProof ---------------------------
(***************************************************************************)
(* What both echo servers ensure for any number of clients, any messages and *)
(* any size of the buffer: an echo is the beginning of what its client said. *)
(***************************************************************************)
EXTENDS EchoServer, TLAPS

USE NoClientAssumption, BufferAssumption

\* A function on the first n numbers has length n, and so has a prefix.
LEMMA LenOfFunction ==
  ASSUME NEW n \in Nat, NEW f, f = [i \in 1..n |-> f[i]]
  PROVE  Len(f) = n
  OBVIOUS

LEMMA PrefixIs ==
  ASSUME NEW s, NEW n \in Nat
  PROVE  /\ Prefix(s, n) = [i \in 1..n |-> s[i]]
         /\ Len(Prefix(s, n)) = n
<1>1. Prefix(s, n) = [i \in 1..n |-> s[i]]
  BY DEF Prefix
<1> QED BY <1>1, LenOfFunction

-----------------------------------------------------------------------------
\* Messages are finite, and a client has one from the start.
MessagesAreSequences == message \in [Clients -> Seq(Bytes)]

\* The functions that TypeOK reads through.
Shapes == /\ arrived \in [Clients -> Nat] /\ got \in [Clients -> Seq(Bytes)]
             /\ DOMAIN buffer = 1..BufferSize /\ buffer = [i \in 1..BufferSize |-> buffer[i]]

\* While the thread is at a client, it holds the socket of one.
HoldsSocket == pc \in {"recv", "send", "close"} => current \in Clients

\* What is about to be sent is what recv has taken from the client: the buffer
\* beyond it may hold the bytes of others.
BufferIsCurrent ==
  pc = "send" =>
    /\ bytesReceived \in 1..BufferSize /\ bytesReceived <= arrived[current]
    /\ \A i \in 1..bytesReceived : buffer[i] = message[current][i]

EchoInv == TypeOK /\ MessagesAreSequences /\ Shapes /\ HoldsSocket /\ BufferIsCurrent /\ EchoIsOwn

LEMMA EchoInit == Init => EchoInv
<1> SUFFICES ASSUME Init PROVE EchoInv
  OBVIOUS
<1>1. MessagesAreSequences
  BY MessagesAssumption DEF Init, MessagesAreSequences
<1>2. Shapes /\ HoldsSocket /\ BufferIsCurrent
  BY DEF Init, Shapes, HoldsSocket, BufferIsCurrent
<1>3. EchoIsOwn
  <2> SUFFICES ASSUME NEW c \in Clients
               PROVE  Len(got[c]) <= arrived[c] /\ got[c] = Prefix(message[c], Len(got[c]))
    BY DEF EchoIsOwn
  <2>1. got[c] = <<>> /\ arrived[c] = 0 /\ Len(<<>>) = 0
    BY DEF Init
  <2>2. Prefix(message[c], 0) = <<>>
    BY PrefixIs
  <2> QED BY <2>1, <2>2
<1>4. TypeOK
  <2>1. Len(buffer) = BufferSize
    BY LenOfFunction DEF Init
  <2>2. accepts \in BOOLEAN
    BY Zenon DEF Init
  <2>3. \A c \in Clients : arrived[c] \in 0..Len(message[c]) /\ Len(got[c]) <= BufferSize
    <3>1. \A c \in Clients : arrived[c] = 0 /\ got[c] = <<>>
      BY DEF Init
    <3>2. \A c \in Clients : Len(message[c]) \in Nat
      BY <1>1 DEF MessagesAreSequences
    <3>3. Len(<<>>) = 0
      OBVIOUS
    <3> TAKE c \in Clients
    <3>4. arrived[c] \in 0..Len(message[c])
      BY <3>1, <3>2
    <3>5. Len(got[c]) <= BufferSize
      BY <3>1, <3>3
    <3> QED BY <3>4, <3>5
  <2> QED BY <2>1, <2>2, <2>3 DEF Init, TypeOK
<1> QED BY <1>1, <1>2, <1>3, <1>4 DEF EchoInv

LEMMA EchoClient ==
  ASSUME EchoInv, NEW c \in Clients, Connect(c) \/ Arrive(c) \/ Leave(c)
  PROVE  EchoInv'
<1> USE DEF EchoInv, serverVars
<1>1. MessagesAreSequences'
  BY DEF Connect, Arrive, Leave, MessagesAreSequences
<1>2. /\ UNCHANGED <<program, pc, current, buffer, bytesReceived, message, got, served, accepts>>
      /\ client' \in [Clients -> {"away", "connected", "left", "reset"}]
  BY DEF Connect, Arrive, Leave, TypeOK
<1>3. /\ arrived' \in [Clients -> Nat]
      /\ \A d \in Clients : arrived[d] <= arrived'[d] /\ arrived'[d] \in 0..Len(message[d])
  <2>1. /\ arrived \in [Clients -> Nat]
        /\ \A d \in Clients : Len(message[d]) \in Nat /\ arrived[d] <= Len(message[d])
    BY DEF TypeOK, Shapes, MessagesAreSequences
  <2>2. CASE arrived' = arrived
    BY <2>1, <2>2
  <2>3. CASE Arrive(c)
    <3>1. PICK n \in arrived[c] + 1 .. Len(message[c]) : arrived' = [arrived EXCEPT ![c] = n]
      BY <2>3 DEF Arrive
    <3> QED BY <2>1, <3>1
  <2> QED BY <2>2, <2>3 DEF Connect, Leave
<1>4. TypeOK'
  BY <1>2, <1>3 DEF TypeOK
<1>5. Shapes' /\ HoldsSocket'
  BY <1>2, <1>3 DEF Shapes, HoldsSocket
<1>6. BufferIsCurrent'
  <2> SUFFICES ASSUME pc = "send"
               PROVE  /\ bytesReceived \in 1..BufferSize /\ bytesReceived <= arrived'[current]
                      /\ \A i \in 1..bytesReceived : buffer[i] = message[current][i]
    BY <1>2 DEF BufferIsCurrent
  <2>1. PICK d \in Clients : d = current
    BY DEF HoldsSocket
  <2>2. arrived[d] \in Nat /\ arrived'[d] \in Nat /\ arrived[d] <= arrived'[d]
    BY <1>3 DEF Shapes
  <2> QED BY <2>1, <2>2 DEF BufferIsCurrent
<1>7. EchoIsOwn'
  <2> SUFFICES ASSUME NEW d \in Clients
               PROVE  Len(got[d]) <= arrived'[d] /\ got[d] = Prefix(message[d], Len(got[d]))
    BY <1>2 DEF EchoIsOwn
  <2>1. Len(got[d]) \in Nat /\ arrived[d] \in Nat /\ arrived'[d] \in Nat
    BY <1>3 DEF Shapes
  <2> QED BY <1>3, <2>1 DEF EchoIsOwn
<1> QED BY <1>1, <1>4, <1>5, <1>6, <1>7

\* recv puts the beginning of the message at the beginning of the buffer.
LEMMA EchoRecv ==
  ASSUME EchoInv, Recv
  PROVE  EchoInv'
<1> USE DEF EchoInv, clientVars
<1>1. PICK c \in Clients : c = current
  BY DEF Recv, HoldsSocket
<1>2. /\ UNCHANGED <<program, current, client, message, arrived, got, served, accepts>>
      /\ pc = "recv" /\ pc' \in {"ended", "send", "close"}
      /\ pc' = "send" => bytesReceived' > 0
  BY DEF Recv
<1>3. /\ Lesser(BufferSize, arrived[c]) \in 0..BufferSize
      /\ Lesser(BufferSize, arrived[c]) <= arrived[c]
  BY DEF Shapes, Lesser
<1>4. /\ bytesReceived' \in -1 .. BufferSize
      /\ bytesReceived' > 0 => bytesReceived' <= arrived[c]
  BY <1>1, <1>3 DEF Recv
<1>5. buffer' = [i \in 1..BufferSize |-> IF i <= bytesReceived' THEN message[c][i] ELSE buffer[i]]
  BY <1>1 DEF Recv
<1>6. Len(buffer') = BufferSize
  BY <1>5, LenOfFunction
<1>7. TypeOK'
  BY <1>2, <1>4, <1>6 DEF TypeOK
<1>8. Shapes' /\ HoldsSocket' /\ MessagesAreSequences' /\ EchoIsOwn'
  BY <1>1, <1>2, <1>5 DEF Shapes, HoldsSocket, MessagesAreSequences, EchoIsOwn
<1>9. BufferIsCurrent'
  BY <1>1, <1>2, <1>4, <1>5 DEF BufferIsCurrent
<1> QED BY <1>7, <1>8, <1>9

\* send takes from the buffer exactly what was received.
LEMMA EchoSend ==
  ASSUME EchoInv, Send
  PROVE  EchoInv'
<1> USE DEF EchoInv, clientVars
<1>1. PICK c \in Clients : c = current
  BY DEF Send, HoldsSocket
<1>2. /\ UNCHANGED <<program, current, buffer, bytesReceived, client, message, arrived, served, accepts>>
      /\ pc = "send" /\ pc' \in {"ended", "close"}
  BY DEF Send
<1>3. /\ bytesReceived \in 1..BufferSize /\ bytesReceived <= arrived[c]
      /\ \A i \in 1..bytesReceived : buffer[i] = message[c][i]
  BY <1>1, <1>2 DEF BufferIsCurrent
<1>4. /\ Prefix(buffer, bytesReceived) = Prefix(message[c], bytesReceived)
      /\ Len(Prefix(buffer, bytesReceived)) = bytesReceived
  BY <1>3, PrefixIs
<1>5. Prefix(message[c], bytesReceived) \in Seq(Bytes)
  <2>1. message[c] \in Seq(Bytes) /\ bytesReceived <= Len(message[c])
    BY <1>3 DEF MessagesAreSequences, TypeOK
  <2>2. \A i \in 1..bytesReceived : message[c][i] \in Bytes
    BY <1>3, <2>1
  <2>3. [i \in 1..bytesReceived |-> message[c][i]] \in Seq(Bytes)
    BY <1>3, <2>2
  <2> QED BY <1>3, <2>3, PrefixIs
<1>6. got' = got \/ got' = [got EXCEPT ![c] = Prefix(message[c], bytesReceived)]
  BY <1>1, <1>4 DEF Send, SendLength
<1>7. got' \in [Clients -> Seq(Bytes)]
  BY <1>5, <1>6 DEF Shapes
<1>8. ASSUME NEW d \in Clients
      PROVE  /\ Len(got'[d]) <= arrived[d] /\ Len(got'[d]) <= BufferSize
             /\ got'[d] = Prefix(message[d], Len(got'[d]))
  <2>1. CASE got'[d] = got[d]
    BY <2>1 DEF TypeOK, EchoIsOwn
  <2>2. CASE d = c /\ got'[d] = Prefix(message[c], bytesReceived)
    BY <1>3, <1>4, <2>2
  <2> QED BY <1>6, <2>1, <2>2 DEF Shapes
<1>9. TypeOK' /\ EchoIsOwn'
  BY <1>2, <1>8 DEF TypeOK, EchoIsOwn
<1> QED BY <1>1, <1>2, <1>7, <1>9 DEF Shapes, HoldsSocket, MessagesAreSequences, BufferIsCurrent

LEMMA EchoServerStep ==
  ASSUME EchoInv, ServerStep \/ AcceptFails
  PROVE  EchoInv'
<1> USE DEF EchoInv, clientVars
<1>1. CASE Start \/ AcceptFails
  <2>1. accepts' \in BOOLEAN /\ pc' \in {"accept", "ended"}
    BY <1>1 DEF Start, AcceptFails
  <2>2. UNCHANGED <<program, current, buffer, bytesReceived, client, message, arrived, got, served>>
    BY <1>1 DEF Start, AcceptFails
  <2>3. TypeOK'
    BY <2>1, <2>2 DEF TypeOK
  <2> QED BY <2>1, <2>2, <2>3 DEF Shapes, HoldsSocket, MessagesAreSequences, BufferIsCurrent, EchoIsOwn
<1>2. ASSUME NEW c \in Clients, Accept(c) PROVE EchoInv'
  BY <1>2 DEF Accept, TypeOK, Shapes, HoldsSocket, MessagesAreSequences, BufferIsCurrent, EchoIsOwn
<1>3. CASE Close
  <2>1. PICK c \in Clients : c = current
    BY <1>3 DEF Close, HoldsSocket
  <2>2. /\ UNCHANGED <<program, buffer, bytesReceived, client, message, arrived, accepts>>
        /\ current' = NoClient /\ pc' = "accept" /\ served' = served \cup {c}
        /\ got' = got \/ got' = [got EXCEPT ![c] = <<>>]
    BY <1>3, <2>1 DEF Close
  <2>3. Shapes'
    <3>1. got \in [Clients -> Seq(Bytes)] /\ <<>> \in Seq(Bytes)
      BY DEF Shapes
    <3>2. got' \in [Clients -> Seq(Bytes)]
      BY <2>2, <3>1
    <3> QED BY <2>2, <3>2 DEF Shapes
  <2>4. Len(<<>>) = 0 /\ \A d \in Clients : Prefix(message[d], 0) = <<>>
    BY PrefixIs
  <2>5. \A d \in Clients : got'[d] = got[d] \/ got'[d] = <<>>
    BY <2>2 DEF Shapes
  <2>6. \A d \in Clients : /\ Len(got'[d]) <= arrived[d] /\ Len(got'[d]) <= BufferSize
                           /\ got'[d] = Prefix(message[d], Len(got'[d]))
    <3> TAKE d \in Clients
    <3>1. CASE got'[d] = got[d]
      BY <3>1 DEF TypeOK, EchoIsOwn
    <3>2. CASE got'[d] = <<>>
      BY <2>4, <3>2 DEF Shapes
    <3> QED BY <2>5, <3>1, <3>2
  <2>7. TypeOK' /\ EchoIsOwn'
    BY <2>1, <2>2, <2>6 DEF TypeOK, EchoIsOwn
  <2> QED BY <2>2, <2>3, <2>7 DEF HoldsSocket, MessagesAreSequences, BufferIsCurrent
<1> QED BY <1>1, <1>2, <1>3, EchoRecv, EchoSend DEF ServerStep

LEMMA EchoNext == EchoInv /\ [Next]_vars => EchoInv'
<1>1. CASE UNCHANGED vars
  BY <1>1 DEF vars, serverVars, clientVars, EchoInv, TypeOK, Shapes, HoldsSocket,
              MessagesAreSequences, BufferIsCurrent, EchoIsOwn
<1> QED BY <1>1, EchoClient, EchoServerStep DEF Next

LEMMA EchoAlways == Spec => []EchoInv
  BY EchoInit, EchoNext, PTL DEF Spec

\* Every variable keeps its type; what comes back is never longer than the buffer.
THEOREM TypeCorrect == Spec => []TypeOK
<1>1. EchoInv => TypeOK
  BY DEF EchoInv
<1> QED BY <1>1, EchoAlways, PTL

\* No client ever gets a byte that another one left in the buffer.
THEOREM EchoesAreOwn == Spec => []EchoIsOwn
<1>1. EchoInv => EchoIsOwn
  BY DEF EchoInv
<1> QED BY <1>1, EchoAlways, PTL
=============================================================================
