---------------------------- MODULE MessagerProof ----------------------------
(***************************************************************************)
(* What the messager ensures for any number of clients, any lines and any    *)
(* room in the connections: a client for whom every write was done at once   *)
(* gets whole lines, in order, no segment is lost for the slow ones, and     *)
(* those who keep up are in one ChatRoom.                                    *)
(***************************************************************************)
EXTENDS Messager, FiniteSetTheorems, SequenceTheorems, TLAPS

USE MaxLinesAssumption, RoomAssumption

-----------------------------------------------------------------------------
\* Lines, writes and what becomes of them

LEMMA LinesAre ==
  /\ \A c \in Clients : \A i \in 1..MaxLines[c] : <<c, i>> \in Lines
  /\ \A line \in Lines : /\ line[1] \in Clients /\ line[2] \in 1..MaxLines[line[1]]
                         /\ line = <<line[1], line[2]>>
  BY DEF Lines

LEMMA SegmentsAre ==
  /\ Garbage \in Segments
  /\ \A line \in Lines : <<line, 1>> \in Segments /\ <<line, 2>> \in Segments
  BY DEF Segments

LEMMA WritesAre == \A write \in Writes : write.next \in {1, 2} /\ write.line \in Lines
  BY DEF Writes

\* No write takes more than there is room for, or more than it has left.
LEMMA FitsIn ==
  ASSUME NEW c \in Clients, NEW write \in Writes, wire[c] \in Seq(Segments), Len(wire[c]) <= Room
  PROVE  /\ Fits(c, write) \in 0..3 - write.next /\ Len(wire[c]) + Fits(c, write) <= Room
         /\ InRoom(c, write) \in 0..3 - write.next /\ Len(wire[c]) + InRoom(c, write) <= Room
         /\ Space(c) > 0 => Fits(c, write) > 0
<1>1. write.next \in {1, 2} /\ Len(wire[c]) \in Nat
  BY DEF Writes
<1> QED BY <1>1 DEF Fits, InRoom, Space

LEMMA RestIs ==
  ASSUME NEW write \in Writes, NEW n \in 1..3 - write.next, ~Over(write, n)
  PROVE  Rest(write, n) \in Writes /\ Rest(write, n).next = write.next + n
<1>1. write.next \in {1, 2} /\ write.line \in Lines
  BY DEF Writes
<1>2. write.next = 1 /\ n = 1
  BY <1>1 DEF Over
<1>3. write = [line |-> write.line, next |-> 1]
  BY <1>2 DEF Writes
<1>4. Rest(write, n) = [line |-> write.line, next |-> 2]
  BY <1>2, <1>3 DEF Rest
<1> QED BY <1>1, <1>2, <1>4 DEF Writes

-----------------------------------------------------------------------------
\* Left, the segments that queued writes still have to send

LEMMA SecondsFinite ==
  ASSUME NEW q \in Seq(Writes)
  PROVE  /\ IsFiniteSet({i \in DOMAIN q : q[i].next = 2})
         /\ Cardinality({i \in DOMAIN q : q[i].next = 2}) \in Nat
<1>1. IsFiniteSet(1..Len(q)) /\ DOMAIN q = 1..Len(q) /\ Len(q) \in Nat
  BY FS_Interval
<1>2. {i \in DOMAIN q : q[i].next = 2} \in SUBSET (1..Len(q))
  BY <1>1
<1> QED BY <1>1, <1>2, FS_Subset, FS_CardinalityType

LEMMA LeftOfNone == Left(<<>>) = 0
<1>1. {i \in DOMAIN <<>> : <<>>[i].next = 2} = {}
  OBVIOUS
<1> QED BY <1>1, FS_EmptySet DEF Left

LEMMA LeftOfAppend ==
  ASSUME NEW q \in Seq(Writes), NEW write \in Writes
  PROVE  Left(Append(q, write)) = Left(q) + 3 - write.next
<1> DEFINE r == Append(q, write)
           S == {i \in DOMAIN q : q[i].next = 2}
           T == {i \in DOMAIN r : r[i].next = 2}
<1>0. Left(q) = 2 * Len(q) - Cardinality(S) /\ Left(r) = 2 * Len(r) - Cardinality(T)
  BY DEF Left
<1>1. /\ Len(r) = Len(q) + 1 /\ Len(q) \in Nat /\ DOMAIN q = 1..Len(q) /\ DOMAIN r = 1..Len(q) + 1
      /\ r[Len(q) + 1] = write /\ \A i \in 1..Len(q) : r[i] = q[i]
  OBVIOUS
<1>2. write.next \in {1, 2}
  BY DEF Writes
<1>3. IsFiniteSet(S) /\ Cardinality(S) \in Nat
  BY SecondsFinite
<1>4. CASE write.next = 1
  <2>1. T = S
    BY <1>1, <1>4
  <2> HIDE DEF S, T
  <2> QED BY <2>1, <1>0, <1>1, <1>3, <1>4
<1>5. CASE write.next = 2
  <2>1. T = S \cup {Len(q) + 1} /\ Len(q) + 1 \notin S
    BY <1>1, <1>5
  <2>2. Cardinality(T) = Cardinality(S) + 1
    BY <2>1, <1>3, FS_AddElement
  <2> HIDE DEF S, T
  <2> QED BY <2>2, <1>0, <1>1, <1>3, <1>5
<1> QED BY <1>2, <1>4, <1>5

LEMMA LeftOfTail ==
  ASSUME NEW q \in Seq(Writes), q # <<>>
  PROVE  Left(Tail(q)) = Left(q) - (3 - Head(q).next)
<1> DEFINE r == Tail(q)
           S == {i \in DOMAIN q : q[i].next = 2}
           T == {i \in DOMAIN r : r[i].next = 2}
           f == [i \in T |-> i + 1]
<1>0. Left(q) = 2 * Len(q) - Cardinality(S) /\ Left(r) = 2 * Len(r) - Cardinality(T)
  BY DEF Left
<1>1. /\ Len(r) = Len(q) - 1 /\ Len(q) \in Nat \ {0} /\ DOMAIN q = 1..Len(q) /\ DOMAIN r = 1..Len(q) - 1
      /\ r \in Seq(Writes) /\ Head(q) \in Writes /\ Head(q) = q[1] /\ \A i \in 1..Len(q) - 1 : r[i] = q[i + 1]
  BY HeadTailProperties
<1>2. Head(q).next \in {1, 2}
  BY <1>1, WritesAre
<1>3. IsFiniteSet(S) /\ Cardinality(S) \in Nat /\ IsFiniteSet(T) /\ Cardinality(T) \in Nat
  BY <1>1, SecondsFinite
<1>4. ExistsBijection(T, S \ {1})
  <2>1. f \in [T -> S \ {1}] /\ \A i, j \in T : f[i] = f[j] => i = j
    BY <1>1
  <2>2. \A j \in S \ {1} : \E i \in T : f[i] = j
    <3> SUFFICES ASSUME NEW j \in S \ {1} PROVE j - 1 \in T /\ f[j - 1] = j
      OBVIOUS
    <3> QED BY <1>1
  <2>3. f \in Bijection(T, S \ {1})
    BY <2>1, <2>2 DEF Bijection, Injection, IsInjective, Surjection
  <2> QED BY <2>3 DEF ExistsBijection
<1>5. Cardinality(S \ {1}) = Cardinality(T)
  BY <1>3, <1>4, FS_Bijection
<1>6. Cardinality(S \ {1}) = IF 1 \in S THEN Cardinality(S) - 1 ELSE Cardinality(S)
  BY <1>3, FS_RemoveElement
<1>7. 1 \in S <=> Head(q).next = 2
  BY <1>1
<1> HIDE DEF S, T
<1> QED BY <1>0, <1>1, <1>2, <1>3, <1>5, <1>6, <1>7

LEMMA LeftIsInt ==
  ASSUME NEW q \in Seq(Writes)
  PROVE  Left(q) \in Int
<1> DEFINE S == {i \in DOMAIN q : q[i].next = 2}
<1>1. Left(q) = 2 * Len(q) - Cardinality(S) /\ Len(q) \in Nat
  BY DEF Left
<1>2. Cardinality(S) \in Nat
  BY SecondsFinite
<1> HIDE DEF S
<1> QED BY <1>1, <1>2

\* What becomes of a write of which n segments went out: all that it had left
\* is out, or is left in the two queues together.
LEMMA NowIs ==
  ASSUME NEW c \in Clients, waiting[c] \in Seq(Writes), NEW q \in Seq(Writes),
         NEW write \in Writes, NEW n \in 0..3 - write.next
  PROVE  /\ NowWaiting(c, write, n) \in Seq(Writes) /\ NowPosted(q, write, n) \in Seq(Writes)
         /\ Left(NowWaiting(c, write, n)) + Left(NowPosted(q, write, n))
              = Left(waiting[c]) + Left(q) + 3 - write.next - n
         /\ Left(NowPosted(q, write, n)) = Left(q) + IF n = 0 THEN 0 ELSE 3 - write.next - n
<1> USE WritesAre
<1>1. write.next \in {1, 2} /\ Left(q) \in Int /\ Left(waiting[c]) \in Int
  BY LeftIsInt
<1>2. CASE n = 0
  <2>1. NowWaiting(c, write, n) = Append(waiting[c], write) /\ NowPosted(q, write, n) = q
    BY <1>2 DEF NowWaiting, NowPosted
  <2>2. /\ Append(waiting[c], write) \in Seq(Writes)
        /\ Left(Append(waiting[c], write)) = Left(waiting[c]) + 3 - write.next
    BY LeftOfAppend
  <2> QED BY <2>1, <2>2, <1>1, <1>2
<1>3. CASE n # 0 /\ Over(write, n)
  <2>1. NowWaiting(c, write, n) = waiting[c] /\ NowPosted(q, write, n) = q
    BY <1>3 DEF NowWaiting, NowPosted
  <2> QED BY <2>1, <1>1, <1>3 DEF Over
<1>4. CASE n # 0 /\ ~Over(write, n)
  <2>1. NowWaiting(c, write, n) = waiting[c] /\ NowPosted(q, write, n) = Append(q, Rest(write, n))
    BY <1>4 DEF NowWaiting, NowPosted
  <2>2. Rest(write, n) \in Writes /\ Rest(write, n).next = write.next + n
    BY <1>1, <1>4, RestIs
  <2>3. /\ Append(q, Rest(write, n)) \in Seq(Writes)
        /\ Left(Append(q, Rest(write, n))) = Left(q) + 3 - (write.next + n)
    BY <2>2, LeftOfAppend
  <2> QED BY <2>1, <2>3, <1>1, <1>4
<1> QED BY <1>2, <1>3, <1>4

-----------------------------------------------------------------------------
\* The invariant

\* Before it is accepted, the server knows nothing of a client.
NotConnected ==
  \A c \in Clients : status[c] = "asks" =>
    c \notin connects /\ got[c] = <<>> /\ wire[c] = <<>> /\ waiting[c] = <<>> /\ posted[c] = <<>>

\* Whoever is open is broadcast to.
Connected == \A c \in Clients : status[c] = "open" => c \in connects

\* Only a delayed client has writes that are not done.
WrittenAtOnce ==
  \A c \in Clients \ delayed : status[c] = "open" => waiting[c] = <<>> /\ posted[c] = <<>>

\* Lines that were read when a client was accepted stay read.
JoinedBefore == \A c, d \in Clients : joined[c][d] <= taken[d]

\* At any time finitely many lines are due to a client.
DueFinite == \A c \in Clients : status[c] = "open" => IsFiniteSet(Due(c))

PlaceInv == NotConnected /\ Connected /\ WrittenAtOnce /\ JoinedBefore
MessagerInv == TypeOK /\ PlaceInv /\ DueFinite /\ LinesArriveWhole /\ NoSegmentLost

LEMMA MessagerInit == Init => MessagerInv
<1> SUFFICES ASSUME Init PROVE MessagerInv
  OBVIOUS
<1>1. TypeOK
  <2>1. running \in BOOLEAN
    BY Zenon DEF Init
  <2>2. wire = [c \in Clients |-> <<>>] /\ \A c \in Clients : Len(wire[c]) <= Room
    BY DEF Init
  <2> QED BY <2>1, <2>2 DEF Init, TypeOK
<1>2. PlaceInv
  BY DEF Init, PlaceInv, NotConnected, Connected, WrittenAtOnce, JoinedBefore
<1>3. \A c \in Clients : Due(c) = {}
  BY LinesAre DEF Init, Due
<1>4. DueFinite
  BY <1>3, FS_EmptySet DEF DueFinite
<1>5. LinesArriveWhole /\ NoSegmentLost
  BY DEF Init, LinesArriveWhole, NoSegmentLost
<1> QED BY <1>1, <1>2, <1>4, <1>5 DEF MessagerInv

-----------------------------------------------------------------------------
\* What the handlers do to the connections

\* read_request and broadcast: to everybody else who is open, the line is written
\* as far as there is room, and the rest of it is queued.
Broadcast(c, d, n) ==
  LET write == [line |-> <<c, taken[c] + 1>>, next |-> 1] IN
  /\ n = InRoom(d, write)
  /\ wire'[d] = wire[d] \o [k \in 1..n |-> <<write.line, k>>]
  /\ waiting'[d] = NowWaiting(d, write, n)
  /\ posted'[d] = NowPosted(posted[d], write, n)
  /\ d \notin delayed' => d \notin delayed /\ Over(write, n)

LEMMA MoreToRead ==
  ASSUME TypeOK, NEW c \in Clients, ReadLine(c)
  PROVE  taken[c] + 1 \in 1..MaxLines[c]
<1>1. taken[c] < sent[c]
  BY DEF ReadLine
<1>2. taken[c] \in Nat /\ sent[c] \in Nat /\ sent[c] <= MaxLines[c]
  BY DEF TypeOK
<1> QED BY <1>1, <1>2

LEMMA ReadLineFrame ==
  ASSUME NEW c \in Clients, ReadLine(c)
  PROVE  /\ taken' = [taken EXCEPT ![c] = taken[c] + 1] /\ reading' = reading
         /\ running' = running /\ status' = status /\ sent' = sent /\ got' = got
         /\ connects' = connects /\ joined' = joined
         /\ wire' = [d \in Clients |-> wire'[d]] /\ waiting' = [d \in Clients |-> waiting'[d]]
         /\ posted' = [d \in Clients |-> posted'[d]]
<1>1. /\ taken' = [taken EXCEPT ![c] = taken[c] + 1] /\ reading' = StillReading(c)
      /\ UNCHANGED <<running, clientVars, connects, joined>>
  BY Zenon DEF ReadLine
<1> DEFINE write == [line |-> <<c, taken[c] + 1>>, next |-> 1]
           to == {e \in Others(c) : ~Refused(e)}
           n == [e \in to |-> InRoom(e, write)]
           w == [e \in Clients |-> IF e \in to
                    THEN wire[e] \o [k \in 1..n[e] |-> <<write.line, k>>] ELSE wire[e]]
           a == [e \in Clients |-> IF e \in to THEN NowWaiting(e, write, n[e]) ELSE waiting[e]]
           p == [e \in Clients |-> IF e \in to THEN NowPosted(posted[e], write, n[e]) ELSE posted[e]]
<1>2. wire' = w /\ waiting' = a /\ posted' = p
  BY DEF ReadLine
<1>3. w = [e \in Clients |-> w[e]] /\ a = [e \in Clients |-> a[e]] /\ p = [e \in Clients |-> p[e]]
  OBVIOUS
<1> HIDE DEF w, a, p
<1> QED BY <1>1, <1>2, <1>3 DEF clientVars, StillReading

LEMMA ReadLineIs ==
  ASSUME TypeOK, NEW c \in Clients, ReadLine(c), NEW d \in Clients
  PROVE  /\ d \in Others(c) /\ ~Refused(d) => \E n \in 0..2 : Broadcast(c, d, n)
         /\ ~(d \in Others(c) /\ ~Refused(d)) =>
              /\ wire'[d] = wire[d] /\ waiting'[d] = waiting[d] /\ posted'[d] = posted[d]
              /\ d \notin delayed' => d \notin delayed
<1> DEFINE write == [line |-> <<c, taken[c] + 1>>, next |-> 1]
           to == {e \in Others(c) : ~Refused(e)}
           n == [e \in to |-> InRoom(e, write)]
<1>1. /\ wire' = [e \in Clients |-> IF e \in to
                    THEN wire[e] \o [k \in 1..n[e] |-> <<write.line, k>>] ELSE wire[e]]
      /\ waiting' = [e \in Clients |-> IF e \in to THEN NowWaiting(e, write, n[e]) ELSE waiting[e]]
      /\ posted' = [e \in Clients |-> IF e \in to THEN NowPosted(posted[e], write, n[e]) ELSE posted[e]]
      /\ delayed' = delayed \cup {e \in to : ~Over(write, n[e])}
  BY DEF ReadLine
<1>2. ASSUME d \in to PROVE Broadcast(c, d, n[d]) /\ n[d] \in 0..2
  <2>1. n[d] = InRoom(d, write)
    BY <1>2
  <2>2. <<c, taken[c] + 1>> \in Lines /\ write \in Writes
    <3>1. taken[c] + 1 \in 1..MaxLines[c]
      BY MoreToRead
    <3>2. <<c, taken[c] + 1>> \in Lines
      BY <3>1, LinesAre
    <3> QED BY <3>2 DEF Writes
  <2>3. InRoom(d, write) \in 0..2
    <3>1. wire[d] \in Seq(Segments) /\ Len(wire[d]) <= Room /\ write.next = 1
      BY DEF TypeOK
    <3> HIDE DEF write, to, n
    <3>2. InRoom(d, write) \in 0..3 - write.next
      BY <3>1, <2>2, FitsIn
    <3> QED BY <3>1, <3>2
  <2>4. /\ wire'[d] = wire[d] \o [k \in 1..n[d] |-> <<write.line, k>>]
        /\ waiting'[d] = NowWaiting(d, write, n[d])
        /\ posted'[d] = NowPosted(posted[d], write, n[d])
        /\ d \notin delayed' => d \notin delayed /\ Over(write, n[d])
    BY <1>1, <1>2
  <2>5. n[d] \in 0..2
    BY <2>1, <2>3
  <2> HIDE DEF n, to
  <2> QED BY <2>1, <2>4, <2>5 DEF Broadcast
<1>3. ASSUME d \notin to
      PROVE  /\ wire'[d] = wire[d] /\ waiting'[d] = waiting[d] /\ posted'[d] = posted[d]
             /\ d \notin delayed' => d \notin delayed
  BY <1>1, <1>3
<1>4. d \in to <=> d \in Others(c) /\ ~Refused(d)
  OBVIOUS
<1> HIDE DEF to, n
<1> QED BY <1>2, <1>3, <1>4

\* A broadcast keeps the types, and what it adds to the connection and to the
\* queues is a line of two segments.
LEMMA BroadcastIs ==
  ASSUME TypeOK, NEW c \in Clients, ReadLine(c), NEW d \in Clients, NEW n \in 0..2, Broadcast(c, d, n)
  PROVE  /\ wire'[d] \in Seq(Segments) /\ Len(wire'[d]) = Len(wire[d]) + n /\ Len(wire'[d]) <= Room
         /\ waiting'[d] \in Seq(Writes) /\ posted'[d] \in Seq(Writes)
         /\ n + Left(waiting'[d]) + Left(posted'[d]) = 2 + Left(waiting[d]) + Left(posted[d])
<1> DEFINE write == [line |-> <<c, taken[c] + 1>>, next |-> 1]
           new == [k \in 1..n |-> <<write.line, k>>]
<1>1. write.line \in Lines /\ write \in Writes /\ write.next = 1
  <2>1. taken[c] + 1 \in 1..MaxLines[c]
    BY MoreToRead
  <2>2. <<c, taken[c] + 1>> \in Lines
    BY <2>1, LinesAre
  <2> QED BY <2>2 DEF Writes
<1>2. wire[d] \in Seq(Segments) /\ waiting[d] \in Seq(Writes) /\ posted[d] \in Seq(Writes)
  BY DEF TypeOK
<1>3. /\ n = InRoom(d, write) /\ wire'[d] = wire[d] \o new
      /\ waiting'[d] = NowWaiting(d, write, n) /\ posted'[d] = NowPosted(posted[d], write, n)
  BY DEF Broadcast
<1>4. new \in Seq(Segments) /\ Len(new) = n
  <2>1. \A k \in 1..n : k \in {1, 2}
    OBVIOUS
  <2>2. \A k \in 1..n : <<write.line, k>> \in Segments
    BY <1>1, <2>1, SegmentsAre
  <2>3. new \in [1..n -> Segments]
    BY <2>2
  <2> QED BY <2>3
<1> HIDE DEF write, new
<1>5. wire'[d] \in Seq(Segments) /\ Len(wire'[d]) = Len(wire[d]) + n
  BY <1>2, <1>3, <1>4, ConcatProperties
<1>6. Len(wire[d]) + n <= Room
  BY <1>1, <1>2, <1>3, FitsIn DEF TypeOK
<1>7. /\ NowWaiting(d, write, n) \in Seq(Writes) /\ NowPosted(posted[d], write, n) \in Seq(Writes)
      /\ Left(NowWaiting(d, write, n)) + Left(NowPosted(posted[d], write, n))
           = Left(waiting[d]) + Left(posted[d]) + 3 - write.next - n
  <2>1. n \in 0..3 - write.next /\ write \in Writes
    BY <1>1
  <2>2. waiting[d] \in Seq(Writes) /\ posted[d] \in Seq(Writes)
    BY <1>2
  <2> QED BY <2>1, <2>2, NowIs
<1>8. Left(waiting[d]) \in Int /\ Left(posted[d]) \in Int /\ Left(waiting'[d]) \in Int /\ Left(posted'[d]) \in Int
  BY <1>2, <1>3, <1>7, LeftIsInt
<1>9. n + Left(waiting'[d]) + Left(posted'[d]) = 2 + Left(waiting[d]) + Left(posted[d])
  <2>1. Left(waiting'[d]) + Left(posted'[d])
          = Left(waiting[d]) + Left(posted[d]) + 3 - write.next - n
    BY <1>3, <1>7, Zenon
  <2> QED BY <2>1, <1>1, <1>8
<1> QED BY <1>3, <1>5, <1>6, <1>7, <1>9

\* The reactor goes on with a write that waits: n segments of it go out.
LEMMA WriteReadyIs ==
  ASSUME TypeOK, NEW c \in Clients, WriteReady(c)
  PROVE  \E n \in 0..2 : \E s \in Seq(Segments) :
           /\ Len(s) = n /\ wire' = [wire EXCEPT ![c] = @ \o s]
           /\ wire[c] \o s \in Seq(Segments) /\ Len(wire[c] \o s) = Len(wire[c]) + n
           /\ Len(wire[c]) + n <= Room
           /\ waiting' \in [Clients -> Seq(Writes)] /\ posted' \in [Clients -> Seq(Writes)]
           /\ \A d \in Clients \ {c} : waiting'[d] = waiting[d] /\ posted'[d] = posted[d]
           /\ n + Left(waiting'[c]) + Left(posted'[c]) = Left(waiting[c]) + Left(posted[c])
<1> DEFINE write == Head(waiting[c])
           n == Fits(c, write)
<1>1. /\ wire[c] \in Seq(Segments) /\ waiting[c] \in Seq(Writes) /\ waiting[c] # <<>> /\ posted[c] \in Seq(Writes)
      /\ Len(wire[c]) <= Room
  BY DEF TypeOK, WriteReady
<1>2. write \in Writes /\ Tail(waiting[c]) \in Seq(Writes) /\ write.next \in {1, 2}
  BY <1>1, HeadTailProperties, WritesAre
<1>3. n \in 1..3 - write.next /\ n \in 0..2 /\ Len(wire[c]) + n <= Room
  <2>1. Space(c) > 0
    BY DEF WriteReady
  <2> HIDE DEF write
  <2>2. n \in 0..3 - write.next /\ Len(wire[c]) + n <= Room /\ n > 0
    BY <2>1, <1>1, <1>2, FitsIn
  <2> QED BY <2>2, <1>2
<1>4. PICK s \in Parts(write, n, TRUE) : wire' = [wire EXCEPT ![c] = @ \o s]
  BY DEF WriteReady
<1>5. waiting' = [waiting EXCEPT ![c] = Tail(@)] /\ posted' = [posted EXCEPT ![c] = NowPosted(@, write, n)]
  BY DEF WriteReady
<1> HIDE DEF n, write
<1>6. s \in Seq(Segments) /\ Len(s) = n
  <2>1. s \in [1..n -> Segments]
    BY Zenon DEF Parts
  <2> QED BY <2>1, <1>3
<1>7. wire[c] \o s \in Seq(Segments) /\ Len(wire[c] \o s) = Len(wire[c]) + n
  BY <1>1, <1>6, ConcatProperties
<1>8. /\ NowPosted(posted[c], write, n) \in Seq(Writes)
      /\ Left(NowPosted(posted[c], write, n)) = Left(posted[c]) + 3 - write.next - n
  <2>1. n \in 0..3 - write.next /\ n # 0
    BY <1>2, <1>3
  <2> QED BY <2>1, <1>1, <1>2, NowIs
<1>9. Left(Tail(waiting[c])) = Left(waiting[c]) - (3 - write.next)
  BY <1>1, LeftOfTail DEF write
<1>10. Left(waiting[c]) \in Int /\ Left(posted[c]) \in Int
  BY <1>1, LeftIsInt
<1>11. /\ waiting'[c] = Tail(waiting[c]) /\ posted'[c] = NowPosted(posted[c], write, n)
       /\ waiting' \in [Clients -> Seq(Writes)] /\ posted' \in [Clients -> Seq(Writes)]
       /\ \A d \in Clients \ {c} : waiting'[d] = waiting[d] /\ posted'[d] = posted[d]
  BY <1>2, <1>5, <1>8 DEF TypeOK
<1>12. n + Left(waiting'[c]) + Left(posted'[c]) = Left(waiting[c]) + Left(posted[c])
  BY <1>2, <1>3, <1>8, <1>9, <1>10, <1>11
<1> QED BY <1>3, <1>4, <1>6, <1>7, <1>11, <1>12

\* async_write goes on with what is left of a write, or has it wait.
LEMMA ContinueIs ==
  ASSUME TypeOK, NEW c \in Clients, Continue(c)
  PROVE  \E n \in 0..2 : \E s \in Seq(Segments) :
           /\ Len(s) = n /\ wire' = [wire EXCEPT ![c] = @ \o s]
           /\ wire[c] \o s \in Seq(Segments) /\ Len(wire[c] \o s) = Len(wire[c]) + n
           /\ Len(wire[c]) + n <= Room
           /\ waiting' \in [Clients -> Seq(Writes)] /\ posted' \in [Clients -> Seq(Writes)]
           /\ \A d \in Clients \ {c} : waiting'[d] = waiting[d] /\ posted'[d] = posted[d]
           /\ n + Left(waiting'[c]) + Left(posted'[c]) = Left(waiting[c]) + Left(posted[c])
<1> DEFINE write == Head(posted[c])
           n == InRoom(c, write)
<1>1. /\ wire[c] \in Seq(Segments) /\ waiting[c] \in Seq(Writes) /\ posted[c] # <<>> /\ posted[c] \in Seq(Writes)
      /\ Len(wire[c]) <= Room
  BY DEF TypeOK, Continue
<1>2. write \in Writes /\ Tail(posted[c]) \in Seq(Writes) /\ write.next \in {1, 2}
  BY <1>1, HeadTailProperties, WritesAre
<1>3. n \in 0..3 - write.next /\ n \in 0..2 /\ Len(wire[c]) + n <= Room
  <2> HIDE DEF write
  <2>2. n \in 0..3 - write.next /\ Len(wire[c]) + n <= Room
    BY <1>1, <1>2, FitsIn
  <2> QED BY <2>2, <1>2
<1>4. PICK s \in Parts(write, n, TRUE) : wire' = [wire EXCEPT ![c] = @ \o s]
  BY DEF Continue
<1>5. /\ waiting' = [waiting EXCEPT ![c] = NowWaiting(c, write, n)]
      /\ posted' = [posted EXCEPT ![c] = NowPosted(Tail(@), write, n)]
  BY DEF Continue
<1> HIDE DEF n, write
<1>6. s \in Seq(Segments) /\ Len(s) = n
  <2>1. s \in [1..n -> Segments]
    BY Zenon DEF Parts
  <2> QED BY <2>1, <1>3
<1>7. wire[c] \o s \in Seq(Segments) /\ Len(wire[c] \o s) = Len(wire[c]) + n
  BY <1>1, <1>6, ConcatProperties
<1>8. /\ NowWaiting(c, write, n) \in Seq(Writes) /\ NowPosted(Tail(posted[c]), write, n) \in Seq(Writes)
      /\ Left(NowWaiting(c, write, n)) + Left(NowPosted(Tail(posted[c]), write, n))
           = Left(waiting[c]) + Left(Tail(posted[c])) + 3 - write.next - n
  <2>1. write \in Writes /\ n \in 0..3 - write.next /\ waiting[c] \in Seq(Writes)
        /\ Tail(posted[c]) \in Seq(Writes)
    BY <1>1, <1>2, <1>3
  <2> QED BY <2>1, NowIs
<1>9. Left(Tail(posted[c])) = Left(posted[c]) - (3 - write.next)
  BY <1>1, LeftOfTail DEF write
<1>10. Left(waiting[c]) \in Int /\ Left(posted[c]) \in Int
  BY <1>1, LeftIsInt
<1>11. /\ waiting'[c] = NowWaiting(c, write, n) /\ posted'[c] = NowPosted(Tail(posted[c]), write, n)
       /\ waiting' \in [Clients -> Seq(Writes)] /\ posted' \in [Clients -> Seq(Writes)]
       /\ \A d \in Clients \ {c} : waiting'[d] = waiting[d] /\ posted'[d] = posted[d]
  BY <1>2, <1>5, <1>8 DEF TypeOK
<1>12. Left(waiting'[c]) \in Int /\ Left(posted'[c]) \in Int
  BY <1>8, <1>11, LeftIsInt
<1>13. n + Left(waiting'[c]) + Left(posted'[c]) = Left(waiting[c]) + Left(posted[c])
  <2>1. Left(waiting'[c]) + Left(posted'[c])
          = Left(waiting[c]) + Left(Tail(posted[c])) + 3 - write.next - n
    BY <1>8, <1>11, Zenon
  <2>2. Left(waiting'[c]) + Left(posted'[c])
          = Left(waiting[c]) + (Left(posted[c]) - (3 - write.next)) + 3 - write.next - n
    BY <2>1, <1>9, Zenon
  <2>3. n \in Int /\ write.next \in Int
    BY <1>2, <1>3
  <2> QED BY <2>2, <2>3, <1>10, <1>12
<1> QED BY <1>3, <1>4, <1>6, <1>7, <1>11, <1>13

-----------------------------------------------------------------------------
\* The types and the connections

LEMMA TypeStep == TypeOK /\ [Next]_vars => TypeOK'
<1> SUFFICES ASSUME TypeOK, [Next]_vars PROVE TypeOK'
  OBVIOUS
<1>1. ASSUME NEW c \in Clients, SendLine(c) PROVE TypeOK'
  <2>1. sent' \in [Clients -> Nat] /\ \A d \in Clients : taken[d] <= sent'[d] /\ sent'[d] <= MaxLines[d]
    BY <1>1 DEF SendLine, TypeOK
  <2>2. running' \in BOOLEAN
    BY <1>1, Zenon DEF SendLine, TypeOK, readVars
  <2> QED BY <2>1, <2>2, <1>1 DEF SendLine, TypeOK, readVars, writeVars
<1>2. ASSUME NEW c \in Clients, Receive(c) PROVE TypeOK'
  <2>1. wire[c] \in Seq(Segments) /\ wire[c] # <<>> /\ got[c] \in Seq(Segments) /\ Len(wire[c]) <= Room
    BY <1>2 DEF Receive, TypeOK
  <2>2. /\ Tail(wire[c]) \in Seq(Segments) /\ Append(got[c], Head(wire[c])) \in Seq(Segments)
        /\ Len(Tail(wire[c])) <= Room
    BY <2>1, HeadTailProperties
  <2>3. /\ got' \in [Clients -> Seq(Segments)] /\ wire' \in [Clients -> Seq(Segments)]
        /\ \A d \in Clients : Len(wire'[d]) <= Room
    BY <2>2, <1>2 DEF Receive, TypeOK
  <2>4. running' \in BOOLEAN
    BY <1>2, Zenon DEF Receive, TypeOK, readVars
  <2> QED BY <2>3, <2>4, <1>2 DEF Receive, TypeOK, readVars
<1>3. ASSUME NEW c \in Clients, Leave(c) PROVE TypeOK'
  <2>1. /\ got' \in [Clients -> Seq(Segments)] /\ wire' \in [Clients -> Seq(Segments)]
        /\ \A d \in Clients : Len(wire'[d]) <= Room
    BY <1>3 DEF Leave, TypeOK
  <2>2. running' \in BOOLEAN
    BY <1>3, Zenon DEF Leave, TypeOK, readVars
  <2> QED BY <2>1, <2>2, <1>3 DEF Leave, TypeOK, readVars
<1>4. ASSUME NEW c \in Clients, Accept(c) PROVE TypeOK'
  <2>1. running' \in BOOLEAN
    BY <1>4, Zenon DEF Accept, TypeOK
  <2>2. joined' \in [Clients -> [Clients -> Nat]]
    BY <1>4 DEF Accept, TypeOK
  <2> QED BY <2>1, <2>2, <1>4 DEF Accept, TypeOK, writeVars
<1>5. ASSUME NEW c \in Clients, AcceptFails(c) \/ ReadEnds(c) \/ Stop PROVE TypeOK'
  <2>1. running' \in BOOLEAN
    BY <1>5, Zenon DEF AcceptFails, ReadEnds, Stop, TypeOK, readVars
  <2> QED BY <2>1, <1>5 DEF AcceptFails, ReadEnds, Stop, TypeOK, clientVars, readVars, writeVars
<1>6. ASSUME NEW c \in Clients, ReadLine(c) PROVE TypeOK'
  <2>1. \A d \in Clients : /\ wire'[d] \in Seq(Segments) /\ Len(wire'[d]) <= Room
                           /\ waiting'[d] \in Seq(Writes) /\ posted'[d] \in Seq(Writes)
    <3> SUFFICES ASSUME NEW d \in Clients
                 PROVE  /\ wire'[d] \in Seq(Segments) /\ Len(wire'[d]) <= Room
                        /\ waiting'[d] \in Seq(Writes) /\ posted'[d] \in Seq(Writes)
      OBVIOUS
    <3>1. CASE d \in Others(c) /\ ~Refused(d)
      <4>1. PICK n \in 0..2 : Broadcast(c, d, n)
        BY <3>1, <1>6, ReadLineIs
      <4> QED BY <4>1, <1>6, BroadcastIs
    <3>2. CASE ~(d \in Others(c) /\ ~Refused(d))
      BY <3>2, <1>6, ReadLineIs DEF TypeOK
    <3> QED BY <3>1, <3>2
  <2>2. wire' \in [Clients -> Seq(Segments)] /\ waiting' \in [Clients -> Seq(Writes)] /\ posted' \in [Clients -> Seq(Writes)]
    <3>1. /\ wire' = [d \in Clients |-> wire'[d]] /\ waiting' = [d \in Clients |-> waiting'[d]]
          /\ posted' = [d \in Clients |-> posted'[d]]
      BY <1>6, ReadLineFrame
    <3> QED BY <2>1, <3>1
  <2>3. taken' \in [Clients -> Nat] /\ \A d \in Clients : taken'[d] <= sent[d]
    <3>1. taken[c] < sent[c]
      BY <1>6 DEF ReadLine
    <3>2. taken' = [taken EXCEPT ![c] = taken[c] + 1]
      BY <1>6, ReadLineFrame
    <3> QED BY <3>1, <3>2 DEF TypeOK
  <2>4. delayed' \subseteq Clients
    BY <1>6 DEF ReadLine, TypeOK, Others
  <2>5. UNCHANGED <<running, status, sent, got, connects, joined>> /\ reading' = reading
    BY <1>6, ReadLineFrame
  <2>6. running' \in BOOLEAN
    BY <2>5, Zenon DEF TypeOK
  <2> QED BY <2>1, <2>2, <2>3, <2>4, <2>5, <2>6 DEF TypeOK
<1>7. ASSUME NEW c \in Clients, WriteReady(c) \/ Continue(c) PROVE TypeOK'
  <2>1. PICK n \in 0..2 : \E s \in Seq(Segments) :
           /\ Len(s) = n /\ wire' = [wire EXCEPT ![c] = @ \o s]
           /\ wire[c] \o s \in Seq(Segments) /\ Len(wire[c] \o s) = Len(wire[c]) + n
           /\ Len(wire[c]) + n <= Room
           /\ waiting' \in [Clients -> Seq(Writes)] /\ posted' \in [Clients -> Seq(Writes)]
    <3>1. CASE WriteReady(c)
      BY <3>1, WriteReadyIs
    <3>2. CASE Continue(c)
      BY <3>2, ContinueIs
    <3> QED BY <3>1, <3>2, <1>7
  <2>2. wire' \in [Clients -> Seq(Segments)] /\ \A d \in Clients : Len(wire'[d]) <= Room
    BY <2>1 DEF TypeOK
  <2>3. UNCHANGED <<clientVars, readVars, delayed>>
    BY <1>7 DEF WriteReady, Continue
  <2>4. running' \in BOOLEAN
    BY <2>3, Zenon DEF TypeOK, readVars
  <2> QED BY <2>1, <2>2, <2>3, <2>4 DEF TypeOK, clientVars, readVars
<1>8. ASSUME NEW c \in Clients, WritesFail(c) PROVE TypeOK'
  <2>1. running' \in BOOLEAN
    BY <1>8, Zenon DEF WritesFail, TypeOK, readVars
  <2> QED BY <2>1, <1>8 DEF WritesFail, TypeOK, clientVars, readVars
<1>9. CASE UNCHANGED vars
  <2>1. running' \in BOOLEAN
    BY <1>9, Zenon DEF TypeOK, vars, readVars
  <2> QED BY <2>1, <1>9 DEF TypeOK, vars, clientVars, readVars, writeVars
<1>10. CASE Stop
  <2>1. running' \in BOOLEAN
    BY <1>10, Zenon DEF Stop
  <2> QED BY <2>1, <1>10 DEF Stop, TypeOK, clientVars, readVars, writeVars
<1> QED BY <1>1, <1>2, <1>3, <1>4, <1>5, <1>6, <1>7, <1>8, <1>9, <1>10
        DEF Next, ClientStep, ServerStep

\* Writing to one client leaves the others' streams alone.
LEMMA OthersUntouched ==
  ASSUME TypeOK, NEW c \in Clients, WriteReady(c) \/ Continue(c), NEW d \in Clients \ {c}
  PROVE  wire'[d] = wire[d] /\ waiting'[d] = waiting[d] /\ posted'[d] = posted[d]
<1>1. \E s : wire' = [wire EXCEPT ![c] = @ \o s]
  BY WriteReadyIs, ContinueIs
<1>2. waiting'[d] = waiting[d] /\ posted'[d] = posted[d]
  BY WriteReadyIs, ContinueIs
<1> QED BY <1>1, <1>2 DEF TypeOK

LEMMA PlaceStep == TypeOK /\ PlaceInv /\ [Next]_vars => PlaceInv'
<1> SUFFICES ASSUME TypeOK, PlaceInv, [Next]_vars PROVE PlaceInv'
  OBVIOUS
<1> USE DEF PlaceInv, NotConnected, Connected, WrittenAtOnce, JoinedBefore, clientVars, readVars, writeVars
<1>1. ASSUME NEW c \in Clients, SendLine(c) PROVE PlaceInv'
  BY <1>1 DEF SendLine
<1>2. ASSUME NEW c \in Clients, Receive(c) PROVE PlaceInv'
  BY <1>2 DEF Receive, TypeOK
<1>3. ASSUME NEW c \in Clients, Leave(c) PROVE PlaceInv'
  BY <1>3 DEF Leave, TypeOK
<1>4. ASSUME NEW c \in Clients, Accept(c) PROVE PlaceInv'
  BY <1>4 DEF Accept, TypeOK
<1>5. ASSUME NEW c \in Clients, AcceptFails(c) PROVE PlaceInv'
  BY <1>5 DEF AcceptFails, TypeOK
<1>6. ASSUME NEW c \in Clients, ReadEnds(c) PROVE PlaceInv'
  BY <1>6 DEF ReadEnds
<1>7. ASSUME NEW c \in Clients, ReadLine(c) PROVE PlaceInv'
  <2>1. UNCHANGED <<status, connects, got, joined>> /\ taken' = [taken EXCEPT ![c] = @ + 1]
    BY <1>7, ReadLineFrame
  <2>2. JoinedBefore'
    <3> SUFFICES ASSUME NEW d \in Clients, NEW e \in Clients PROVE joined'[d][e] <= taken'[e]
      OBVIOUS
    <3>1. taken[e] \in Nat /\ taken[c] \in Nat /\ joined[d][e] \in Nat /\ joined[d][e] <= taken[e]
      BY DEF TypeOK
    <3>2. taken'[e] = IF e = c THEN taken[c] + 1 ELSE taken[e]
      BY <2>1 DEF TypeOK
    <3> QED BY <2>1, <3>1, <3>2
  <2>3. NotConnected'
    <3> SUFFICES ASSUME NEW d \in Clients, status[d] = "asks"
                 PROVE  wire'[d] = <<>> /\ waiting'[d] = <<>> /\ posted'[d] = <<>>
      BY <2>1
    <3>1. d \notin Others(c)
      BY DEF Others
    <3> QED BY <3>1, <1>7, ReadLineIs
  <2>4. WrittenAtOnce'
    <3> SUFFICES ASSUME NEW d \in Clients, d \notin delayed', status[d] = "open"
                 PROVE  waiting'[d] = <<>> /\ posted'[d] = <<>>
      BY <2>1
    <3>1. CASE d \in Others(c) /\ ~Refused(d)
      <4>1. PICK n \in 0..2 : Broadcast(c, d, n)
        BY <3>1, <1>7, ReadLineIs
      <4> DEFINE write == [line |-> <<c, taken[c] + 1>>, next |-> 1]
      <4>2. /\ waiting'[d] = NowWaiting(d, write, n) /\ posted'[d] = NowPosted(posted[d], write, n)
            /\ d \notin delayed /\ Over(write, n)
        BY <4>1 DEF Broadcast
      <4>3. n = 2
        BY <4>2 DEF Over
      <4>4. waiting'[d] = waiting[d] /\ posted'[d] = posted[d]
        BY <4>2, <4>3 DEF NowWaiting, NowPosted
      <4> QED BY <4>2, <4>4
    <3>2. CASE ~(d \in Others(c) /\ ~Refused(d))
      BY <3>2, <1>7, ReadLineIs
    <3> QED BY <3>1, <3>2
  <2>5. Connected'
    BY <2>1
  <2> QED BY <2>2, <2>3, <2>4, <2>5
<1>8. ASSUME NEW c \in Clients, WriteReady(c) PROVE PlaceInv'
  <2>1. UNCHANGED <<status, connects, got, joined, taken, delayed>> /\ status[c] = "open" /\ c \in delayed
    BY <1>8 DEF WriteReady
  <2>2. \A d \in Clients \ {c} : wire'[d] = wire[d] /\ waiting'[d] = waiting[d] /\ posted'[d] = posted[d]
    BY <1>8, OthersUntouched
  <2> QED BY <2>1, <2>2
<1>9. ASSUME NEW c \in Clients, Continue(c) PROVE PlaceInv'
  <2>1. UNCHANGED <<status, connects, got, joined, taken, delayed>> /\ status[c] = "open" /\ c \in delayed
    BY <1>9 DEF Continue
  <2>2. \A d \in Clients \ {c} : wire'[d] = wire[d] /\ waiting'[d] = waiting[d] /\ posted'[d] = posted[d]
    BY <1>9, OthersUntouched
  <2> QED BY <2>1, <2>2
<1>10. ASSUME NEW c \in Clients, WritesFail(c) PROVE PlaceInv'
  BY <1>10 DEF WritesFail, TypeOK
<1>11. CASE Stop \/ UNCHANGED vars
  BY <1>11 DEF Stop, vars
<1> QED BY <1>1, <1>2, <1>3, <1>4, <1>5, <1>6, <1>7, <1>8, <1>9, <1>10, <1>11
        DEF Next, ClientStep, ServerStep

-----------------------------------------------------------------------------
\* What a step does to the stream of a client that is open after it: the stream
\* begins, stays as it is, or one more line is due.

Written(c) == Len(Stream(c)) + Left(waiting[c]) + Left(posted[c])

Begun(c) == /\ Stream(c)' = <<>> /\ Due(c)' = {}
            /\ waiting'[c] = <<>> /\ posted'[c] = <<>>

Kept(c) == /\ status[c] = "open" /\ Due(c)' = Due(c) /\ Written(c)' = Written(c)
           /\ c \notin delayed' => c \notin delayed /\ Stream(c)' = Stream(c)

Grown(c, line) ==
  /\ status[c] = "open" /\ Due(c)' = Due(c) \cup {line}
  /\ \A earlier \in Due(c) : earlier[1] = line[1] => earlier[2] < line[2]
  /\ Written(c)' = Written(c) + 2
  /\ c \notin delayed' => /\ c \notin delayed
                          /\ Stream(c)' = Stream(c) \o <<<<line, 1>>, <<line, 2>>>>

LEMMA StreamIs ==
  ASSUME TypeOK, NEW c \in Clients
  PROVE  Stream(c) \in Seq(Segments) /\ Len(Stream(c)) = Len(got[c]) + Len(wire[c])
<1>1. got[c] \in Seq(Segments) /\ wire[c] \in Seq(Segments)
  BY DEF TypeOK
<1> QED BY <1>1, ConcatProperties DEF Stream

\* A step that leaves alone what a client is sent.
LEMMA AloneIsKept ==
  ASSUME NEW c \in Clients, status[c] = "open", Stream(c)' = Stream(c), waiting'[c] = waiting[c],
         posted'[c] = posted[c], taken' = taken, joined'[c] = joined[c],
         c \notin delayed' => c \notin delayed
  PROVE  Kept(c)
<1>1. Due(c)' = Due(c)
  BY DEF Due
<1>2. Written(c)' = Written(c)
  BY DEF Written
<1> QED BY <1>1, <1>2 DEF Kept

LEMMA MoveHead ==
  ASSUME NEW S, NEW g \in Seq(S), NEW w \in Seq(S), w # <<>>
  PROVE  Append(g, Head(w)) \o Tail(w) = g \o w
<1> DEFINE h == Append(g, Head(w))
           t == Tail(w)
<1>1. /\ h \in Seq(S) /\ Len(h) = Len(g) + 1 /\ h[Len(g) + 1] = w[1]
      /\ \A i \in 1..Len(g) : h[i] = g[i]
  OBVIOUS
<1>2. t \in Seq(S) /\ Len(t) = Len(w) - 1 /\ \A i \in 1..Len(t) : t[i] = w[i + 1]
  BY HeadTailProperties
<1>3. Len(g) \in Nat /\ Len(w) \in Nat /\ Len(w) > 0
  OBVIOUS
<1> HIDE DEF h, t
<1>4. /\ h \o t \in Seq(S) /\ Len(h \o t) = Len(g) + Len(w)
      /\ \A i \in 1..Len(g) + Len(w) :
           (h \o t)[i] = IF i <= Len(g) + 1 THEN h[i] ELSE t[i - (Len(g) + 1)]
  <2>1. /\ h \o t \in Seq(S) /\ Len(h \o t) = Len(h) + Len(t)
        /\ \A i \in 1..Len(h) + Len(t) : (h \o t)[i] = IF i <= Len(h) THEN h[i] ELSE t[i - Len(h)]
    BY <1>1, <1>2, ConcatProperties
  <2>2. Len(h) + Len(t) = Len(g) + Len(w)
    BY <1>1, <1>2, <1>3
  <2> QED BY <2>1, <2>2, <1>1
<1>5. /\ g \o w \in Seq(S) /\ Len(g \o w) = Len(g) + Len(w)
      /\ \A i \in 1..Len(g) + Len(w) : (g \o w)[i] = IF i <= Len(g) THEN g[i] ELSE w[i - Len(g)]
  BY <1>3, ConcatProperties
<1>6. ASSUME NEW i \in 1..Len(g) + Len(w) PROVE (h \o t)[i] = (g \o w)[i]
  <2>1. CASE i <= Len(g)
    BY <2>1, <1>1, <1>3, <1>4, <1>5
  <2>2. CASE i = Len(g) + 1
    BY <2>2, <1>1, <1>3, <1>4, <1>5
  <2>3. CASE i > Len(g) + 1
    <3>1. i - (Len(g) + 1) \in 1..Len(t) /\ i - (Len(g) + 1) + 1 = i - Len(g)
      BY <2>3, <1>2, <1>3
    <3>2. t[i - (Len(g) + 1)] = w[i - Len(g)]
      BY <3>1, <1>2
    <3> QED BY <2>3, <3>2, <1>3, <1>4, <1>5
  <2>4. i <= Len(g) \/ i = Len(g) + 1 \/ i > Len(g) + 1
    BY <1>3
  <2> QED BY <2>1, <2>2, <2>3, <2>4
<1>7. h \o t = g \o w
  BY <1>4, <1>5, <1>6, SeqEqual
<1> QED BY <1>7 DEF h, t

\* Moving the first segment of a connection to its reader keeps the stream.
LEMMA ReceiveKeepsStream ==
  ASSUME TypeOK, NEW c \in Clients, Receive(c)
  PROVE  Stream(c)' = Stream(c)
<1>1. got[c] \in Seq(Segments) /\ wire[c] \in Seq(Segments) /\ wire[c] # <<>>
  BY DEF TypeOK, Receive
<1>2. got'[c] = Append(got[c], Head(wire[c])) /\ wire'[c] = Tail(wire[c])
  BY DEF TypeOK, Receive
<1>3. Append(got[c], Head(wire[c])) \o Tail(wire[c]) = got[c] \o wire[c]
  BY <1>1, MoveHead
<1> QED BY <1>2, <1>3, Zenon DEF Stream

\* A line that is read is due to everybody who is open but its sender.
LEMMA DueGrows ==
  ASSUME TypeOK, JoinedBefore, NEW c \in Clients, ReadLine(c), NEW d \in Clients
  PROVE  /\ d = c => Due(d)' = Due(d)
         /\ d # c => Due(d)' = Due(d) \cup {<<c, taken[c] + 1>>}
         /\ \A earlier \in Due(d) : earlier[1] = c => earlier[2] < taken[c] + 1
<1>1. taken[c] + 1 \in 1..MaxLines[c] /\ <<c, taken[c] + 1>> \in Lines
  BY MoreToRead, LinesAre
<1>2. /\ taken \in [Clients -> Nat] /\ joined' = joined /\ joined[d] \in [Clients -> Nat]
      /\ taken' = [taken EXCEPT ![c] = taken[c] + 1]
  BY ReadLineFrame DEF TypeOK
<1>3. joined[d][c] <= taken[c]
  BY DEF JoinedBefore
<1>4. ASSUME NEW line \in Lines
      PROVE  line \in Due(d)' <=> line \in Due(d) \/ (d # c /\ line = <<c, taken[c] + 1>>)
  <2>1. line[1] \in Clients /\ line[2] \in Nat /\ line = <<line[1], line[2]>>
    BY LinesAre
  <2>2. line \in Due(d)' <=> line[1] # d /\ line[2] \in joined[d][line[1]] + 1 .. taken'[line[1]]
    BY <1>2 DEF Due
  <2>3. line \in Due(d) <=> line[1] # d /\ line[2] \in joined[d][line[1]] + 1 .. taken[line[1]]
    BY DEF Due
  <2>4. CASE line[1] = c
    <3>1. taken'[line[1]] = taken[c] + 1 /\ taken[c] \in Nat /\ joined[d][c] \in Nat
      BY <1>2, <2>4
    <3>2. line = <<c, taken[c] + 1>> <=> line[2] = taken[c] + 1
      BY <2>1, <2>4
    <3> QED BY <3>1, <3>2, <1>3, <2>1, <2>2, <2>3, <2>4
  <2>5. CASE line[1] # c
    <3>1. taken'[line[1]] = taken[line[1]] /\ line # <<c, taken[c] + 1>>
      BY <1>2, <2>1, <2>5
    <3> QED BY <3>1, <2>2, <2>3
  <2> QED BY <2>4, <2>5
<1>5. Due(d)' \subseteq Lines /\ Due(d) \subseteq Lines
  BY DEF Due
<1>6. \A earlier \in Due(d) : earlier[1] = c => earlier[2] < taken[c] + 1
  <2> SUFFICES ASSUME NEW earlier \in Due(d), earlier[1] = c PROVE earlier[2] < taken[c] + 1
    OBVIOUS
  <2>1. earlier[2] \in joined[d][c] + 1 .. taken[c]
    BY DEF Due
  <2>2. taken[c] \in Nat /\ joined[d][c] \in Nat
    BY <1>2
  <2> QED BY <2>1, <2>2
<1> QED BY <1>1, <1>4, <1>5, <1>6

-----------------------------------------------------------------------------
\* Whole streams

\* Every line of a whole stream has both of its segments.
LEMMA WholeIsEven ==
  ASSUME NEW s \in Seq(Segments), NEW due, Whole(s, due)
  PROVE  Len(s) % 2 = 0
<1> SUFFICES ASSUME Len(s) % 2 # 0 PROVE FALSE
  OBVIOUS
<1>1. Len(s) \in Begins(s)
  <2>1. Len(s) \in Nat
    OBVIOUS
  <2>2. Len(s) % 2 = 1 /\ Len(s) >= 1
    BY <2>1
  <2> QED BY <2>1, <2>2 DEF Begins
<1>2. PICK line \in due : WholeAt(s, Len(s), line)
  BY <1>1 DEF Whole
<1> QED BY <1>2 DEF WholeAt

LEMMA OddPlaces ==
  ASSUME NEW n \in Nat, n % 2 = 0
  PROVE  /\ \A k \in 1..n : k % 2 = 1 => k < n /\ k + 1 \in 1..n
         /\ \A k \in 1..n + 2 : k % 2 = 1 <=> k = n + 1 \/ (k \in 1..n /\ k % 2 = 1)
<1>1. (n + 1) % 2 = 1 /\ (n + 2) % 2 = 0
  OBVIOUS
<1>2. ASSUME NEW k \in 1..n, k % 2 = 1 PROVE k < n /\ k + 1 \in 1..n
  <2>1. k # n
    BY <1>2
  <2> QED BY <2>1
<1>3. ASSUME NEW k \in 1..n + 2 PROVE k % 2 = 1 <=> k = n + 1 \/ (k \in 1..n /\ k % 2 = 1)
  <2>1. k \in 1..n \/ k = n + 1 \/ k = n + 2
    OBVIOUS
  <2> QED BY <1>1, <2>1
<1> QED BY <1>2, <1>3

LEMMA WholeOfNothing == Whole(<<>>, {})
  BY DEF Whole, Begins

\* One more line at the end of a whole stream, a later one of its sender.
LEMMA WholeOfMore ==
  ASSUME NEW s \in Seq(Segments), NEW due, Whole(s, due), NEW line \in Lines,
         \A earlier \in due : earlier[1] = line[1] => earlier[2] < line[2]
  PROVE  Whole(s \o <<<<line, 1>>, <<line, 2>>>>, due \cup {line})
<1> DEFINE two == <<<<line, 1>>, <<line, 2>>>>
           t == s \o two
           L == Len(s)
<1>1. /\ t \in Seq(Segments) /\ Len(t) = L + 2 /\ \A i \in 1..L : t[i] = s[i]
      /\ t[L + 1] = <<line, 1>> /\ t[L + 2] = <<line, 2>> /\ L \in Nat
  <2>1. <<line, 1>> \in Segments /\ <<line, 2>> \in Segments
    BY SegmentsAre
  <2>2. two \in Seq(Segments) /\ Len(two) = 2 /\ two[1] = <<line, 1>> /\ two[2] = <<line, 2>>
    BY <2>1
  <2>3. L \in Nat
    OBVIOUS
  <2> HIDE DEF two
  <2>4. /\ t \in Seq(Segments) /\ Len(t) = L + 2
        /\ \A i \in 1..L + 2 : t[i] = IF i <= L THEN s[i] ELSE two[i - L]
    <3>1. /\ t \in Seq(Segments) /\ Len(t) = Len(s) + Len(two)
          /\ \A i \in 1..Len(s) + Len(two) : t[i] = IF i <= Len(s) THEN s[i] ELSE two[i - Len(s)]
      BY <2>2, ConcatProperties
    <3> QED BY <3>1, <2>2
  <2>5. (L + 1) - L = 1 /\ (L + 2) - L = 2 /\ L + 1 \in 1..L + 2 /\ L + 2 \in 1..L + 2
    BY <2>3
  <2>6. \A i \in 1..L : i \in 1..L + 2 /\ i <= L
    BY <2>3
  <2>7. t[L + 1] = two[1] /\ t[L + 2] = two[2]
    BY <2>3, <2>4, <2>5
  <2> QED BY <2>2, <2>3, <2>4, <2>6, <2>7
<1>2. L % 2 = 0
  BY WholeIsEven
<1>3. \A k \in Begins(s) : k < L /\ k \in 1..L /\ k + 1 \in 1..L
  BY <1>1, <1>2, OddPlaces DEF Begins
<1> HIDE DEF t, two, L
<1>4. Begins(t) = Begins(s) \cup {L + 1} /\ \A k \in Begins(s) : k \in Nat /\ k < L + 1
  <2>1. Begins(s) = {k \in 1..L : k % 2 = 1} /\ Begins(t) = {k \in 1..L + 2 : k % 2 = 1}
    BY <1>1 DEF Begins, L
  <2>2. \A k \in 1..L + 2 : k % 2 = 1 <=> k = L + 1 \/ (k \in 1..L /\ k % 2 = 1)
    BY <1>1, <1>2, OddPlaces
  <2>3. L + 1 \in 1..L + 2 /\ \A k \in 1..L : k \in 1..L + 2 /\ k \in Nat /\ k < L + 1
    BY <1>1
  <2> QED BY <2>1, <2>2, <2>3
<1>5. ASSUME NEW k \in Begins(s), NEW m PROVE WholeAt(t, k, m) <=> WholeAt(s, k, m)
  <2>1. k < Len(s) /\ k < Len(t) /\ t[k] = s[k] /\ t[k + 1] = s[k + 1]
    BY <1>1, <1>3, <1>4 DEF L
  <2> QED BY <2>1 DEF WholeAt
<1>6. WholeAt(t, L + 1, line) /\ \A m : WholeAt(t, L + 1, m) => m = line
  <2>1. L + 1 < Len(t) /\ L + 1 + 1 = L + 2
    BY <1>1
  <2> QED BY <2>1, <1>1 DEF WholeAt
<1>7. ASSUME NEW k \in Begins(s), NEW m, WholeAt(s, k, m) PROVE m \in due
  <2>1. PICK n \in due : WholeAt(s, k, n)
    BY DEF Whole
  <2>2. s[k] = <<m, 1>> /\ s[k] = <<n, 1>>
    BY <1>7, <2>1 DEF WholeAt
  <2> QED BY <2>2
<1>8. ASSUME NEW k \in Begins(t) PROVE \E m \in due \cup {line} : WholeAt(t, k, m)
  <2>1. CASE k \in Begins(s)
    BY <2>1, <1>5 DEF Whole
  <2>2. CASE k = L + 1
    BY <2>2, <1>6
  <2> QED BY <2>1, <2>2, <1>4
<1>9. ASSUME NEW m \in due \cup {line} PROVE \E k \in Begins(t) : WholeAt(t, k, m)
  <2>1. CASE m \in due
    BY <2>1, <1>4, <1>5 DEF Whole
  <2>2. CASE m = line
    BY <2>2, <1>4, <1>6
  <2> QED BY <2>1, <2>2
<1>10. ASSUME NEW k \in Begins(t), NEW l \in Begins(t), NEW m \in due \cup {line}, NEW later \in due \cup {line},
              k < l, WholeAt(t, k, m), WholeAt(t, l, later), m[1] = later[1]
       PROVE  m[2] < later[2]
  <2>1. k \in Begins(s)
    <3>1. CASE k = L + 1
      BY <3>1, <1>1, <1>4, <1>10
    <3> QED BY <3>1, <1>4
  <2>2. WholeAt(s, k, m) /\ m \in due
    BY <2>1, <1>5, <1>7, <1>10
  <2>3. CASE l \in Begins(s)
    <3>1. WholeAt(s, l, later) /\ later \in due
      BY <2>3, <1>5, <1>7, <1>10
    <3> QED BY <2>1, <2>2, <2>3, <3>1, <1>10 DEF Whole
  <2>4. CASE l = L + 1
    <3>1. later = line
      BY <2>4, <1>6, <1>10
    <3> QED BY <3>1, <2>2, <1>10
  <2> QED BY <2>3, <2>4, <1>4
<1>11. Whole(t, due \cup {line})
  BY <1>8, <1>9, <1>10 DEF Whole
<1> QED BY <1>11 DEF t, two

-----------------------------------------------------------------------------
\* Every step begins, keeps or grows the stream of each client

LEMMA StreamGrows ==
  ASSUME NEW g \in Seq(Segments), NEW w \in Seq(Segments), NEW v \in Seq(Segments)
  PROVE  g \o (w \o v) = (g \o w) \o v
  BY ConcatAssociative

LEMMA LengthsAdd ==
  ASSUME NEW g \in Seq(Segments), NEW w \in Seq(Segments)
  PROVE  Len(g \o w) = Len(g) + Len(w) /\ Len(g) \in Nat /\ Len(w) \in Nat
  BY ConcatProperties

LEMMA ReadLineGrows ==
  ASSUME TypeOK, PlaceInv, NEW c \in Clients, ReadLine(c), NEW d \in Clients, status'[d] = "open"
  PROVE  /\ <<c, taken[c] + 1>> \in Lines
         /\ IF d = c THEN Kept(d) ELSE Grown(d, <<c, taken[c] + 1>>)
<1> DEFINE line == <<c, taken[c] + 1>>
<1>1. status[d] = "open" /\ got' = got /\ joined' = joined /\ line \in Lines
  BY ReadLineFrame, MoreToRead, LinesAre
<1>2. CASE d = c
  <2>1. d \notin Others(c)
    BY <1>2 DEF Others
  <2>2. /\ wire'[d] = wire[d] /\ waiting'[d] = waiting[d] /\ posted'[d] = posted[d]
        /\ d \notin delayed' => d \notin delayed
    BY <2>1, ReadLineIs
  <2>3. Stream(d)' = Stream(d)
    BY <1>1, <2>2 DEF Stream
  <2>4. Due(d)' = Due(d)
    BY <1>2, DueGrows DEF PlaceInv
  <2>5. Written(d)' = Written(d)
    BY <2>2, <2>3 DEF Written
  <2>6. Kept(d)
    BY <1>1, <2>2, <2>3, <2>4, <2>5 DEF Kept
  <2> QED BY <1>1, <1>2, <2>6
<1>3. CASE d # c
  <2>1. d \in Others(c) /\ ~Refused(d)
    BY <1>1, <1>3 DEF Others, Refused, PlaceInv, Connected
  <2>2. PICK n \in 0..2 : Broadcast(c, d, n)
    BY <2>1, ReadLineIs
  <2>3. /\ Due(d)' = Due(d) \cup {line}
        /\ \A earlier \in Due(d) : earlier[1] = c => earlier[2] < taken[c] + 1
    BY <1>3, DueGrows DEF PlaceInv
  <2>4. /\ wire'[d] \in Seq(Segments) /\ Len(wire'[d]) = Len(wire[d]) + n
        /\ waiting'[d] \in Seq(Writes) /\ posted'[d] \in Seq(Writes)
        /\ n + Left(waiting'[d]) + Left(posted'[d]) = 2 + Left(waiting[d]) + Left(posted[d])
    BY <2>2, BroadcastIs
  <2>5. Written(d)' = Written(d) + 2
    <3>1. got[d] \in Seq(Segments) /\ wire[d] \in Seq(Segments) /\ waiting[d] \in Seq(Writes) /\ posted[d] \in Seq(Writes)
      BY DEF TypeOK
    <3> DEFINE g == got[d]
               w == wire[d]
               v == wire'[d]
               a == Left(waiting[d])
               b == Left(posted[d])
               e == Left(waiting'[d])
               f == Left(posted'[d])
    <3>2. a \in Int /\ b \in Int /\ e \in Int /\ f \in Int
      BY <3>1, <2>4, LeftIsInt, Zenon
    <3>3. /\ g \in Seq(Segments) /\ w \in Seq(Segments) /\ v \in Seq(Segments)
          /\ Len(v) = Len(w) + n /\ n + e + f = 2 + a + b
      BY <3>1, <2>4
    <3>4. Written(d) = Len(g \o w) + a + b /\ Written(d)' = Len(g \o v) + e + f
      BY <1>1, Zenon DEF Written, Stream
    <3> HIDE DEF g, w, v, a, b, e, f
    <3>5. n \in Nat /\ 2 \in Int
      OBVIOUS
    <3>6. Len(g \o v) = Len(g) + Len(v) /\ Len(g \o w) = Len(g) + Len(w)
      BY <3>3, LengthsAdd
    <3>7. Len(g) + Len(v) + e + f = Len(g) + Len(w) + a + b + 2
      <4>1. Len(g) \in Int /\ Len(v) \in Int /\ Len(w) \in Int
        BY <3>3, LengthsAdd
      <4>2. Len(v) = Len(w) + n /\ n + e + f = 2 + a + b
        BY <3>3
      <4> QED BY <3>2, <3>5, <4>1, <4>2, SMT
    <3> QED BY <3>2, <3>4, <3>6, <3>7
  <2>6. ASSUME d \notin delayed'
        PROVE  d \notin delayed /\ Stream(d)' = Stream(d) \o <<<<line, 1>>, <<line, 2>>>>
    <3> DEFINE write == [line |-> line, next |-> 1]
               two == <<<<line, 1>>, <<line, 2>>>>
    <3>1. d \notin delayed /\ Over(write, n) /\ wire'[d] = wire[d] \o [k \in 1..n |-> <<line, k>>]
      BY <2>2, <2>6 DEF Broadcast
    <3>2. n = 2
      BY <3>1 DEF Over
    <3>3. [k \in 1..2 |-> <<line, k>>] = two
      OBVIOUS
    <3>4. wire'[d] = wire[d] \o two
      BY <3>1, <3>2, <3>3
    <3>5. <<line, 1>> \in Segments /\ <<line, 2>> \in Segments
      BY <1>1, SegmentsAre
    <3>6. two \in Seq(Segments) /\ got[d] \in Seq(Segments) /\ wire[d] \in Seq(Segments)
      BY <3>5 DEF TypeOK
    <3> HIDE DEF two
    <3>7. got[d] \o (wire[d] \o two) = (got[d] \o wire[d]) \o two
      BY <3>6, StreamGrows
    <3>8. Stream(d)' = Stream(d) \o two
      BY <1>1, <3>4, <3>7 DEF Stream
    <3> QED BY <3>1, <3>8 DEF two
  <2>7. line[1] = c /\ line[2] = taken[c] + 1
    OBVIOUS
  <2> HIDE DEF line
  <2>8. Grown(d, line)
    BY <1>1, <2>3, <2>5, <2>6, <2>7 DEF Grown
  <2> QED BY <1>1, <1>3, <2>8 DEF line
<1> QED BY <1>2, <1>3

\* A write that goes on later moves segments from a queue to the connection.
LEMMA LaterWriteIsKept ==
  ASSUME TypeOK, PlaceInv, NEW c \in Clients, WriteReady(c) \/ Continue(c),
         NEW d \in Clients, status'[d] = "open"
  PROVE  Kept(d)
<1>1. /\ got' = got /\ joined' = joined /\ taken' = taken /\ delayed' = delayed /\ status' = status
      /\ waiting[c] # <<>> \/ posted[c] # <<>>
  BY DEF WriteReady, Continue, clientVars, readVars
<1>2. PICK n \in 0..2 : \E s \in Seq(Segments) :
         /\ Len(s) = n /\ wire' = [wire EXCEPT ![c] = @ \o s]
         /\ wire[c] \o s \in Seq(Segments) /\ Len(wire[c] \o s) = Len(wire[c]) + n
         /\ waiting' \in [Clients -> Seq(Writes)] /\ posted' \in [Clients -> Seq(Writes)]
         /\ \A e \in Clients \ {c} : waiting'[e] = waiting[e] /\ posted'[e] = posted[e]
         /\ n + Left(waiting'[c]) + Left(posted'[c]) = Left(waiting[c]) + Left(posted[c])
  <2>1. CASE WriteReady(c)
    BY <2>1, WriteReadyIs
  <2>2. CASE Continue(c)
    BY <2>2, ContinueIs
  <2> QED BY <2>1, <2>2
<1>3. CASE d # c
  <2>1. wire'[d] = wire[d] /\ waiting'[d] = waiting[d] /\ posted'[d] = posted[d]
    BY <1>2, <1>3 DEF TypeOK
  <2>2. Stream(d)' = Stream(d)
    BY <1>1, <2>1 DEF Stream
  <2> QED BY <1>1, <2>1, <2>2, AloneIsKept
<1>4. CASE d = c
  <2>1. c \in delayed /\ status[c] = "open"
    BY <1>1, <1>4 DEF PlaceInv, WrittenAtOnce
  <2>2. PICK s \in Seq(Segments) : wire'[c] = wire[c] \o s /\ wire'[c] \in Seq(Segments) /\ Len(wire'[c]) = Len(wire[c]) + n
    BY <1>2 DEF TypeOK
  <2>3. /\ got[c] \in Seq(Segments) /\ wire[c] \in Seq(Segments) /\ waiting[c] \in Seq(Writes) /\ posted[c] \in Seq(Writes)
        /\ waiting'[c] \in Seq(Writes) /\ posted'[c] \in Seq(Writes)
    BY <1>2 DEF TypeOK
  <2>8. Written(c)' = Written(c)
    <3> DEFINE g == got[c]
               w == wire[c]
               v == wire'[c]
               a == Left(waiting[c])
               b == Left(posted[c])
               e == Left(waiting'[c])
               f == Left(posted'[c])
    <3>1. a \in Int /\ b \in Int /\ e \in Int /\ f \in Int
      BY <2>3, LeftIsInt, Zenon
    <3>2. /\ g \in Seq(Segments) /\ w \in Seq(Segments) /\ v \in Seq(Segments)
          /\ Len(v) = Len(w) + n /\ n + e + f = a + b
      BY <1>2, <2>2, <2>3
    <3>3. Written(c) = Len(g \o w) + a + b /\ Written(c)' = Len(g \o v) + e + f
      BY <1>1, Zenon DEF Written, Stream
    <3> HIDE DEF g, w, v, a, b, e, f
    <3>4. n \in Nat 
      OBVIOUS
    <3>5. Len(g \o v) = Len(g) + Len(v) /\ Len(g \o w) = Len(g) + Len(w)
      BY <3>2, LengthsAdd
    <3>6. Len(g) + Len(v) + e + f = Len(g) + Len(w) + a + b
      <4>1. Len(g) \in Int /\ Len(v) \in Int /\ Len(w) \in Int
        BY <3>2, LengthsAdd
      <4>2. Len(v) = Len(w) + n /\ n + e + f = a + b
        BY <3>2
      <4> QED BY <3>1, <3>4, <4>1, <4>2, SMT
    <3> QED BY <3>1, <3>3, <3>5, <3>6
  <2>9. Due(c)' = Due(c)
    BY <1>1 DEF Due
  <2> QED BY <1>1, <1>4, <2>1, <2>8, <2>9 DEF Kept
<1> QED BY <1>3, <1>4

\* Only a line that is read makes a stream grow.
LEMMA QuietStep ==
  ASSUME TypeOK, PlaceInv, [Next]_vars, ~\E c \in Clients : ReadLine(c),
         NEW d \in Clients, status'[d] = "open"
  PROVE  Begun(d) \/ Kept(d)
<1> USE DEF clientVars, readVars, writeVars
<1>1. ASSUME NEW c \in Clients, Receive(c) PROVE Kept(d)
  <2>1. Stream(d)' = Stream(d)
    <3>1. CASE d = c
      BY <3>1, <1>1, ReceiveKeepsStream
    <3>2. CASE d # c
      BY <3>2, <1>1 DEF Receive, Stream, TypeOK
    <3> QED BY <3>1, <3>2
  <2> QED BY <1>1, <2>1, AloneIsKept DEF Receive
<1>2. ASSUME NEW c \in Clients, SendLine(c) \/ Leave(c) \/ AcceptFails(c) \/ ReadEnds(c) \/ WritesFail(c)
      PROVE  Kept(d)
  <2>1. /\ got'[d] = got[d] /\ wire'[d] = wire[d] /\ waiting'[d] = waiting[d] /\ posted'[d] = posted[d]
        /\ taken' = taken /\ joined' = joined /\ status[d] = "open" /\ (d \notin delayed' => d \notin delayed)
    BY <1>2 DEF SendLine, Leave, AcceptFails, ReadEnds, WritesFail, TypeOK
  <2>2. Stream(d)' = Stream(d)
    BY <2>1 DEF Stream
  <2> QED BY <2>1, <2>2, AloneIsKept
<1>3. CASE Stop \/ UNCHANGED vars
  <2>1. /\ got'[d] = got[d] /\ wire'[d] = wire[d] /\ waiting'[d] = waiting[d] /\ posted'[d] = posted[d]
        /\ taken' = taken /\ joined' = joined /\ status[d] = "open" /\ delayed' = delayed
    BY <1>3 DEF Stop, vars
  <2>2. Stream(d)' = Stream(d)
    BY <2>1 DEF Stream
  <2> QED BY <2>1, <2>2, AloneIsKept
<1>4. ASSUME NEW c \in Clients, Accept(c) PROVE Begun(d) \/ Kept(d)
  <2>1. /\ got' = got /\ wire' = wire /\ waiting' = waiting /\ posted' = posted
        /\ taken' = taken /\ delayed' = delayed /\ joined' = [joined EXCEPT ![c] = taken]
        /\ status[c] = "asks" /\ status' = [status EXCEPT ![c] = "open"]
    BY <1>4 DEF Accept
  <2>2. CASE d # c
    <3>1. joined'[d] = joined[d] /\ status[d] = "open" /\ Stream(d)' = Stream(d)
      BY <2>1, <2>2 DEF TypeOK, Stream
    <3> QED BY <2>1, <3>1, AloneIsKept
  <2>3. CASE d = c
    <3>1. got[c] = <<>> /\ wire[c] = <<>> /\ waiting[c] = <<>> /\ posted[c] = <<>> /\ joined'[c] = taken
      BY <2>1 DEF PlaceInv, NotConnected, TypeOK
    <3>2. Stream(c)' = <<>>
      BY <2>1, <3>1 DEF Stream
    <3>3. Due(c)' = {}
      <4>1. \A line \in Lines : taken[line[1]] \in Nat
        BY LinesAre DEF TypeOK
      <4> QED BY <2>1, <3>1, <4>1 DEF Due
    <3> QED BY <2>1, <2>3, <3>1, <3>2, <3>3 DEF Begun
  <2> QED BY <2>2, <2>3
<1>5. ASSUME NEW c \in Clients, WriteReady(c) \/ Continue(c) PROVE Kept(d)
  BY <1>5, LaterWriteIsKept
<1> QED BY <1>1, <1>2, <1>3, <1>4, <1>5 DEF Next, ClientStep, ServerStep

LEMMA StreamStep ==
  ASSUME TypeOK, PlaceInv, [Next]_vars, NEW d \in Clients, status'[d] = "open"
  PROVE  Begun(d) \/ Kept(d) \/ \E line \in Lines : Grown(d, line)
<1>1. ASSUME NEW c \in Clients, ReadLine(c)
      PROVE  Kept(d) \/ \E line \in Lines : Grown(d, line)
  BY <1>1, ReadLineGrows
<1> QED BY <1>1, QuietStep

-----------------------------------------------------------------------------
\* The streams of the invariant

LEMMA WholeStep ==
  TypeOK /\ PlaceInv /\ LinesArriveWhole /\ [Next]_vars => LinesArriveWhole'
<1> SUFFICES ASSUME TypeOK, PlaceInv, LinesArriveWhole, [Next]_vars,
                    NEW d \in Clients, d \notin delayed', status'[d] = "open"
             PROVE  Whole(Stream(d)', Due(d)')
  BY DEF LinesArriveWhole, WholeLinesTo
<1>1. CASE Begun(d)
  BY <1>1, WholeOfNothing DEF Begun
<1>2. CASE Kept(d)
  BY <1>2 DEF Kept, LinesArriveWhole, WholeLinesTo
<1>3. ASSUME NEW line \in Lines, Grown(d, line) PROVE Whole(Stream(d)', Due(d)')
  <2>1. Whole(Stream(d), Due(d)) /\ Stream(d) \in Seq(Segments)
    BY <1>3, StreamIs DEF Grown, LinesArriveWhole, WholeLinesTo
  <2>2. Whole(Stream(d) \o <<<<line, 1>>, <<line, 2>>>>, Due(d) \cup {line})
    BY <1>3, <2>1, WholeOfMore DEF Grown
  <2> QED BY <1>3, <2>2 DEF Grown
<1> QED BY <1>1, <1>2, <1>3, StreamStep

LEMMA CountStep ==
  TypeOK /\ PlaceInv /\ DueFinite /\ NoSegmentLost /\ [Next]_vars => DueFinite' /\ NoSegmentLost'
<1> SUFFICES ASSUME TypeOK, PlaceInv, DueFinite, NoSegmentLost, [Next]_vars,
                    NEW d \in Clients, status'[d] = "open"
             PROVE  IsFiniteSet(Due(d)') /\ Written(d)' = 2 * Cardinality(Due(d)')
  BY DEF DueFinite, NoSegmentLost, Written, Owed
<1>1. CASE Begun(d)
  <2>1. Len(<<>>) = 0 /\ Left(<<>>) = 0 /\ IsFiniteSet({}) /\ Cardinality({}) = 0
    BY LeftOfNone, FS_EmptySet
  <2>2. Written(d)' = Len(<<>>) + Left(<<>>) + Left(<<>>)
    BY <1>1 DEF Begun, Written
  <2> QED BY <1>1, <2>1, <2>2 DEF Begun
<1>2. CASE Kept(d)
  BY <1>2 DEF Kept, DueFinite, NoSegmentLost, Written, Owed
<1>3. ASSUME NEW line \in Lines, Grown(d, line)
      PROVE  IsFiniteSet(Due(d)') /\ Written(d)' = 2 * Cardinality(Due(d)')
  <2>1. IsFiniteSet(Due(d)) /\ Written(d) = 2 * Cardinality(Due(d))
    BY <1>3 DEF Grown, DueFinite, NoSegmentLost, Written, Owed
  <2>2. line \notin Due(d)
    <3>1. line[2] \in Nat
      BY LinesAre
    <3> QED BY <3>1, <1>3 DEF Grown
  <2>3. IsFiniteSet(Due(d) \cup {line}) /\ Cardinality(Due(d) \cup {line}) = Cardinality(Due(d)) + 1
    BY <2>1, <2>2, FS_AddElement
  <2>4. Cardinality(Due(d)) \in Nat
    BY <2>1, FS_CardinalityType
  <2>5. Written(d)' = Written(d) + 2 /\ Due(d)' = Due(d) \cup {line}
    BY <1>3 DEF Grown
  <2> QED BY <2>1, <2>3, <2>4, <2>5
<1> QED BY <1>1, <1>2, <1>3, StreamStep

\* The invariant holds of every behaviour of the messager.
THEOREM MessagerInvariant == Spec => []MessagerInv
<1>1. MessagerInv /\ [Next]_vars => MessagerInv'
  BY TypeStep, PlaceStep, WholeStep, CountStep DEF MessagerInv
<1> QED BY MessagerInit, <1>1, PTL DEF Spec

\* Every variable keeps its type: no connection is given more than it has room for.
THEOREM TypeCorrect == Spec => []TypeOK
<1>1. MessagerInv => TypeOK
  BY DEF MessagerInv
<1> QED BY MessagerInvariant, <1>1, PTL

\* A client for whom every write of Connection::write was done at once has got,
\* whole and in each sender's order, the lines read since it was accepted.
THEOREM LinesAreWhole == Spec => []LinesArriveWhole
<1>1. MessagerInv => LinesArriveWhole
  BY DEF MessagerInv
<1> QED BY MessagerInvariant, <1>1, PTL

\* However slowly a client reads, the composed writes neither drop nor repeat a
\* segment of what broadcast sends it.
THEOREM SegmentsAreKept == Spec => []NoSegmentLost
<1>1. MessagerInv => NoSegmentLost
  BY DEF MessagerInv
<1> QED BY MessagerInvariant, <1>1, PTL

-----------------------------------------------------------------------------
\* One conversation

Ordered(s, t) ==
  \A i, j \in DOMAIN s, k, l \in DOMAIN t : i < j /\ s[i] = t[k] /\ s[j] = t[l] => k < l

\* The end of a stream to which the new segments a and b may have been added.
MayGrow(s, more, a, b) == more = s \/ more = s \o <<a, b>>

LEMMA EndIs ==
  ASSUME NEW S, NEW s \in Seq(S), NEW a \in S, NEW b \in S, NEW more, MayGrow(s, more, a, b)
  PROVE  /\ Len(s) \in Nat /\ DOMAIN s = 1..Len(s)
         /\ \A i \in DOMAIN s : i \in DOMAIN more /\ more[i] = s[i]
         /\ \A i \in DOMAIN more :
              i \in 1..Len(s) \/ (i = Len(s) + 1 /\ more[i] = a) \/ (i = Len(s) + 2 /\ more[i] = b)
<1>1. Len(s) \in Nat /\ DOMAIN s = 1..Len(s)
  OBVIOUS
<1>2. CASE more = s
  BY <1>1, <1>2
<1>3. CASE more = s \o <<a, b>>
  <2> DEFINE two == <<a, b>>
  <2>1. two \in Seq(S) /\ Len(two) = 2 /\ two[1] = a /\ two[2] = b
    OBVIOUS
  <2> HIDE DEF two
  <2>2. /\ more \in Seq(S) /\ Len(more) = Len(s) + 2
        /\ \A i \in 1..Len(s) + 2 : more[i] = IF i <= Len(s) THEN s[i] ELSE two[i - Len(s)]
    BY <1>3, <2>1, ConcatProperties DEF two
  <2>3. DOMAIN more = 1..Len(s) + 2
    BY <2>2
  <2>4. \A i \in 1..Len(s) : more[i] = s[i]
    BY <1>1, <2>2
  <2>5. more[Len(s) + 1] = a /\ more[Len(s) + 2] = b
    BY <1>1, <2>1, <2>2
  <2> QED BY <1>1, <2>3, <2>4, <2>5
<1> QED BY <1>2, <1>3 DEF MayGrow

LEMMA OrderedGrows ==
  ASSUME NEW S, NEW s \in Seq(S), NEW t \in Seq(S), NEW a \in S, NEW b \in S, a # b,
         \A i \in DOMAIN s : s[i] # a /\ s[i] # b, \A i \in DOMAIN t : t[i] # a /\ t[i] # b,
         Ordered(s, t), NEW more, MayGrow(s, more, a, b), NEW other, MayGrow(t, other, a, b)
  PROVE  Ordered(more, other)
<1> SUFFICES ASSUME NEW i \in DOMAIN more, NEW j \in DOMAIN more,
                    NEW k \in DOMAIN other, NEW l \in DOMAIN other,
                    i < j, more[i] = other[k], more[j] = other[l]
             PROVE  k < l
  BY Zenon DEF Ordered
<1>1. PICK m \in Nat, n \in Nat : m = Len(s) /\ n = Len(t)
  OBVIOUS
<1>2. /\ DOMAIN s = 1..m /\ \A h \in 1..m : more[h] = s[h]
      /\ \A h \in DOMAIN more : h \in 1..m \/ (h = m + 1 /\ more[h] = a) \/ (h = m + 2 /\ more[h] = b)
  BY <1>1, EndIs
<1>3. /\ DOMAIN t = 1..n /\ \A h \in 1..n : other[h] = t[h]
      /\ \A h \in DOMAIN other : h \in 1..n \/ (h = n + 1 /\ other[h] = a) \/ (h = n + 2 /\ other[h] = b)
  BY <1>1, EndIs
<1>4. \A h \in 1..m : more[h] # a /\ more[h] # b
  BY <1>2
<1>5. \A h \in 1..n : other[h] # a /\ other[h] # b
  BY <1>3
<1>6. CASE j \in 1..m
  <2>1. i \in 1..m
    BY <1>2, <1>6
  <2>2. k \in 1..n /\ l \in 1..n
    BY <1>3, <1>4, <1>6, <2>1
  <2> QED BY <1>2, <1>3, <1>6, <2>1, <2>2 DEF Ordered
<1>7. CASE j = m + 1 /\ more[j] = a
  <2>1. i \in 1..m
    BY <1>2, <1>7
  <2>2. k \in 1..n
    BY <1>3, <1>4, <2>1
  <2>3. l = n + 1
    BY <1>3, <1>5, <1>7
  <2> QED BY <2>2, <2>3
<1>8. CASE j = m + 2 /\ more[j] = b
  <2>1. more[i] # b
    BY <1>2, <1>4, <1>8
  <2>2. k \in 1..n \/ k = n + 1
    BY <1>3, <2>1
  <2>3. l = n + 2
    BY <1>3, <1>5, <1>8
  <2> QED BY <2>2, <2>3
<1> QED BY <1>2, <1>6, <1>7, <1>8

\* What is in a stream of whole lines are halves of lines that are due.
LEMMA HalvesOfDue ==
  ASSUME NEW S, NEW s \in Seq(S), NEW due, Whole(s, due), NEW i \in DOMAIN s
  PROVE  \E line \in due : s[i] = <<line, 1>> \/ s[i] = <<line, 2>>
<1>1. PICK n \in Nat : n = Len(s) /\ DOMAIN s = 1..n
  OBVIOUS
<1>2. i \in 1..n /\ (i % 2 = 1 \/ (i - 1 \in 1..n /\ (i - 1) % 2 = 1))
  BY <1>1
<1>3. CASE i % 2 = 1
  <2>1. i \in Begins(s)
    BY <1>1, <1>2, <1>3 DEF Begins
  <2> QED BY <2>1 DEF Whole, WholeAt
<1>4. CASE i - 1 \in 1..n /\ (i - 1) % 2 = 1
  <2>1. i - 1 \in Begins(s) /\ (i - 1) + 1 = i
    BY <1>1, <1>2, <1>4 DEF Begins
  <2> QED BY <2>1 DEF Whole, WholeAt
<1> QED BY <1>2, <1>3, <1>4

\* A line that is read now is in no stream yet.
LEMMA NewInStream ==
  ASSUME TypeOK, PlaceInv, LinesArriveWhole, NEW c \in Clients, ReadLine(c),
         NEW d \in Clients, d \notin delayed, status[d] = "open", NEW i \in DOMAIN Stream(d)
  PROVE  Stream(d)[i] # <<<<c, taken[c] + 1>>, 1>> /\ Stream(d)[i] # <<<<c, taken[c] + 1>>, 2>>
<1>1. Whole(Stream(d), Due(d)) /\ Stream(d) \in Seq(Segments)
  BY StreamIs DEF LinesArriveWhole, WholeLinesTo
<1>2. PICK line \in Due(d) : Stream(d)[i] = <<line, 1>> \/ Stream(d)[i] = <<line, 2>>
  BY <1>1, HalvesOfDue
<1>3. line \in Lines /\ line[2] \in joined[d][line[1]] + 1 .. taken[line[1]]
  BY DEF Due
<1>4. line[1] \in Clients /\ taken[c] \in Nat
  BY <1>3, LinesAre DEF TypeOK
<1>5. line # <<c, taken[c] + 1>>
  BY <1>3, <1>4
<1> QED BY <1>2, <1>5

\* What reading a line does to a client that keeps up.
LEMMA StreamMayGrow ==
  ASSUME TypeOK, PlaceInv, NEW c \in Clients, ReadLine(c),
         NEW d \in Clients, d \notin delayed', status'[d] = "open"
  PROVE  /\ d \notin delayed /\ status[d] = "open"
         /\ MayGrow(Stream(d), Stream(d)', <<<<c, taken[c] + 1>>, 1>>, <<<<c, taken[c] + 1>>, 2>>)
<1>1. CASE Kept(d)
  BY <1>1 DEF Kept, MayGrow
<1>2. CASE Grown(d, <<c, taken[c] + 1>>)
  BY <1>2 DEF Grown, MayGrow
<1> QED BY <1>1, <1>2, ReadLineGrows

LEMMA ConversationStep ==
  TypeOK /\ PlaceInv /\ LinesArriveWhole /\ OneConversation /\ [Next]_vars => OneConversation'
<1> SUFFICES ASSUME TypeOK, PlaceInv, LinesArriveWhole, OneConversation, [Next]_vars,
                    NEW c \in Clients, c \notin delayed', status'[c] = "open",
                    NEW d \in Clients, d \notin delayed', status'[d] = "open"
             PROVE  Ordered(Stream(c)', Stream(d)')
  BY DEF OneConversation, Ordered
<1>1. ASSUME c \notin delayed, status[c] = "open", d \notin delayed, status[d] = "open"
      PROVE  Ordered(Stream(c), Stream(d))
  BY <1>1 DEF OneConversation, Ordered
<1>2. ASSUME NEW e \in Clients, ReadLine(e) PROVE Ordered(Stream(c)', Stream(d)')
  <2> DEFINE a == <<<<e, taken[e] + 1>>, 1>>
             b == <<<<e, taken[e] + 1>>, 2>>
  <2>1. /\ c \notin delayed /\ status[c] = "open" /\ MayGrow(Stream(c), Stream(c)', a, b)
        /\ d \notin delayed /\ status[d] = "open" /\ MayGrow(Stream(d), Stream(d)', a, b)
    BY <1>2, StreamMayGrow
  <2>2. /\ \A i \in DOMAIN Stream(c) : Stream(c)[i] # a /\ Stream(c)[i] # b
        /\ \A i \in DOMAIN Stream(d) : Stream(d)[i] # a /\ Stream(d)[i] # b
    BY <1>2, <2>1, NewInStream
  <2>3. a \in Segments /\ b \in Segments /\ a # b
    <3>1. <<e, taken[e] + 1>> \in Lines
      BY <1>2, MoreToRead, LinesAre
    <3> QED BY <3>1, SegmentsAre
  <2>4. Stream(c) \in Seq(Segments) /\ Stream(d) \in Seq(Segments)
    BY StreamIs
  <2>5. Ordered(Stream(c), Stream(d))
    BY <1>1, <2>1
  <2> HIDE DEF a, b
  <2> QED BY <2>1, <2>2, <2>3, <2>4, <2>5, OrderedGrows
<1>3. CASE ~\E e \in Clients : ReadLine(e)
  <2>1. (Begun(c) \/ Kept(c)) /\ (Begun(d) \/ Kept(d))
    BY <1>3, QuietStep
  <2>2. CASE Begun(c) \/ Begun(d)
    <3>1. Stream(c)' = <<>> \/ Stream(d)' = <<>>
      BY <2>2 DEF Begun
    <3>2. DOMAIN <<>> = {}
      OBVIOUS
    <3> QED BY <3>1, <3>2 DEF Ordered
  <2>3. CASE Kept(c) /\ Kept(d)
    BY <1>1, <2>3 DEF Kept
  <2> QED BY <2>1, <2>2, <2>3
<1> QED BY <1>2, <1>3

\* Two clients that keep up hear the lines of the others in the same order.
THEOREM ConversationIsOne == Spec => []OneConversation
<1>1. Init => OneConversation
  BY DEF Init, OneConversation
<1>2. MessagerInv /\ OneConversation /\ [Next]_vars => OneConversation'
  BY ConversationStep DEF MessagerInv
<1> QED BY <1>1, <1>2, MessagerInvariant, PTL DEF Spec

-----------------------------------------------------------------------------
\* The messager is a chat room

Heard == [c \in Clients |-> IF c \in delayed THEN <<>> ELSE Stream(c)]

\* The connections and queues of a client may change if its stream does not.
LEMMA HeardKept ==
  ASSUME delayed' = delayed, \A c \in Clients : Stream(c)' = Stream(c) \/ c \in delayed
  PROVE  Heard' = Heard
  BY DEF Heard

LEMMA StreamsKept ==
  ASSUME got' = got, wire' = wire
  PROVE  \A c \in Clients : Stream(c)' = Stream(c)
  BY DEF Stream

\* A line that is read and broadcast is relayed to those who keep up.
LEMMA ReadIsRelay ==
  ASSUME MessagerInv, NEW c \in Clients, running, ReadLine(c)
  PROVE  Chat!Relay(c)
<1> DEFINE line == <<c, taken[c] + 1>>
           to == {d \in Others(c) : ~Refused(d)}
<1>1. TypeOK /\ PlaceInv
  BY DEF MessagerInv
<1>2. /\ taken' = [taken EXCEPT ![c] = taken[c] + 1] /\ taken'[c] = taken[c] + 1
      /\ UNCHANGED <<running, status, sent, reading, got>>
      /\ c \in reading /\ taken[c] < sent[c]
  BY <1>1, ReadLineFrame DEF ReadLine, TypeOK
<1>3. \E late \in SUBSET to : delayed' = delayed \cup late
  BY DEF ReadLine
<1>4. to = Chat!Hearers(c)
  BY <1>1 DEF Chat!Hearers, Others, Refused, TypeOK, PlaceInv, Connected, NotConnected
<1>5. ASSUME NEW d \in Clients, d \notin delayed', d \in to
      PROVE  d \notin delayed /\ Stream(d)' = Stream(d) \o Chat!Halves(line)
  <2>1. d # c /\ status'[d] = "open"
    BY <1>2, <1>4, <1>5 DEF Chat!Hearers
  <2>2. Grown(d, line)
    BY <1>1, <2>1, ReadLineGrows
  <2> QED BY <1>5, <2>2 DEF Grown, Chat!Halves
<1>6. ASSUME NEW d \in Clients, d \notin delayed', d \notin to
      PROVE  d \notin delayed /\ Stream(d)' = Stream(d)
  <2>1. wire'[d] = wire[d] /\ d \notin delayed
    BY <1>1, <1>6, ReadLineIs
  <2> QED BY <1>2, <2>1 DEF Stream
<1> HIDE DEF line, to
<1>7. Heard' = [d \in Clients |->
        IF d \in delayed' THEN <<>>
        ELSE IF d \in Chat!Hearers(c) THEN Heard[d] \o Chat!Halves(<<c, taken'[c]>>) ELSE Heard[d]]
  <2> SUFFICES ASSUME NEW d \in Clients
               PROVE  (IF d \in delayed' THEN <<>> ELSE Stream(d)') =
                        IF d \in delayed' THEN <<>>
                        ELSE IF d \in Chat!Hearers(c)
                             THEN Heard[d] \o Chat!Halves(<<c, taken'[c]>>) ELSE Heard[d]
    BY DEF Heard
  <2>1. <<c, taken'[c]>> = line
    BY <1>2 DEF line
  <2>2. d \notin delayed => Heard[d] = Stream(d)
    BY DEF Heard
  <2> QED BY <1>4, <1>5, <1>6, <2>1, <2>2
<1> QED BY <1>2, <1>3, <1>4, <1>7 DEF Chat!Relay, Heard

\* Every step of the messager is one of the room, or changes nothing in it.
THEOREM MessagerIsChatRoom == Spec => ImplementsChatRoom
<1>1. Init => Chat!Init
  <2> SUFFICES ASSUME Init PROVE Chat!Init
    OBVIOUS
  <2>1. \A c \in Clients : Stream(c) = <<>>
    BY DEF Init, Stream
  <2> QED BY <2>1 DEF Init, Chat!Init
<1>2. MessagerInv /\ [Next]_vars => [Chat!Next]_(Chat!vars)
  <2> SUFFICES ASSUME MessagerInv, [Next]_vars PROVE Chat!Next \/ UNCHANGED Chat!vars
    OBVIOUS
  <2> USE DEF clientVars, readVars, writeVars
  <2>t. TypeOK /\ PlaceInv
    BY DEF MessagerInv
  <2>1. ASSUME NEW c \in Clients, SendLine(c) PROVE Chat!Say(c)
    <3>1. Heard' = Heard
      BY <2>1, HeardKept, StreamsKept DEF SendLine
    <3> QED BY <2>1, <3>1 DEF SendLine, Chat!Say, Heard
  <2>2. ASSUME NEW c \in Clients, Receive(c) PROVE UNCHANGED Chat!vars
    <3>1. \A d \in Clients \ {c} : Stream(d)' = Stream(d)
      BY <2>2, <2>t DEF Receive, Stream, TypeOK
    <3>2. Heard' = Heard
      BY <2>2, <2>t, <3>1, ReceiveKeepsStream, HeardKept DEF Receive
    <3> QED BY <2>2, <3>2 DEF Receive, Chat!vars, Heard
  <2>3. ASSUME NEW c \in Clients, Leave(c) PROVE Chat!Leave(c)
    <3>0. /\ got \in [Clients -> Seq(Segments)] /\ wire \in [Clients -> Seq(Segments)]
          /\ got' = [got EXCEPT ![c] = <<>>] /\ wire' = [wire EXCEPT ![c] = <<>>]
      BY <2>3, <2>t DEF Leave, TypeOK
    <3>1. Stream(c)' = <<>> /\ \A d \in Clients \ {c} : Stream(d)' = Stream(d)
      BY <3>0 DEF Stream
    <3>2. Heard' = [Heard EXCEPT ![c] = <<>>]
      BY <2>3, <3>1 DEF Leave, Heard
    <3> QED BY <2>3, <3>2 DEF Leave, Chat!Leave, Heard
  <2>4. ASSUME NEW c \in Clients, running, Accept(c) PROVE Chat!Enter(c)
    <3>1. Heard' = Heard
      BY <2>4, HeardKept, StreamsKept DEF Accept
    <3> QED BY <2>4, <3>1 DEF Accept, Chat!Enter, Heard
  <2>5. ASSUME NEW c \in Clients, running, AcceptFails(c) PROVE Chat!Refuse(c)
    <3>1. Heard' = Heard
      BY <2>5, HeardKept, StreamsKept DEF AcceptFails
    <3> QED BY <2>5, <3>1 DEF AcceptFails, Chat!Refuse, Heard
  <2>6. ASSUME NEW c \in Clients, running, ReadEnds(c) PROVE Chat!Forget(c)
    <3>1. Heard' = Heard
      BY <2>6, HeardKept, StreamsKept DEF ReadEnds
    <3> QED BY <2>6, <3>1 DEF ReadEnds, Chat!Forget, Heard
  <2>7. ASSUME NEW c \in Clients, WriteReady(c) \/ Continue(c) PROVE UNCHANGED Chat!vars
    <3>1. UNCHANGED <<running, status, sent, taken, reading, delayed, got>> /\ c \in delayed
      BY <2>7, <2>t DEF WriteReady, Continue, PlaceInv, WrittenAtOnce
    <3>2. \A d \in Clients \ {c} : Stream(d)' = Stream(d)
      BY <2>7, <2>t, <3>1, OthersUntouched DEF Stream
    <3>3. Heard' = Heard
      BY <3>1, <3>2, HeardKept
    <3> QED BY <3>1, <3>3 DEF Chat!vars, Heard
  <2>8. ASSUME NEW c \in Clients, WritesFail(c) PROVE UNCHANGED Chat!vars
    <3>1. Heard' = Heard
      BY <2>8, HeardKept, StreamsKept DEF WritesFail
    <3> QED BY <2>8, <3>1 DEF WritesFail, Chat!vars, Heard
  <2>9. CASE Stop
    <3>1. Heard' = Heard
      BY <2>9, HeardKept, StreamsKept DEF Stop
    <3> QED BY <2>9, <3>1 DEF Stop, Chat!Next, Chat!Close, Heard
  <2>10. CASE UNCHANGED vars
    <3>1. Heard' = Heard
      BY <2>10, HeardKept, StreamsKept DEF vars
    <3> QED BY <2>10, <3>1 DEF vars, Chat!vars, Heard
  <2>11. ASSUME NEW c \in Clients, running, ReadLine(c) PROVE Chat!Relay(c)
    BY <2>11, ReadIsRelay
  <2> QED BY <2>1, <2>2, <2>3, <2>4, <2>5, <2>6, <2>7, <2>8, <2>9, <2>10, <2>11
          DEF Next, ClientStep, ServerStep, Chat!Next
<1> QED BY <1>1, <1>2, MessagerInvariant, PTL DEF Spec, ImplementsChatRoom, Chat!Spec
=============================================================================
