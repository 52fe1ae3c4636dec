------------------------------ MODULE ChatRoom ------------------------------
(***************************************************************************)
(* What messager-cpp promises, with no buffers, no reactor and no writes in  *)
(* it: a line that the server relays is heard whole, at once and by          *)
(* everybody else in the room, so that there is one conversation.  A client  *)
(* that falls behind may hear anything until it leaves: the room does not    *)
(* speak of it any more.                                                     *)
(***************************************************************************)
EXTENDS Integers, Sequences

CONSTANT Clients

VARIABLES
  running,   \* the server relays
  status,    \* status[c]: "asks" to come in, "open" when in the room, "left"
  said,      \* said[c]: the lines that c has said; line i of c is <<c, i>>
  relayed,   \* relayed[c]: those of them that were relayed
  speakers,  \* the clients to whom the server listens
  heard,     \* heard[c]: what c has heard, or is sure to hear, in halves of lines
  behind     \* the clients that fell behind

vars == <<running, status, said, relayed, speakers, heard, behind>>

Init ==
  /\ running = TRUE
  /\ status = [c \in Clients |-> "asks"]
  /\ said = [c \in Clients |-> 0] /\ relayed = [c \in Clients |-> 0]
  /\ heard = [c \in Clients |-> <<>>]
  /\ speakers = {} /\ behind = {}

Enter(c) ==
  /\ running /\ status[c] = "asks"
  /\ status' = [status EXCEPT ![c] = "open"]
  /\ speakers' = speakers \cup {c}
  /\ UNCHANGED <<running, said, relayed, heard, behind>>

Refuse(c) ==
  /\ running /\ status[c] = "asks"
  /\ status' = [status EXCEPT ![c] = "left"]
  /\ UNCHANGED <<running, said, relayed, speakers, heard, behind>>

\* A client says a line (send_message of client.cpp), also before it has come in.
Say(c) ==
  /\ status[c] # "left"
  /\ said' = [said EXCEPT ![c] = @ + 1]
  /\ UNCHANGED <<running, status, relayed, speakers, heard, behind>>

Halves(line) == <<<<line, 1>>, <<line, 2>>>>
Hearers(c) == {d \in Clients \ {c} : status[d] = "open"}

\* A client may be relayed after it has left, but what it said is in its order.
Relay(c) ==
  /\ running /\ c \in speakers /\ relayed[c] < said[c]
  /\ relayed' = [relayed EXCEPT ![c] = @ + 1]
  /\ \E late \in SUBSET Hearers(c) : behind' = behind \cup late
  /\ heard' = [d \in Clients |->
       IF d \in behind' THEN <<>>
       ELSE IF d \in Hearers(c) THEN heard[d] \o Halves(<<c, relayed'[c]>>)
       ELSE heard[d]]
  /\ UNCHANGED <<running, status, said, speakers>>

Leave(c) ==
  /\ status[c] = "open"
  /\ status' = [status EXCEPT ![c] = "left"]
  /\ heard' = [heard EXCEPT ![c] = <<>>]
  /\ behind' = behind \ {c}
  /\ UNCHANGED <<running, said, relayed, speakers>>

Forget(c) ==
  /\ running /\ c \in speakers /\ status[c] = "left"
  /\ speakers' = speakers \ {c}
  /\ UNCHANGED <<running, status, said, relayed, heard, behind>>

Close ==
  /\ running /\ running' = FALSE
  /\ UNCHANGED <<status, said, relayed, speakers, heard, behind>>

Next == \/ Close
        \/ \E c \in Clients : \/ Enter(c) \/ Refuse(c) \/ Say(c)
                              \/ Relay(c) \/ Leave(c) \/ Forget(c)

Spec == Init /\ [][Next]_vars
=============================================================================
