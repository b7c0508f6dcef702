--------------------------- MODULE QueueChatProofs ---------------------------
(***************************************************************************)
(* Invariants of QueueChat, for any number of clients, any table and any   *)
(* room in the queues.  They all rest on the order in which a client and   *)
(* the server meet: the INNIT of a client is the first thing the server    *)
(* hears of it, it is sent once, and nothing is sent to a client before    *)
(* its INNIT is answered.                                                  *)
(***************************************************************************)
EXTENDS QueueChat, FiniteSetTheorems, SequenceTheorems, TLAPS

USE ChatAssumption

Answers ==
  [type : {"SUCCES", "FAILURE", "NEW_MESSAGE", "STOP"}, client_id : Slots]

\* What is known of the server in each location.
ServerShape ==
  \/ server.at \in {"loop", "exited", "failed"}
  \/ /\ server.at = "accepting"
     /\ server \in [at : {"accepting"}, target : Clients, client_id : Slots]
  \/ /\ server.at = "answering"
     /\ server \in [at : {"answering"}, type : {"LIST", "_2ONE"}, target : Clients]
  \/ /\ server.at = "sending"
     /\ server \in [at : {"sending"}, slot : Slots, client_id : Slots]
  \/ /\ server.at = "stopping"
     /\ server \in [at : {"stopping"}, slot : 0..MAX_CLIENTS]

Shape ==
  /\ TypeOK
  /\ ServerShape
  /\ outbox \in [Clients -> Seq(Answers)]

\* The server has answered the INNIT of c, or c is gone.
Met(c) ==
  /\ pc[c] # "starting"
  /\ pc[c] = "connecting" => outbox[c] # <<>>

\* A client that has not sent anything has not been sent anything either.
StartsEmpty ==
  \A c \in Clients : pc[c] = "starting" => outbox[c] = <<>>

\* The INNIT of a client is the only one, and comes before all it sends later.
InnitFirst ==
  \A n \in DOMAIN inbox :
    LET c == inbox[n].key
    IN  IF inbox[n].type = "INNIT"
          THEN /\ pc[c] \in {"connecting", "gone"}
               /\ pc[c] = "connecting" => outbox[c] = <<>>
               /\ \A i \in Slots : queues[i] # c
               /\ \A m \in DOMAIN inbox :
                    inbox[m].type = "INNIT" /\ inbox[m].key = c => m = n
          ELSE pc[c] \notin {"starting", "connecting"}

\* The table and the answer at hand are about clients the server has heard of
\* and met.
TableHeard   == \A i \in Occupied : pc[queues[i]] # "starting"
TargetMet    == server.at = "answering" => Met(server.target)

\* Between the table and SUCCES, the client has got nothing yet, and its INNIT
\* is not in the queue any more.
AcceptedWaits ==
  server.at = "accepting" =>
    LET c == server.target
    IN  /\ pc[c] \in {"connecting", "gone"}
        /\ pc[c] = "connecting" => outbox[c] = <<>>
        /\ \A n \in DOMAIN inbox : ~(inbox[n].type = "INNIT" /\ inbox[n].key = c)

\* A client has one slot.
OneSlot ==
  \A i, j \in Occupied : queues[i] = queues[j] => i = j

Inv ==
  /\ Shape
  /\ StartsEmpty
  /\ InnitFirst
  /\ TableHeard
  /\ TargetMet
  /\ AcceptedWaits
  /\ OneSlot
  /\ RefusedOnlyWhenFull
  /\ AnswerComesFirst
  /\ SlotIsClientId
  /\ ListWillBeAnswered

-----------------------------------------------------------------------------
(* The first free slot is a free slot.                                     *)
LEMMA LowestIsIn ==
  ASSUME NEW S \in SUBSET Slots, S # {}
  PROVE  Lowest(S) \in S
<1> DEFINE R == OpToRel(<, Nat)
<1>1. IsWellFoundedOn(R, Nat)
  BY NatLessThanWellFounded
<1>2. \A x, y \in Nat : <<x, y>> \notin R => y <= x
  BY DEF OpToRel
<1>3. S \subseteq Nat
  BY DEF Slots
<1> HIDE DEF R
<1>4. PICK x \in S : \A y \in S : ~(<<y, x>> \in R)
  BY <1>1, <1>3, WFMin
<1>5. \A y \in S : x <= y
  BY <1>2, <1>3, <1>4
<1> QED BY <1>4, <1>5, Zenon DEF Lowest

(* The slots in use are finitely many.                                     *)
LEMMA OccupiedFinite ==
  ASSUME NEW S \in SUBSET Slots
  PROVE  IsFiniteSet(S) /\ Cardinality(S) \in Nat /\ Cardinality(S) <= MAX_CLIENTS
<1>1. IsFiniteSet(Slots) /\ Cardinality(Slots) = MAX_CLIENTS
  BY FS_Interval DEF Slots
<1> QED BY <1>1, FS_Subset, FS_CardinalityType

LEMMA KeysAreClients ==
  ASSUME NEW q \in Seq(Requests)
  PROVE  \A n \in DOMAIN q : q[n].key \in Clients
<1>1. \A n \in DOMAIN q : q[n] \in Requests
  BY ElementOfSeq
<1> QED BY <1>1 DEF Requests

(* What a receive leaves in the server's queue.                            *)
LEMMA Received ==
  ASSUME Inv, NEW types, Receive(types)
  PROVE  /\ server.at = "loop"
         /\ 1 \in DOMAIN inbox /\ Head(inbox) = inbox[1]
         /\ Head(inbox) \in Requests /\ Head(inbox).type \in types
         /\ inbox' \in Seq(Requests) /\ Len(inbox') <= ServerRoom
         /\ \A n \in DOMAIN inbox' :
              n + 1 \in DOMAIN inbox /\ n + 1 # 1 /\ inbox'[n] = inbox[n + 1]
         /\ \A n \in DOMAIN inbox : n # 1 => n - 1 \in DOMAIN inbox'
                                            /\ inbox'[n - 1] = inbox[n]
<1>1. inbox \in Seq(Requests) /\ inbox # <<>> /\ Len(inbox) <= ServerRoom
  BY DEF Inv, Shape, TypeOK, Receive
<1>2. inbox' = Tail(inbox)
  BY DEF Receive
<1>3. /\ inbox' \in Seq(Requests) /\ Len(inbox') = Len(inbox) - 1
      /\ \A n \in 1..Len(inbox') : inbox'[n] = inbox[n + 1]
      /\ Len(inbox) \in Nat \ {0}
      /\ DOMAIN inbox = 1..Len(inbox) /\ DOMAIN inbox' = 1..Len(inbox')
  BY <1>1, <1>2, HeadTailProperties, LenProperties
<1> QED BY <1>1, <1>3 DEF Receive

(* A send appends, or does nothing.                                        *)
LEMMA Sent ==
  ASSUME Shape, NEW c \in Clients, NEW m \in Answers, Send(c, m)
  PROVE  /\ outbox' \in [Clients -> Seq(Answers)]
         /\ \A d \in Clients : Len(outbox'[d]) <= ClientRoom
         /\ \A d \in Clients : d # c => outbox'[d] = outbox[d]
         /\ outbox[c] # <<>> => outbox'[c] # <<>> /\ Head(outbox'[c]) = Head(outbox[c])
         /\ outbox[c] = <<>> /\ pc[c] # "gone"
              => outbox'[c] # <<>> /\ Head(outbox'[c]) = m
         /\ \A n \in DOMAIN outbox[c] :
              n \in DOMAIN outbox'[c] /\ outbox'[c][n] = outbox[c][n]
         /\ pc[c] # "gone" /\ ~Full(c)
              => \E n \in DOMAIN outbox'[c] : outbox'[c][n] = m
<1>1. /\ outbox \in [Clients -> Seq(Answers)]
      /\ \A d \in Clients : Len(outbox[d]) <= ClientRoom
  BY DEF Shape, TypeOK
<1>2. CASE Removed(c) \/ Full(c)
  <2>1. outbox' = outbox
    BY <1>2 DEF Send
  <2>2. outbox[c] = <<>> => pc[c] = "gone"
    BY <1>1, <1>2 DEF Removed, Full
  <2> QED BY <1>1, <1>2, <2>1, <2>2 DEF Removed
<1>3. CASE ~Removed(c) /\ ~Full(c)
  <2>1. outbox' = [outbox EXCEPT ![c] = Append(outbox[c], m)]
    BY <1>3 DEF Send
  <2> DEFINE s == outbox[c]
             t == Append(s, m)
  <2>2. /\ s \in Seq(Answers) /\ Len(s) \in Nat /\ Len(s) < ClientRoom
        /\ DOMAIN s = 1..Len(s)
    BY <1>1, <1>3 DEF Full
  <2>3. /\ t \in Seq(Answers) /\ t # <<>> /\ Len(t) = Len(s) + 1
        /\ DOMAIN t = 1..Len(t) /\ t[Len(t)] = m
        /\ \A n \in 1..Len(s) : t[n] = s[n]
    BY <2>2, AppendProperties
  <2>4. /\ s # <<>> => Head(t) = Head(s)
        /\ s = <<>> => Head(t) = m
    BY <2>2, HeadTailAppend
  <2> HIDE DEF t
  <2>5. outbox'[c] = t /\ \A d \in Clients : d # c => outbox'[d] = outbox[d]
    BY <1>1, <2>1 DEF t
  <2>6. outbox' \in [Clients -> Seq(Answers)]
    BY <1>1, <2>1, <2>3 DEF t
  <2>7. \A d \in Clients : Len(outbox'[d]) <= ClientRoom
    BY <1>1, <2>2, <2>3, <2>5
  <2> QED BY <2>2, <2>3, <2>4, <2>5, <2>6, <2>7
<1> QED BY <1>2, <1>3

\* A step of the server that sends at most one message, to a client it has met
\* or as the answer to its INNIT, if it is not STOP.
Sends ==
  \/ UNCHANGED outbox
  \/ \E c \in Clients, m \in Answers :
       /\ Send(c, m)
       /\ pc[c] # "starting"
       /\ Met(c) \/ m.type \in {"SUCCES", "FAILURE", "STOP"}

\* Nothing leaves the queue of a client, and nothing gets in front.
Grown ==
  \A c \in Clients :
    /\ outbox[c] # <<>> => outbox'[c] # <<>> /\ Head(outbox'[c]) = Head(outbox[c])
    /\ \A n \in DOMAIN outbox[c] :
         n \in DOMAIN outbox'[c] /\ outbox'[c][n] = outbox[c][n]
    /\ Met(c) => Met(c)'

(* What the server sends does not come before the answer to INNIT.         *)
LEMMA SendsKeep ==
  ASSUME Inv, Sends, UNCHANGED clients
  PROVE  /\ StartsEmpty' /\ AnswerComesFirst' /\ Grown
         /\ outbox' \in [Clients -> Seq(Answers)]
         /\ \A c \in Clients : Len(outbox'[c]) <= ClientRoom
<1>1. /\ pc' = pc /\ Shape /\ StartsEmpty /\ AnswerComesFirst
      /\ outbox \in [Clients -> Seq(Answers)]
      /\ \A c \in Clients : Len(outbox[c]) <= ClientRoom
  BY DEF Inv, Shape, TypeOK, clients
<1>2. CASE UNCHANGED outbox
  BY <1>1, <1>2 DEF StartsEmpty, AnswerComesFirst, Grown, Met
<1>3. ASSUME NEW c \in Clients, NEW m \in Answers, Send(c, m), pc[c] # "starting",
             Met(c) \/ m.type \in {"SUCCES", "FAILURE", "STOP"}
      PROVE  /\ StartsEmpty' /\ AnswerComesFirst' /\ Grown
             /\ outbox' \in [Clients -> Seq(Answers)]
             /\ \A d \in Clients : Len(outbox'[d]) <= ClientRoom
  <2>1. /\ outbox' \in [Clients -> Seq(Answers)]
        /\ \A d \in Clients : Len(outbox'[d]) <= ClientRoom
        /\ \A d \in Clients : d # c => outbox'[d] = outbox[d]
        /\ outbox[c] # <<>> => outbox'[c] # <<>> /\ Head(outbox'[c]) = Head(outbox[c])
        /\ outbox[c] = <<>> /\ pc[c] # "gone" => outbox'[c] # <<>> /\ Head(outbox'[c]) = m
        /\ \A n \in DOMAIN outbox[c] :
             n \in DOMAIN outbox'[c] /\ outbox'[c][n] = outbox[c][n]
    BY <1>1, <1>3, Sent
  <2>2. StartsEmpty'
    BY <1>1, <1>3, <2>1 DEF StartsEmpty
  <2>3. AnswerComesFirst'
    BY <1>1, <1>3, <2>1 DEF AnswerComesFirst, Met
  <2>4. Grown
    BY <1>1, <1>3, <2>1 DEF Grown, Met
  <2> QED BY <2>1, <2>2, <2>3, <2>4
<1> QED BY <1>2, <1>3 DEF Sends

\* A client that was in the table without knowing it is told, or the server
\* stops.
Settled ==
  \A i \in Untold :
    LET c == queues[i]
    IN  \/ outbox'[c] # <<>> /\ Head(outbox'[c]) = Msg("SUCCES", i)
        \/ outbox'[c] = <<>> /\ server'.at \in {"stopping", "exited", "failed"}

(* Between two requests every client in the table is told of it.           *)
LEMMA UntoldNone ==
  ASSUME Inv, server.at \in {"loop", "answering", "sending"}
  PROVE  Untold = {} /\ Settled
<1>1. Untold = {}
  BY DEF Inv, SlotIsClientId
<1> QED BY <1>1 DEF Settled

(* Slots are only left, and the clients that keep theirs stay as they are  *)
(* or are told.                                                            *)
LEMMA SlotsKept ==
  ASSUME Inv, Grown, UNCHANGED clients,
         \A i \in Occupied' : i \in Occupied /\ queues'[i] = queues[i],
         \A i \in Untold \cap Occupied' :
           LET c == queues[i]
           IN  \/ outbox'[c] # <<>> /\ Head(outbox'[c]) = Msg("SUCCES", i)
               \/ outbox'[c] = <<>> /\ server'.at \in {"stopping", "exited", "failed"}
  PROVE  TableHeard' /\ OneSlot' /\ SlotIsClientId'
<1>1. /\ pc' = pc /\ client_id' = client_id
      /\ \A i \in Occupied : queues[i] \in Clients
  BY DEF Inv, Shape, TypeOK, Occupied, clients
<1>2. TableHeard' /\ OneSlot'
  BY <1>1 DEF Inv, TableHeard, OneSlot
<1>3. \A i \in Untold' : i \in Untold /\ outbox'[queues[i]] = <<>>
  BY <1>1 DEF Untold, Grown
<1>4. \A i \in Untold : Untold = {i}
  BY DEF Inv, SlotIsClientId
<1>5. \A i \in Untold' :
        /\ Untold' = {i}
        /\ server'.at \in {"stopping", "exited", "failed"}
  BY <1>3, <1>4 DEF Untold
<1>6. ASSUME NEW i \in Occupied' \ Untold'
      PROVE  LET c == queues[i]
             IN  \/ pc[c] = "gone"
                 \/ pc[c] = "connecting" /\ Head(outbox'[c]) = Msg("SUCCES", i)
                 \/ pc[c] # "connecting" /\ client_id[c] = i
  <2>1. CASE i \in Untold
    BY <1>1, <1>6, <2>1 DEF Untold
  <2>2. CASE i \notin Untold
    <3>1. \/ pc[queues[i]] = "gone"
          \/ pc[queues[i]] = "connecting" /\ Head(outbox[queues[i]]) = Msg("SUCCES", i)
          \/ pc[queues[i]] # "connecting" /\ client_id[queues[i]] = i
      BY <1>6, <2>2 DEF Inv, SlotIsClientId
    <3>2. pc[queues[i]] = "connecting" => Head(outbox'[queues[i]]) = Head(outbox[queues[i]])
      BY <1>1, <1>6, <2>2 DEF Untold, Grown
    <3> QED BY <3>1, <3>2
  <2> QED BY <2>1, <2>2
<1>7. SlotIsClientId'
  BY <1>1, <1>5, <1>6 DEF SlotIsClientId
<1> QED BY <1>2, <1>7

(* Nobody's place in the table changes.                                    *)
LEMMA QuietKeeps ==
  ASSUME Inv, Sends, Settled, queues' = queues, UNCHANGED clients
  PROVE  TableHeard' /\ OneSlot' /\ SlotIsClientId'
<1>1. Grown /\ Occupied' = Occupied
  BY SendsKeep DEF Occupied
<1> QED BY <1>1, SlotsKept DEF Settled

(* The INNITs that are left are still the first messages of their clients. *)
LEMMA ReceiveKeepsInnit ==
  ASSUME Inv, NEW types, Receive(types), Sends, UNCHANGED clients,
         \A c \in Clients : (\E i \in Slots : queues'[i] = c) =>
            \/ \E i \in Slots : queues[i] = c
            \/ Head(inbox).type = "INNIT" /\ Head(inbox).key = c,
         \A c \in Clients : outbox'[c] # outbox[c] =>
            Met(c) \/ (Head(inbox).type = "INNIT" /\ Head(inbox).key = c)
  PROVE  InnitFirst'
<1>1. /\ InnitFirst /\ pc' = pc /\ inbox \in Seq(Requests)
  BY DEF Inv, Shape, TypeOK, clients
<1>2. /\ 1 \in DOMAIN inbox /\ Head(inbox) = inbox[1]
      /\ inbox' \in Seq(Requests)
      /\ \A n \in DOMAIN inbox' :
           n + 1 \in DOMAIN inbox /\ n + 1 # 1 /\ inbox'[n] = inbox[n + 1]
  BY Received
<1> SUFFICES ASSUME NEW n \in DOMAIN inbox'
             PROVE  LET c == inbox'[n].key
                    IN  IF inbox'[n].type = "INNIT"
                          THEN /\ pc[c] \in {"connecting", "gone"}
                               /\ pc[c] = "connecting" => outbox'[c] = <<>>
                               /\ \A i \in Slots : queues'[i] # c
                               /\ \A m \in DOMAIN inbox' :
                                    inbox'[m].type = "INNIT" /\ inbox'[m].key = c => m = n
                          ELSE pc[c] \notin {"starting", "connecting"}
  BY <1>1 DEF InnitFirst
<1> DEFINE c == inbox'[n].key
<1>3. /\ n + 1 \in DOMAIN inbox /\ n + 1 # 1 /\ inbox'[n] = inbox[n + 1]
      /\ c \in Clients /\ n \in Nat /\ c = inbox[n + 1].key
  <2>1. n \in Nat /\ inbox'[n] \in Requests
    BY <1>2, ElementOfSeq
  <2> QED BY <1>2, <2>1 DEF Requests
<1> HIDE DEF c
<1>4. CASE inbox'[n].type # "INNIT"
  BY <1>1, <1>3, <1>4 DEF InnitFirst, c
<1>5. CASE inbox'[n].type = "INNIT"
  <2>1. /\ pc[c] \in {"connecting", "gone"}
        /\ pc[c] = "connecting" => outbox[c] = <<>>
        /\ \A i \in Slots : queues[i] # c
        /\ \A m \in DOMAIN inbox :
             inbox[m].type = "INNIT" /\ inbox[m].key = c => m = n + 1
    BY <1>1, <1>3, <1>5 DEF InnitFirst
  <2>2. ~(Head(inbox).type = "INNIT" /\ Head(inbox).key = c)
    BY <1>2, <1>3, <2>1
  <2>3. pc[c] = "connecting" => outbox'[c] = <<>>
    BY <1>3, <2>1, <2>2 DEF Met
  <2>4. \A i \in Slots : queues'[i] # c
    BY <1>3, <2>1, <2>2
  <2>5. \A m \in DOMAIN inbox' :
          inbox'[m].type = "INNIT" /\ inbox'[m].key = c => m = n
    <3> TAKE m \in DOMAIN inbox'
    <3>1. m \in Nat /\ m + 1 \in DOMAIN inbox /\ inbox'[m] = inbox[m + 1]
      BY <1>2
    <3> QED BY <1>3, <2>1, <3>1
  <2> QED BY <1>5, <2>1, <2>3, <2>4, <2>5 DEF c
<1> QED BY <1>4, <1>5

(* A request for the list that is taken from the queue is being answered.  *)
LEMMA ReceiveKeepsList ==
  ASSUME Inv, NEW types, Receive(types), Sends, UNCHANGED clients,
         Head(inbox).type = "LIST" =>
           /\ server'.at = "answering" /\ server'.type = "LIST"
           /\ server'.target = Head(inbox).key
  PROVE  ListWillBeAnswered'
<1>1. /\ ListWillBeAnswered /\ pc' = pc /\ Grown
  BY SendsKeep DEF Inv, clients
<1>2. /\ server.at = "loop" /\ Head(inbox) = inbox[1]
      /\ \A n \in DOMAIN inbox : n # 1 => n - 1 \in DOMAIN inbox'
                                         /\ inbox'[n - 1] = inbox[n]
  BY Received
<1> SUFFICES ASSUME NEW c \in Clients, pc[c] = "listing"
             PROVE  \/ /\ server'.at = "answering" /\ server'.type = "LIST"
                       /\ server'.target = c
                    \/ \E n \in DOMAIN inbox' : inbox'[n].type = "LIST" /\ inbox'[n].key = c
                    \/ \E n \in DOMAIN outbox'[c] : outbox'[c][n].type = "NEW_MESSAGE"
  BY <1>1 DEF ListWillBeAnswered
<1>3. CASE \E n \in DOMAIN outbox[c] : outbox[c][n].type = "NEW_MESSAGE"
  BY <1>1, <1>3 DEF Grown
<1>4. CASE \E n \in DOMAIN inbox : inbox[n].type = "LIST" /\ inbox[n].key = c
  BY <1>2, <1>4
<1> QED BY <1>1, <1>2, <1>3, <1>4 DEF ListWillBeAnswered

(* A step that leaves the server's queue alone keeps the order in it.      *)
LEMMA ElsewhereKeepsInnit ==
  ASSUME Inv, inbox' = inbox, UNCHANGED clients,
         \A c \in Clients : outbox'[c] # outbox[c] =>
           \/ Met(c)
           \/ \A n \in DOMAIN inbox : ~(inbox[n].type = "INNIT" /\ inbox[n].key = c),
         \A c \in Clients : (\E i \in Slots : queues'[i] = c) => \E i \in Slots : queues[i] = c
  PROVE  InnitFirst'
<1>1. /\ InnitFirst /\ pc' = pc
      /\ \A n \in DOMAIN inbox : inbox[n].key \in Clients
  <2>1. inbox \in Seq(Requests)
    BY DEF Inv, Shape, TypeOK
  <2> QED BY <2>1, KeysAreClients DEF Inv, clients
<1> QED BY <1>1 DEF InnitFirst, Met

(* The part of the shape that a step of the server leaves to its details.  *)
LEMMA ShapeKept ==
  ASSUME Inv, Sends, UNCHANGED clients, ServerShape',
         queues' \in [Slots -> Clients \cup {FREE}], no_clients_actual_connected' \in Int,
         inbox' \in Seq(Requests), Len(inbox') <= ServerRoom
  PROVE  Shape'
<1>1. /\ outbox' \in [Clients -> Seq(Answers)]
      /\ \A c \in Clients : Len(outbox'[c]) <= ClientRoom
  BY SendsKeep
<1>2. /\ server'.at \in ServerLocations
      /\ server'.at = "sending" => server'.slot \in Slots /\ server'.client_id \in Slots
      /\ server'.at = "stopping" => server'.slot \in 0..MAX_CLIENTS
      /\ server'.at = "answering" => server'.target \in Clients
      /\ server'.at = "accepting"
           => server'.target \in Clients /\ server'.client_id \in Slots
  BY DEF ServerShape, ServerLocations
<1>3. pc' = pc /\ client_id' = client_id
  BY DEF clients
<1>4. \A c \in Clients : \A n \in DOMAIN outbox'[c] : outbox'[c][n] \in Answers
  BY <1>1, ElementOfSeq
<1>5. TypeOK'
  BY <1>1, <1>2, <1>3, <1>4 DEF Inv, Shape, TypeOK, Answers
<1> QED BY <1>1, <1>5 DEF Shape

\* The server still runs, or it does not any more.
StaysOrStops ==
  \/ server'.at \in {"stopping", "exited", "failed"}
  \/ server.at \in {"loop", "accepting", "answering", "sending"}

(* A step of the server that leaves the table and the count alone.         *)
LEMMA QuietStep ==
  ASSUME Inv, Sends, Settled, UNCHANGED chat, UNCHANGED clients, StaysOrStops,
         inbox' \in Seq(Requests), Len(inbox') <= ServerRoom,
         ServerShape', TargetMet', AcceptedWaits', InnitFirst', ListWillBeAnswered'
  PROVE  Inv'
<1>1. StartsEmpty' /\ AnswerComesFirst'
  BY SendsKeep
<1>2. TableHeard' /\ OneSlot' /\ SlotIsClientId'
  BY QuietKeeps DEF chat
<1>3. Shape'
  <2>1. /\ queues' \in [Slots -> Clients \cup {FREE}]
        /\ no_clients_actual_connected' \in Int
    BY DEF Inv, Shape, TypeOK, chat
  <2> QED BY <2>1, ShapeKept
<1>4. RefusedOnlyWhenFull'
  <2>1. /\ Occupied' = Occupied
        /\ no_clients_actual_connected' = no_clients_actual_connected
    BY DEF chat, Occupied
  <2>2. server'.at # "stopping" /\ ~ServerGone'
          => server.at # "stopping" /\ ~ServerGone
    BY DEF StaysOrStops, ServerGone
  <2> QED BY <2>1, <2>2 DEF Inv, RefusedOnlyWhenFull
<1> QED BY <1>1, <1>2, <1>3, <1>4 DEF Inv

(* Whoever is in the table is a client the server has met.                 *)
LEMMA TableIsMet ==
  ASSUME Inv, NEW i \in Slots, queues[i] # FREE
  PROVE  /\ queues[i] \in Clients /\ pc[queues[i]] # "starting"
         /\ server.at \in {"loop", "answering", "sending"} => Met(queues[i])
<1>1. i \in Occupied /\ queues[i] \in Clients /\ pc[queues[i]] # "starting"
  BY DEF Inv, Shape, TypeOK, TableHeard, Occupied
<1> QED BY <1>1, UntoldNone DEF Untold, Met

LEMMA RefuseKeeps == Inv /\ Refuse => Inv'
<1> SUFFICES ASSUME Inv, Refuse PROVE Inv'
  OBVIOUS
<1> DEFINE c == Head(inbox).key
           m == Msg("FAILURE", Head(inbox).client_id)
<1>1. /\ Receive({"INNIT"}) /\ Send(c, m) /\ UNCHANGED <<chat, clients>>
      /\ server' = server
  BY DEF Refuse
<1>2. /\ Head(inbox) \in Requests /\ Head(inbox).type = "INNIT"
      /\ 1 \in DOMAIN inbox /\ Head(inbox) = inbox[1] /\ server.at = "loop"
      /\ inbox' \in Seq(Requests) /\ Len(inbox') <= ServerRoom
  BY <1>1, Received
<1>3. c \in Clients /\ m \in Answers /\ m.type = "FAILURE" /\ pc[c] # "starting"
  BY <1>2 DEF Requests, Answers, Msg, Inv, InnitFirst
<1>4. Sends
  BY <1>1, <1>3 DEF Sends
<1>5. \A d \in Clients : outbox'[d] # outbox[d] => d = c
  BY <1>1, <1>3, Sent DEF Inv
<1>6. InnitFirst' /\ ListWillBeAnswered'
  <2>1. InnitFirst'
    BY <1>1, <1>2, <1>4, <1>5, ReceiveKeepsInnit DEF chat
  <2>2. ListWillBeAnswered'
    BY <1>1, <1>2, <1>4, ReceiveKeepsList
  <2> QED BY <2>1, <2>2
<1>7. ServerShape' /\ TargetMet' /\ AcceptedWaits' /\ StaysOrStops
  BY <1>1, <1>2 DEF ServerShape, TargetMet, AcceptedWaits, StaysOrStops
<1>8. Settled
  BY <1>2, UntoldNone
<1> QED BY <1>1, <1>2, <1>4, <1>6, <1>7, <1>8, QuietStep

LEMMA StartAnswerKeeps == Inv /\ StartAnswer => Inv'
<1> SUFFICES ASSUME Inv, StartAnswer PROVE Inv'
  OBVIOUS
<1> DEFINE m == Head(inbox)
<1>1. /\ Receive({"LIST", "_2ONE"}) /\ UNCHANGED <<chat, clients>> /\ outbox' = outbox
      /\ queues' = queues
      /\ server' = IF m.type = "_2ONE" /\ queues[m.other_id] = FREE THEN [at |-> "loop"]
                   ELSE [at |-> "answering", type |-> m.type,
                         target |-> IF m.type = "LIST" THEN m.key
                                                       ELSE queues[m.other_id]]
  BY DEF StartAnswer, ToLoop, chat
<1>2. /\ m \in Requests /\ m.type \in {"LIST", "_2ONE"}
      /\ 1 \in DOMAIN inbox /\ m = inbox[1] /\ server.at = "loop"
      /\ inbox' \in Seq(Requests) /\ Len(inbox') <= ServerRoom
  BY <1>1, Received
<1>3. m.key \in Clients /\ m.other_id \in Slots /\ Met(m.key)
  BY <1>2 DEF Requests, Inv, InnitFirst, Met
<1>4. Sends /\ StaysOrStops
  BY <1>1, <1>2 DEF Sends, StaysOrStops
<1>5. InnitFirst' /\ ListWillBeAnswered'
  <2>1. InnitFirst'
    BY <1>1, <1>4, ReceiveKeepsInnit
  <2>2. m.type = "LIST" => /\ server'.at = "answering" /\ server'.type = "LIST"
                           /\ server'.target = m.key
    BY <1>1
  <2>3. ListWillBeAnswered'
    BY <1>1, <1>4, <2>2, ReceiveKeepsList
  <2> QED BY <2>1, <2>3
<1>6. \/ server' = [at |-> "loop"]
      \/ \E c \in Clients :
           server' = [at |-> "answering", type |-> m.type, target |-> c] /\ Met(c)
  BY <1>1, <1>2, <1>3, TableIsMet
<1>7. ServerShape' /\ TargetMet' /\ AcceptedWaits'
  <2>1. \A c \in Clients : Met(c) => Met(c)'
    BY <1>1 DEF Met, clients
  <2> QED BY <1>2, <1>6, <2>1 DEF ServerShape, TargetMet, AcceptedWaits
<1>8. Settled
  BY <1>2, UntoldNone
<1> QED BY <1>1, <1>2, <1>4, <1>5, <1>7, <1>8, QuietStep

LEMMA StartSendToAllKeeps == Inv /\ StartSendToAll => Inv'
<1> SUFFICES ASSUME Inv, StartSendToAll PROVE Inv'
  OBVIOUS
<1>1. /\ Receive({"_2ALL"}) /\ UNCHANGED <<chat, clients>> /\ outbox' = outbox
      /\ queues' = queues
      /\ server' = [at |-> "sending", slot |-> 0, client_id |-> Head(inbox).client_id]
  BY DEF StartSendToAll, chat
<1>2. /\ Head(inbox) \in Requests /\ Head(inbox).type = "_2ALL" /\ server.at = "loop"
      /\ inbox' \in Seq(Requests) /\ Len(inbox') <= ServerRoom
  BY <1>1, Received
<1>3. Sends /\ StaysOrStops
  BY <1>1, <1>2 DEF Sends, StaysOrStops
<1>4. InnitFirst'
  BY <1>1, <1>3, ReceiveKeepsInnit
<1>5. ListWillBeAnswered'
  BY <1>1, <1>2, <1>3, ReceiveKeepsList
<1>6. ServerShape' /\ TargetMet' /\ AcceptedWaits'
  BY <1>1, <1>2 DEF ServerShape, TargetMet, AcceptedWaits, Requests, Slots
<1>7. Settled
  BY <1>2, UntoldNone
<1> QED BY <1>1, <1>2, <1>3, <1>4, <1>5, <1>6, <1>7, QuietStep

(* A step from "answering", "sending" or "loop" that receives nothing keeps *)
(* the requests for the list, unless it was answering one.                 *)
LEMMA ElsewhereKeepsList ==
  ASSUME Inv, Sends, inbox' = inbox, UNCHANGED clients, StaysOrStops,
         server.at = "answering" => 
           \/ server'.at \in {"stopping", "exited", "failed"}
           \/ Removed(server.target)
           \/ \E n \in DOMAIN outbox'[server.target] :
                outbox'[server.target][n].type = "NEW_MESSAGE"
  PROVE  ListWillBeAnswered'
<1>1. ListWillBeAnswered /\ Grown /\ pc' = pc
  BY SendsKeep DEF Inv, clients
<1> SUFFICES ASSUME NEW c \in Clients, pc[c] = "listing",
                    server'.at \notin {"stopping", "exited", "failed"}
             PROVE  \/ \E n \in DOMAIN inbox : inbox[n].type = "LIST" /\ inbox[n].key = c
                    \/ \E n \in DOMAIN outbox'[c] : outbox'[c][n].type = "NEW_MESSAGE"
  BY <1>1 DEF ListWillBeAnswered
<1>2. CASE \E n \in DOMAIN outbox[c] : outbox[c][n].type = "NEW_MESSAGE"
  BY <1>1, <1>2 DEF Grown
<1>3. CASE server.at = "answering" /\ server.type = "LIST" /\ server.target = c
  BY <1>3 DEF Removed
<1> QED BY <1>1, <1>2, <1>3 DEF ListWillBeAnswered, StaysOrStops

LEMMA AnswerKeeps == Inv /\ Answer => Inv'
<1> SUFFICES ASSUME Inv, Answer PROVE Inv'
  OBVIOUS
<1> DEFINE c == server.target
           m == Msg("NEW_MESSAGE", 0)
<1>1. /\ server.at = "answering" /\ UNCHANGED <<chat, clients>> /\ inbox' = inbox
      /\ queues' = queues /\ server'.at \in {"loop", "failed"}
      /\ \/ Removed(c) /\ outbox' = outbox
         \/ ~Removed(c) /\ ~Full(c) /\ Send(c, m)
  BY DEF Answer, ToLoop, chat
<1>2. c \in Clients /\ Met(c)
  BY <1>1 DEF Inv, Shape, TypeOK, TargetMet
<1>3. m \in Answers /\ m.type = "NEW_MESSAGE"
  BY DEF Msg, Answers, Slots
<1>4. Sends /\ StaysOrStops
  BY <1>1, <1>2, <1>3 DEF Sends, StaysOrStops, Met
<1>5. /\ \A d \in Clients : outbox'[d] # outbox[d] => Met(d)
      /\ ~Removed(c) => \E n \in DOMAIN outbox'[c] : outbox'[c][n].type = "NEW_MESSAGE"
  <2>1. CASE Removed(c) /\ outbox' = outbox
    BY <2>1
  <2>2. CASE ~Removed(c) /\ ~Full(c) /\ Send(c, m)
    BY <1>2, <1>3, <2>2, Sent DEF Inv, Removed
  <2> QED BY <1>1, <2>1, <2>2
<1>6. InnitFirst'
  BY <1>1, <1>5, ElsewhereKeepsInnit
<1>7. ListWillBeAnswered'
  BY <1>1, <1>4, <1>5, ElsewhereKeepsList
<1>8. ServerShape' /\ TargetMet' /\ AcceptedWaits'
  BY <1>1 DEF ServerShape, TargetMet, AcceptedWaits
<1>9. Settled
  BY <1>1, UntoldNone
<1> QED BY <1>1, <1>4, <1>6, <1>7, <1>8, <1>9, QuietStep DEF Inv, Shape, TypeOK

LEMMA SendToAllKeeps == Inv /\ SendToAll => Inv'
<1> SUFFICES ASSUME Inv, SendToAll PROVE Inv'
  OBVIOUS
<1> DEFINE c == queues[server.slot]
           m == Msg("NEW_MESSAGE", 0)
<1>1. /\ server.at = "sending" /\ UNCHANGED <<chat, clients>> /\ inbox' = inbox
      /\ queues' = queues
      /\ \/ /\ server' = [at |-> "failed"] \/ server' = NextSlot
            /\ outbox' = outbox
         \/ c # FREE /\ Send(c, m) /\ server' = NextSlot
  BY DEF SendToAll, chat
<1>2. server \in [at : {"sending"}, slot : Slots, client_id : Slots]
  BY <1>1 DEF Inv, Shape, ServerShape
<1>3. c # FREE => c \in Clients /\ Met(c)
  BY <1>1, <1>2, TableIsMet
<1>4. m \in Answers
  BY DEF Msg, Answers, Slots
<1>5. Sends /\ StaysOrStops
  BY <1>1, <1>3, <1>4 DEF Sends, StaysOrStops, Met
<1>6. \A d \in Clients : outbox'[d] # outbox[d] => Met(d)
  BY <1>1, <1>3, <1>4, Sent DEF Inv
<1>7. InnitFirst'
  BY <1>1, <1>6, ElsewhereKeepsInnit
<1>8. ListWillBeAnswered'
  BY <1>1, <1>5, ElsewhereKeepsList
<1>9. ServerShape' /\ TargetMet' /\ AcceptedWaits'
  <2>1. \/ server' = [at |-> "failed"] \/ server' = [at |-> "loop"]
        \/ server.slot + 1 < MAX_CLIENTS /\ server' = [server EXCEPT !.slot = server.slot + 1]
    BY <1>1 DEF NextSlot
  <2> QED BY <1>2, <2>1 DEF ServerShape, TargetMet, AcceptedWaits, Slots
<1>10. Settled
  BY <1>1, UntoldNone
<1> QED BY <1>1, <1>5, <1>7, <1>8, <1>9, <1>10, QuietStep DEF Inv, Shape, TypeOK

LEMMA StopSignalKeeps == Inv /\ StopSignal => Inv'
<1> SUFFICES ASSUME Inv, StopSignal PROVE Inv'
  OBVIOUS
<1>1. /\ UNCHANGED <<chat, clients>> /\ inbox' = inbox /\ queues' = queues
      /\ outbox' = outbox /\ server' = [at |-> "stopping", slot |-> 0]
  BY DEF StopSignal, chat
<1>2. Sends /\ StaysOrStops
  BY <1>1 DEF Sends, StaysOrStops
<1>3. InnitFirst'
  BY <1>1, ElsewhereKeepsInnit
<1>4. ListWillBeAnswered'
  BY <1>1, <1>2, ElsewhereKeepsList
<1>5. ServerShape' /\ TargetMet' /\ AcceptedWaits'
  BY <1>1 DEF ServerShape, TargetMet, AcceptedWaits
<1>6. Settled
  BY <1>1 DEF Settled, Untold
<1> QED BY <1>1, <1>2, <1>3, <1>4, <1>5, <1>6, QuietStep DEF Inv, Shape, TypeOK

LEMMA StopNextKeeps == Inv /\ StopNext => Inv'
<1> SUFFICES ASSUME Inv, StopNext PROVE Inv'
  OBVIOUS
<1> DEFINE c == queues[server.slot]
           m == Msg("STOP", 0)
<1>1. /\ server.at = "stopping" /\ UNCHANGED clients
      /\ no_clients_actual_connected' = no_clients_actual_connected
  BY DEF StopNext
<1>2. /\ queues \in [Slots -> Clients \cup {FREE}] /\ no_clients_actual_connected \in Int
      /\ inbox \in Seq(Requests) /\ Len(inbox) <= ServerRoom
      /\ server \in [at : {"stopping"}, slot : 0..MAX_CLIENTS]
  BY <1>1 DEF Inv, Shape, TypeOK, ServerShape
<1>3. CASE server.slot \notin Slots
  <2>1. /\ server' = [at |-> "exited"] /\ inbox' = <<>> /\ queues' = queues
        /\ outbox' = outbox
    BY <1>3 DEF StopNext
  <2>2. Sends /\ StaysOrStops
    BY <2>1 DEF Sends, StaysOrStops
  <2>3. ServerShape' /\ TargetMet' /\ AcceptedWaits' /\ ListWillBeAnswered' /\ Settled
    BY <2>1 DEF ServerShape, TargetMet, AcceptedWaits, ListWillBeAnswered, Settled, Untold
  <2>4. InnitFirst' /\ inbox' \in Seq(Requests) /\ Len(inbox') <= ServerRoom
    BY <2>1 DEF InnitFirst
  <2> QED BY <1>1, <2>1, <2>2, <2>3, <2>4, QuietStep DEF chat
<1>4. CASE server.slot \in Slots
  <2>1. /\ inbox' = inbox
        /\ \/ /\ server' = [server EXCEPT !.slot = server.slot + 1] \/ server' = [at |-> "failed"]
              /\ outbox' = outbox /\ queues' = queues
           \/ /\ c # FREE /\ Send(c, m)
              /\ queues' = [queues EXCEPT ![server.slot] = FREE]
              /\ server' = [server EXCEPT !.slot = server.slot + 1]
    BY <1>4 DEF StopNext
  <2>2. c # FREE => c \in Clients /\ pc[c] # "starting"
    BY <1>4, TableIsMet
  <2>3. m \in Answers /\ m.type = "STOP"
    BY DEF Msg, Answers, Slots
  <2>4. Sends
    BY <2>1, <2>2, <2>3 DEF Sends
  <2>5. \A d \in Clients : outbox'[d] # outbox[d] => d = c
    BY <2>1, <2>2, <2>3, Sent DEF Inv
  <2>6. /\ server'.at \in {"stopping", "failed"}
        /\ ServerShape' /\ TargetMet' /\ AcceptedWaits'
        /\ ListWillBeAnswered' /\ RefusedOnlyWhenFull'
    BY <1>2, <1>4, <2>1
    DEF ServerShape, TargetMet, AcceptedWaits, ListWillBeAnswered, RefusedOnlyWhenFull, ServerGone, Slots
  <2>7. /\ queues' \in [Slots -> Clients \cup {FREE}]
        /\ \A i \in Slots : queues'[i] # FREE => queues'[i] = queues[i]
    BY <1>2, <2>1
  <2>8. Shape'
    BY <1>1, <1>2, <2>1, <2>4, <2>6, <2>7, ShapeKept
  <2>9. InnitFirst'
    <3>1. \A d \in Clients : (\E i \in Slots : queues'[i] = d) => \E i \in Slots : queues[i] = d
      BY <2>7
    <3>2. \A n \in DOMAIN inbox : ~(inbox[n].type = "INNIT" /\ inbox[n].key = c)
      BY <1>4 DEF Inv, InnitFirst
    <3> QED BY <1>1, <2>1, <2>5, <3>1, <3>2, ElsewhereKeepsInnit
  <2>10. TableHeard' /\ OneSlot' /\ SlotIsClientId'
    <3>1. Grown
      BY <1>1, <2>4, SendsKeep
    <3>2. \A i \in Occupied' : i \in Occupied /\ queues'[i] = queues[i] /\ queues[i] \in Clients
      BY <1>2, <2>7 DEF Occupied
    <3>3. \A i \in Untold \cap Occupied' : outbox'[queues[i]] = <<>>
      <4>1. \A i \in Untold : i \in Occupied /\ outbox[queues[i]] = <<>>
        BY DEF Untold
      <4>2. OneSlot
        BY DEF Inv
      <4>3. CASE outbox' = outbox
        BY <4>1, <4>3
      <4>4. CASE /\ c # FREE /\ queues' = [queues EXCEPT ![server.slot] = FREE]
        <5>1. server.slot \in Occupied /\ server.slot \notin Occupied'
          BY <1>2, <1>4, <4>4 DEF Occupied
        <5>2. \A i \in Untold \cap Occupied' : queues[i] # c
          BY <4>1, <4>2, <5>1 DEF OneSlot
        <5> QED BY <2>5, <3>2, <4>1, <5>2
      <4> QED BY <2>1, <4>3, <4>4
    <3> QED BY <1>1, <2>6, <3>1, <3>2, <3>3, SlotsKept
  <2> QED BY <1>1, <2>4, <2>6, <2>8, <2>9, <2>10, SendsKeep DEF Inv
<1> QED BY <1>3, <1>4

LEMMA AcceptKeeps == Inv /\ Accept => Inv'
<1> SUFFICES ASSUME Inv, Accept PROVE Inv'
  OBVIOUS
<1> DEFINE key  == Head(inbox).key
           free == Slots \ Occupied
           id   == IF free = {} THEN Head(inbox).client_id ELSE Lowest(free)
<1>1. /\ Receive({"INNIT"}) /\ UNCHANGED clients /\ outbox' = outbox
      /\ server' = [at |-> "accepting", target |-> key, client_id |-> id]
      /\ no_clients_actual_connected # MAX_CLIENTS
      /\ no_clients_actual_connected' = no_clients_actual_connected + 1
      /\ queues' = IF free = {} THEN queues ELSE [queues EXCEPT ![id] = key]
  BY DEF Accept
<1>2. /\ Head(inbox) \in Requests /\ Head(inbox).type = "INNIT"
      /\ 1 \in DOMAIN inbox /\ Head(inbox) = inbox[1] /\ server.at = "loop"
      /\ inbox' \in Seq(Requests) /\ Len(inbox') <= ServerRoom
      /\ \A n \in DOMAIN inbox' :
           n + 1 \in DOMAIN inbox /\ n + 1 # 1 /\ inbox'[n] = inbox[n + 1]
  BY <1>1, Received
<1>3. /\ key \in Clients /\ pc[key] \in {"connecting", "gone"}
      /\ pc[key] = "connecting" => outbox[key] = <<>>
      /\ \A i \in Slots : queues[i] # key
      /\ \A n \in DOMAIN inbox : inbox[n].type = "INNIT" /\ inbox[n].key = key => n = 1
  BY <1>2 DEF Requests, Inv, InnitFirst
<1>4. /\ queues \in [Slots -> Clients \cup {FREE}] /\ no_clients_actual_connected \in Int
      /\ pc' = pc /\ client_id' = client_id
  BY <1>1 DEF Inv, Shape, TypeOK, clients
<1>5. /\ id \in Slots
      /\ free # {} => id \in free
  <2>1. CASE free = {}
    BY <1>2, <2>1 DEF Requests
  <2>2. CASE free # {}
    <3>1. free \in SUBSET Slots
      OBVIOUS
    <3> QED BY <2>2, <3>1, LowestIsIn, Zenon
  <2> QED BY <2>1, <2>2
<1> HIDE DEF id
<1>6. Sends
  BY <1>1 DEF Sends
<1>7. /\ queues' \in [Slots -> Clients \cup {FREE}]
      /\ \A i \in Slots : queues'[i] = queues[i] \/ (free # {} /\ i = id /\ queues'[i] = key)
  BY <1>1, <1>3, <1>4, <1>5
<1>8. ServerShape' /\ TargetMet'
  BY <1>1, <1>3, <1>5 DEF ServerShape, TargetMet
<1>9. AcceptedWaits'
  <2>1. \A n \in DOMAIN inbox' : ~(inbox'[n].type = "INNIT" /\ inbox'[n].key = key)
    BY <1>2, <1>3
  <2> QED BY <1>1, <1>3, <1>4, <2>1 DEF AcceptedWaits
<1>10. Shape'
  BY <1>1, <1>2, <1>4, <1>6, <1>7, <1>8, ShapeKept
<1>11. InnitFirst' /\ ListWillBeAnswered'
  <2>1. InnitFirst'
    BY <1>1, <1>2, <1>6, <1>7, ReceiveKeepsInnit
  <2>2. ListWillBeAnswered'
    BY <1>1, <1>2, <1>6, ReceiveKeepsList
  <2> QED BY <2>1, <2>2
<1>12. \A i \in Occupied' :
         \/ i \in Occupied /\ queues'[i] = queues[i] /\ queues[i] \in Clients
         \/ free # {} /\ i = id /\ queues'[i] = key
  BY <1>4, <1>7 DEF Occupied
<1>13. TableHeard'
  BY <1>3, <1>4, <1>12 DEF Inv, TableHeard
<1>14. OneSlot'
  BY <1>3, <1>12 DEF Inv, OneSlot, Occupied
<1>15. Untold = {} /\ SlotIsClientId
  BY <1>2, UntoldNone DEF Inv
<1>16. SlotIsClientId'
  <2>1. \A i \in Untold' : i = id /\ queues'[i] = key
    BY <1>1, <1>4, <1>12, <1>15 DEF Untold
  <2>2. \A i \in Occupied' \ Untold' :
          LET c == queues'[i]
          IN  \/ pc[c] = "gone"
              \/ pc[c] = "connecting" /\ Head(outbox[c]) = Msg("SUCCES", i)
              \/ pc[c] # "connecting" /\ client_id[c] = i
    <3> SUFFICES ASSUME NEW i \in Occupied', i \notin Untold'
                 PROVE  LET c == queues'[i]
                        IN  \/ pc[c] = "gone"
                            \/ pc[c] = "connecting" /\ Head(outbox[c]) = Msg("SUCCES", i)
                            \/ pc[c] # "connecting" /\ client_id[c] = i
      OBVIOUS
    <3>1. CASE i \in Occupied /\ queues'[i] = queues[i] /\ queues[i] \in Clients
      BY <1>15, <3>1 DEF SlotIsClientId
    <3>2. CASE i = id /\ queues'[i] = key
      BY <1>1, <1>3, <1>4, <3>2 DEF Untold
    <3> QED BY <1>12, <3>1, <3>2
  <2> QED BY <1>1, <1>4, <2>1, <2>2 DEF SlotIsClientId
<1>17. RefusedOnlyWhenFull'
  <2>1. no_clients_actual_connected <= Cardinality(Occupied)
    BY <1>2 DEF Inv, RefusedOnlyWhenFull, ServerGone
  <2>2. /\ IsFiniteSet(Occupied) /\ Cardinality(Occupied) \in Nat
        /\ Cardinality(Occupied) <= MAX_CLIENTS
    BY OccupiedFinite DEF Occupied
  <2>3. CASE free = {}
    <3>1. Occupied' = Occupied
      BY <1>1, <2>3 DEF Occupied
    <3>2. no_clients_actual_connected + 1 <= Cardinality(Occupied)
      <4>1. Occupied = Slots /\ Cardinality(Slots) = MAX_CLIENTS
        BY <2>3, FS_Interval DEF Occupied, Slots
      <4> QED BY <1>1, <1>4, <2>1, <4>1
    <3> QED BY <1>1, <3>1, <3>2 DEF RefusedOnlyWhenFull
  <2>4. CASE free # {}
    <3>1. Occupied' = Occupied \cup {id} /\ id \notin Occupied
      BY <1>1, <1>3, <1>4, <1>5, <2>4 DEF Occupied
    <3>2. Cardinality(Occupied') = Cardinality(Occupied) + 1
      BY <2>2, <3>1, FS_AddElement
    <3> QED BY <1>1, <1>4, <2>1, <2>2, <3>2 DEF RefusedOnlyWhenFull
  <2> QED BY <2>3, <2>4
<1> QED BY <1>1, <1>6, <1>8, <1>9, <1>10, <1>11, <1>13, <1>14, <1>16, <1>17, SendsKeep DEF Inv

LEMMA SendSuccesKeeps == Inv /\ SendSucces => Inv'
<1> SUFFICES ASSUME Inv, SendSucces PROVE Inv'
  OBVIOUS
<1> DEFINE c == server.target
           m == Msg("SUCCES", server.client_id)
<1>1. /\ server.at = "accepting" /\ UNCHANGED <<chat, clients>> /\ inbox' = inbox
      /\ queues' = queues /\ server' = [at |-> "loop"] /\ Send(c, m)
  BY DEF SendSucces, ToLoop, chat
<1>2. /\ c \in Clients /\ server.client_id \in Slots
      /\ pc[c] \in {"connecting", "gone"}
      /\ pc[c] = "connecting" => outbox[c] = <<>>
      /\ \A n \in DOMAIN inbox : ~(inbox[n].type = "INNIT" /\ inbox[n].key = c)
  BY <1>1 DEF Inv, Shape, TypeOK, AcceptedWaits
<1>3. m \in Answers /\ m.type = "SUCCES"
  BY <1>2 DEF Msg, Answers
<1>4. Sends /\ StaysOrStops
  BY <1>1, <1>2, <1>3 DEF Sends, StaysOrStops
<1>5. /\ \A d \in Clients : outbox'[d] # outbox[d] => d = c
      /\ pc[c] = "connecting" => outbox'[c] # <<>> /\ Head(outbox'[c]) = m
  BY <1>1, <1>2, <1>3, Sent DEF Inv
<1>6. Settled
  BY <1>1, <1>5 DEF Settled, Untold, Inv, SlotIsClientId
<1>7. InnitFirst'
  BY <1>1, <1>2, <1>5, ElsewhereKeepsInnit
<1>8. ListWillBeAnswered'
  BY <1>1, <1>4, ElsewhereKeepsList
<1>9. ServerShape' /\ TargetMet' /\ AcceptedWaits'
  BY <1>1 DEF ServerShape, TargetMet, AcceptedWaits
<1> QED BY <1>1, <1>4, <1>6, <1>7, <1>8, <1>9, QuietStep DEF Inv, Shape, TypeOK

LEMMA HandleStopKeeps == Inv /\ HandleStop => Inv'
<1> SUFFICES ASSUME Inv, HandleStop PROVE Inv'
  OBVIOUS
<1> DEFINE key == Head(inbox).key
<1>1. /\ Receive({"STOP"}) /\ UNCHANGED clients /\ server' = server /\ outbox' = outbox
      /\ no_clients_actual_connected' = no_clients_actual_connected - 1
      /\ queues' = [i \in Slots |-> IF queues[i] = key THEN FREE ELSE queues[i]]
  BY DEF HandleStop
<1>2. /\ Head(inbox) \in Requests /\ Head(inbox).type = "STOP" /\ server.at = "loop"
      /\ inbox' \in Seq(Requests) /\ Len(inbox') <= ServerRoom
  BY <1>1, Received
<1>3. /\ queues \in [Slots -> Clients \cup {FREE}] /\ no_clients_actual_connected \in Int
      /\ pc' = pc /\ client_id' = client_id /\ key \in Clients
  BY <1>1, <1>2 DEF Inv, Shape, TypeOK, clients, Requests
<1>4. Sends
  BY <1>1 DEF Sends
<1>5. /\ queues' \in [Slots -> Clients \cup {FREE}]
      /\ \A i \in Slots : queues'[i] # FREE => queues'[i] = queues[i]
  BY <1>1, <1>3
<1>6. ServerShape' /\ TargetMet' /\ AcceptedWaits'
  BY <1>1, <1>2 DEF ServerShape, TargetMet, AcceptedWaits
<1>7. Shape'
  BY <1>1, <1>2, <1>3, <1>4, <1>5, <1>6, ShapeKept
<1>8. InnitFirst' /\ ListWillBeAnswered'
  <2>1. InnitFirst'
    <3>1. \A d \in Clients : (\E i \in Slots : queues'[i] = d) => \E i \in Slots : queues[i] = d
      BY <1>5
    <3> QED BY <1>1, <1>4, <3>1, ReceiveKeepsInnit
  <2>2. ListWillBeAnswered'
    BY <1>1, <1>2, <1>4, ReceiveKeepsList
  <2> QED BY <2>1, <2>2
<1>9. \A i \in Occupied' : i \in Occupied /\ queues'[i] = queues[i] /\ queues[i] \in Clients
  BY <1>3, <1>5 DEF Occupied
<1>10. TableHeard' /\ OneSlot' /\ SlotIsClientId'
  <2>1. Grown
    BY <1>1, <1>4, SendsKeep
  <2>2. Untold = {}
    BY <1>2, UntoldNone
  <2> QED BY <1>1, <1>9, <2>1, <2>2, SlotsKept
<1>11. RefusedOnlyWhenFull'
  <2>1. no_clients_actual_connected <= Cardinality(Occupied)
    BY <1>2 DEF Inv, RefusedOnlyWhenFull, ServerGone
  <2>2. IsFiniteSet(Occupied) /\ Cardinality(Occupied) \in Nat
    BY OccupiedFinite DEF Occupied
  <2>3. CASE \A i \in Slots : queues[i] # key
    <3>1. Occupied' = Occupied
      BY <1>1, <2>3 DEF Occupied
    <3> QED BY <1>1, <1>3, <2>1, <2>2, <3>1 DEF RefusedOnlyWhenFull
  <2>4. ASSUME NEW i \in Slots, queues[i] = key
        PROVE  RefusedOnlyWhenFull'
    <3>1. i \in Occupied /\ \A j \in Slots : queues[j] = key => j = i
      BY <1>3, <2>4 DEF Inv, OneSlot, Occupied
    <3>2. Occupied' = Occupied \ {i}
      BY <1>1, <2>4, <3>1 DEF Occupied
    <3>3. Cardinality(Occupied') = Cardinality(Occupied) - 1
      BY <2>2, <3>1, <3>2, FS_RemoveElement
    <3> QED BY <1>1, <1>3, <2>1, <2>2, <3>3 DEF RefusedOnlyWhenFull
  <2> QED BY <2>3, <2>4
<1> QED BY <1>1, <1>4, <1>6, <1>7, <1>8, <1>10, <1>11, SendsKeep DEF Inv

-----------------------------------------------------------------------------
(* What a request of c adds to the server's queue.                         *)
LEMMA Requested ==
  ASSUME Inv, NEW m \in Requests, Len(inbox) < ServerRoom, inbox' = Append(inbox, m)
  PROVE  /\ inbox' \in Seq(Requests) /\ Len(inbox') <= ServerRoom
         /\ Len(inbox') \in DOMAIN inbox' /\ inbox'[Len(inbox')] = m
         /\ \A n \in DOMAIN inbox : n \in DOMAIN inbox' /\ inbox'[n] = inbox[n]
         /\ \A n \in DOMAIN inbox' :
              n = Len(inbox') \/ (n \in DOMAIN inbox /\ inbox'[n] = inbox[n])
<1>1. inbox \in Seq(Requests)
  BY DEF Inv, Shape, TypeOK
<1>2. /\ inbox' \in Seq(Requests) /\ Len(inbox') = Len(inbox) + 1
      /\ \A n \in 1..Len(inbox) : inbox'[n] = inbox[n]
      /\ inbox'[Len(inbox) + 1] = m
  BY <1>1, AppendProperties
<1>3. /\ DOMAIN inbox = 1..Len(inbox) /\ Len(inbox) \in Nat
      /\ DOMAIN inbox' = 1..Len(inbox')
  BY <1>1, <1>2, LenProperties
<1> QED BY <1>2, <1>3

(* The shape of a step of a client.                                        *)
LEMMA ClientShape ==
  ASSUME Inv, UNCHANGED chat, server' = server,
         inbox' \in Seq(Requests), Len(inbox') <= ServerRoom,
         outbox' \in [Clients -> Seq(Answers)],
         \A c \in Clients : Len(outbox'[c]) <= ClientRoom,
         pc' \in [Clients -> ClientLocations], client_id' \in [Clients -> Slots]
  PROVE  Shape' /\ OneSlot' /\ RefusedOnlyWhenFull'
<1>1. \A c \in Clients : \A n \in DOMAIN outbox'[c] : outbox'[c][n] \in Answers
  BY ElementOfSeq
<1>2. TypeOK' /\ ServerShape'
  BY <1>1 DEF Inv, Shape, TypeOK, ServerShape, chat, Answers
<1>3. OneSlot' /\ RefusedOnlyWhenFull'
  BY DEF Inv, OneSlot, RefusedOnlyWhenFull, Occupied, ServerGone, chat
<1> QED BY <1>2, <1>3 DEF Shape

(* A step of a client that is in no slot yet, or leaves, or knows its slot, *)
(* changes nothing for the others.                                         *)
LEMMA ClientSlots ==
  ASSUME Inv, NEW c \in Clients, UNCHANGED chat, server' = server,
         pc'[c] # "connecting" \/ \A i \in Occupied : queues[i] # c,
         \A d \in Clients : d # c => /\ pc'[d] = pc[d] /\ outbox'[d] = outbox[d]
                                    /\ client_id'[d] = client_id[d],
         \A i \in Occupied : queues[i] = c => pc'[c] = "gone" \/ client_id'[c] = i
  PROVE  SlotIsClientId'
<1>1. /\ queues' = queues /\ Occupied' = Occupied
      /\ \A i \in Occupied : queues[i] \in Clients
  BY DEF Inv, Shape, TypeOK, Occupied, chat
<1>2. SlotIsClientId
  BY DEF Inv
<1>3. \A i \in Untold' : i \in Untold
  BY <1>1 DEF Untold
<1>4. \A i \in Untold' :
        /\ Untold' = {i}
        /\ \/ /\ server.at = "accepting"
              /\ server.target = queues[i] /\ server.client_id = i
           \/ server.at \in {"stopping", "exited", "failed"}
  BY <1>2, <1>3 DEF SlotIsClientId
<1>5. ASSUME NEW i \in Occupied \ Untold'
      PROVE  LET d == queues[i]
             IN  \/ pc'[d] = "gone"
                 \/ pc'[d] = "connecting" /\ Head(outbox'[d]) = Msg("SUCCES", i)
                 \/ pc'[d] # "connecting" /\ client_id'[d] = i
  <2>1. CASE queues[i] = c
    BY <1>5, <2>1
  <2>2. CASE queues[i] # c
    <3>1. i \notin Untold
      BY <1>1, <1>5, <2>2 DEF Untold
    <3> QED BY <1>1, <1>2, <1>5, <2>2, <3>1 DEF SlotIsClientId
  <2> QED BY <2>1, <2>2
<1> QED BY <1>1, <1>4, <1>5 DEF SlotIsClientId

(* A client that ends leaves its slot to the STOP it may have sent.        *)
LEMMA EndKeeps ==
  ASSUME Inv, NEW c \in Clients, End(c), UNCHANGED chat, server' = server,
         \/ inbox' = inbox
         \/ Len(inbox) < ServerRoom /\ inbox' = Append(inbox, My(c, "STOP", 0))
  PROVE  Inv'
<1>1. /\ Shape /\ StartsEmpty /\ InnitFirst /\ TableHeard /\ TargetMet /\ AcceptedWaits
      /\ AnswerComesFirst /\ SlotIsClientId /\ ListWillBeAnswered
      /\ outbox \in [Clients -> Seq(Answers)]
      /\ pc \in [Clients -> ClientLocations] /\ client_id \in [Clients -> Slots]
      /\ inbox \in Seq(Requests) /\ Len(inbox) <= ServerRoom
      /\ \A d \in Clients : Len(outbox[d]) <= ClientRoom
  BY DEF Inv, Shape, TypeOK
<1>2. /\ pc' = [pc EXCEPT ![c] = "gone"] /\ outbox' = [outbox EXCEPT ![c] = <<>>]
      /\ client_id' = [client_id EXCEPT ![c] = 0]
      /\ queues' = queues /\ Occupied' = Occupied
  BY DEF End, chat, Occupied
<1>3. /\ pc'[c] = "gone"
      /\ \A d \in Clients : d # c => pc'[d] = pc[d] /\ outbox'[d] = outbox[d]
                                      /\ client_id'[d] = client_id[d]
  BY <1>1, <1>2
<1>4. My(c, "STOP", 0) \in Requests /\ My(c, "STOP", 0).type = "STOP"
      /\ My(c, "STOP", 0).key = c
  BY <1>1 DEF My, Requests, Slots
<1>5. /\ inbox' \in Seq(Requests) /\ Len(inbox') <= ServerRoom
      /\ \A n \in DOMAIN inbox : n \in DOMAIN inbox' /\ inbox'[n] = inbox[n]
      /\ \A n \in DOMAIN inbox' :
           \/ inbox'[n].type = "STOP" /\ inbox'[n].key = c
           \/ n \in DOMAIN inbox /\ inbox'[n] = inbox[n]
  BY <1>1, <1>4, Requested
<1>6. Shape' /\ OneSlot' /\ RefusedOnlyWhenFull'
  <2>1. /\ outbox' \in [Clients -> Seq(Answers)]
        /\ pc' \in [Clients -> ClientLocations] /\ client_id' \in [Clients -> Slots]
    BY <1>1, <1>2, EmptySeq DEF ClientLocations, Slots
  <2>2. \A d \in Clients : Len(outbox'[d]) <= ClientRoom
    BY <1>1, <1>2
  <2> QED BY <1>5, <2>1, <2>2, ClientShape
<1>7. StartsEmpty' /\ AnswerComesFirst'
  BY <1>1, <1>3 DEF StartsEmpty, AnswerComesFirst
<1>8. InnitFirst'
  <2>1. \A n \in DOMAIN inbox' : inbox'[n].key \in Clients
    BY <1>5, KeysAreClients
  <2> QED BY <1>1, <1>2, <1>3, <1>5, <2>1 DEF InnitFirst
<1>9. TableHeard' /\ TargetMet' /\ AcceptedWaits'
  <2>1. \A d \in Clients : Met(d) => Met(d)'
    BY <1>3 DEF Met
  <2>2. \A i \in Occupied : queues[i] \in Clients
    BY DEF Inv, Shape, TypeOK, Occupied
  <2>3. server.at \in {"answering", "accepting"} => server.target \in Clients
    BY DEF Inv, Shape, TypeOK
  <2>4. TableHeard' /\ TargetMet'
    BY <1>1, <1>2, <1>3, <2>1, <2>2, <2>3 DEF TableHeard, TargetMet
  <2>5. AcceptedWaits'
    BY <1>1, <1>3, <1>5, <2>3 DEF AcceptedWaits
  <2> QED BY <2>4, <2>5
<1>10. SlotIsClientId'
  BY <1>3, ClientSlots
<1>11. ListWillBeAnswered'
  <2> SUFFICES ASSUME NEW d \in Clients, pc'[d] = "listing",
                      server.at \notin {"stopping", "exited", "failed"},
                      ~(server.at = "answering" /\ server.type = "LIST" /\ server.target = d)
               PROVE  \/ \E n \in DOMAIN inbox' : inbox'[n].type = "LIST" /\ inbox'[n].key = d
                      \/ \E n \in DOMAIN outbox'[d] : outbox'[d][n].type = "NEW_MESSAGE"
    BY DEF ListWillBeAnswered
  <2>1. d # c /\ pc[d] = "listing" /\ outbox'[d] = outbox[d]
    BY <1>3
  <2> QED BY <1>1, <1>5, <2>1 DEF ListWillBeAnswered
<1> QED BY <1>6, <1>7, <1>8, <1>9, <1>10, <1>11 DEF Inv

(* A client that sends a request: first of all its INNIT.                  *)
LEMMA RequestKeeps ==
  ASSUME Inv, NEW c \in Clients, NEW m \in Requests, m.key = c, NEW to,
         UNCHANGED <<outbox, client_id>>, UNCHANGED chat, server' = server,
         Len(inbox) < ServerRoom, inbox' = Append(inbox, m), pc' = [pc EXCEPT ![c] = to],
         \/ pc[c] = "starting" /\ m.type = "INNIT" /\ to = "connecting"
         \/ pc[c] = "sending" /\ m.type = "LIST" /\ to = "listing"
         \/ pc[c] = "sending" /\ m.type \in {"_2ALL", "_2ONE"} /\ to = "typing"
  PROVE  Inv'
<1>1. /\ Shape /\ StartsEmpty /\ InnitFirst /\ TableHeard /\ TargetMet /\ AcceptedWaits
      /\ AnswerComesFirst /\ SlotIsClientId /\ ListWillBeAnswered
      /\ outbox \in [Clients -> Seq(Answers)]
      /\ pc \in [Clients -> ClientLocations] /\ client_id \in [Clients -> Slots]
      /\ \A d \in Clients : Len(outbox[d]) <= ClientRoom
  BY DEF Inv, Shape, TypeOK
<1>2. /\ outbox' = outbox /\ client_id' = client_id
      /\ queues' = queues /\ Occupied' = Occupied
      /\ pc'[c] = to
      /\ \A d \in Clients : d # c => pc'[d] = pc[d]
  BY <1>1 DEF chat, Occupied
<1>3. /\ inbox' \in Seq(Requests) /\ Len(inbox') <= ServerRoom
      /\ Len(inbox') \in DOMAIN inbox' /\ inbox'[Len(inbox')] = m
      /\ \A n \in DOMAIN inbox : n \in DOMAIN inbox' /\ inbox'[n] = inbox[n]
      /\ \A n \in DOMAIN inbox' :
           n = Len(inbox') \/ (n \in DOMAIN inbox /\ inbox'[n] = inbox[n])
  BY Requested
<1>4. Shape' /\ OneSlot' /\ RefusedOnlyWhenFull'
  <2>1. pc' \in [Clients -> ClientLocations]
    BY <1>1 DEF ClientLocations
  <2> QED BY <1>1, <1>2, <1>3, <2>1, ClientShape
<1>5. StartsEmpty' /\ AnswerComesFirst'
  BY <1>1, <1>2 DEF StartsEmpty, AnswerComesFirst
<1>6. \A i \in Occupied : queues[i] \in Clients
  BY DEF Inv, Shape, TypeOK, Occupied
<1>7. InnitFirst'
  <2>1. \A n \in DOMAIN inbox' : inbox'[n].key \in Clients
    BY <1>3, KeysAreClients
  <2>2. pc[c] = "starting" =>
          /\ outbox[c] = <<>>
          /\ \A i \in Slots : queues[i] # c
          /\ \A n \in DOMAIN inbox : inbox[n].key # c
    BY <1>1 DEF StartsEmpty, TableHeard, InnitFirst, Occupied
  <2>3. CASE pc[c] = "starting"
    <3>1. /\ m.type = "INNIT" /\ pc'[c] = "connecting"
          /\ outbox'[c] = <<>> /\ \A i \in Slots : queues'[i] # c
      BY <1>2, <2>2, <2>3
    <3>2. \A n \in DOMAIN inbox' :
            inbox'[n].key = c <=> n = Len(inbox')
      BY <1>3, <2>2, <2>3
    <3>3. \A n \in DOMAIN inbox' : n # Len(inbox') =>
            /\ n \in DOMAIN inbox /\ inbox'[n] = inbox[n]
            /\ pc'[inbox[n].key] = pc[inbox[n].key]
      BY <1>2, <1>3, <2>1, <3>2
    <3> SUFFICES ASSUME NEW n \in DOMAIN inbox'
                 PROVE  LET d == inbox'[n].key
                        IN  IF inbox'[n].type = "INNIT"
                              THEN /\ pc'[d] \in {"connecting", "gone"}
                                   /\ pc'[d] = "connecting" => outbox'[d] = <<>>
                                   /\ \A i \in Slots : queues'[i] # d
                                   /\ \A k \in DOMAIN inbox' :
                                        inbox'[k].type = "INNIT" /\ inbox'[k].key = d => k = n
                              ELSE pc'[d] \notin {"starting", "connecting"}
      BY DEF InnitFirst
    <3>4. CASE n = Len(inbox')
      BY <1>3, <3>1, <3>2, <3>4
    <3>5. CASE n # Len(inbox')
      <4>1. n \in DOMAIN inbox /\ inbox'[n] = inbox[n] /\ inbox[n].key # c
        BY <3>2, <3>3, <3>5
      <4>2. \A k \in DOMAIN inbox' : inbox'[k].key = inbox[n].key =>
              k \in DOMAIN inbox /\ inbox'[k] = inbox[k]
        BY <3>2, <3>3, <4>1
      <4> QED BY <1>1, <1>2, <3>3, <3>5, <4>1, <4>2 DEF InnitFirst
    <3> QED BY <3>4, <3>5
  <2>4. CASE pc[c] = "sending"
    BY <1>1, <1>2, <1>3, <2>1, <2>4 DEF InnitFirst
  <2> QED BY <2>3, <2>4
<1>8. TableHeard' /\ TargetMet' /\ AcceptedWaits'
  <2>1. \A d \in Clients : Met(d) => Met(d)'
    BY <1>2 DEF Met
  <2>2. server.at \in {"answering", "accepting"} => server.target \in Clients
    BY DEF Inv, Shape, TypeOK
  <2>3. TableHeard' /\ TargetMet'
    BY <1>1, <1>2, <1>6, <2>1, <2>2 DEF TableHeard, TargetMet
  <2>4. server.at = "accepting" => server.target # c
    BY <1>1 DEF AcceptedWaits
  <2>5. AcceptedWaits'
    BY <1>1, <1>2, <1>3, <2>2, <2>4 DEF AcceptedWaits
  <2> QED BY <2>3, <2>5
<1>9. SlotIsClientId'
  <2>1. pc[c] = "starting" => \A i \in Occupied : queues[i] # c
    BY <1>1 DEF TableHeard
  <2>2. pc[c] = "sending" => \A i \in Occupied : queues[i] = c => client_id[c] = i
    BY <1>1 DEF SlotIsClientId, Untold
  <2> QED BY <1>1, <1>2, <2>1, <2>2, ClientSlots
<1>10. ListWillBeAnswered'
  BY <1>1, <1>2, <1>3 DEF ListWillBeAnswered
<1> QED BY <1>4, <1>5, <1>7, <1>8, <1>9, <1>10 DEF Inv

(* A client that reads its own queue, or none of it.                       *)
LEMMA ReadKeeps ==
  ASSUME Inv, NEW c \in Clients, NEW to, NEW id \in Slots, NEW s \in Seq(Answers),
         UNCHANGED chat, server' = server, inbox' = inbox,
         Len(s) <= Len(outbox[c]), outbox' = [outbox EXCEPT ![c] = s],
         client_id' = [client_id EXCEPT ![c] = id], pc' = [pc EXCEPT ![c] = to],
         pc[c] \in {"connecting", "typing", "reading", "listing"},
         to \in {"typing", "reading", "sending"},
         IF pc[c] = "connecting" THEN outbox[c] # <<>> /\ id = Head(outbox[c]).client_id
                                 ELSE id = client_id[c]
  PROVE  Inv'
<1>1. /\ Shape /\ StartsEmpty /\ InnitFirst /\ TableHeard /\ TargetMet /\ AcceptedWaits
      /\ AnswerComesFirst /\ SlotIsClientId /\ ListWillBeAnswered
      /\ outbox \in [Clients -> Seq(Answers)]
      /\ pc \in [Clients -> ClientLocations] /\ client_id \in [Clients -> Slots]
      /\ inbox \in Seq(Requests) /\ Len(inbox) <= ServerRoom
      /\ \A d \in Clients : Len(outbox[d]) <= ClientRoom
  BY DEF Inv, Shape, TypeOK
<1>2. /\ queues' = queues /\ Occupied' = Occupied
      /\ pc'[c] = to /\ outbox'[c] = s /\ client_id'[c] = id
      /\ \A d \in Clients : d # c => pc'[d] = pc[d] /\ outbox'[d] = outbox[d]
                                      /\ client_id'[d] = client_id[d]
  BY <1>1 DEF chat, Occupied
<1>3. Shape' /\ OneSlot' /\ RefusedOnlyWhenFull'
  <2>1. /\ pc' \in [Clients -> ClientLocations] /\ client_id' \in [Clients -> Slots]
        /\ outbox' \in [Clients -> Seq(Answers)]
    BY <1>1 DEF ClientLocations
  <2>2. \A d \in Clients : Len(outbox'[d]) <= ClientRoom
    <3>1. Len(s) \in Nat /\ Len(outbox[c]) \in Nat
      BY <1>1, LenProperties
    <3> QED BY <1>1, <1>2, <3>1
  <2> QED BY <1>1, <1>2, <2>1, <2>2, ClientShape
<1>4. StartsEmpty' /\ AnswerComesFirst'
  BY <1>1, <1>2 DEF StartsEmpty, AnswerComesFirst
<1>5. \A i \in Occupied : queues[i] \in Clients
  BY DEF Inv, Shape, TypeOK, Occupied
<1>6. InnitFirst'
  <2>1. \A n \in DOMAIN inbox : inbox[n].key \in Clients
    BY <1>1, KeysAreClients
  <2> QED BY <1>1, <1>2, <2>1 DEF InnitFirst
<1>7. TableHeard' /\ TargetMet' /\ AcceptedWaits'
  <2>1. \A d \in Clients : Met(d) => Met(d)'
    BY <1>2 DEF Met
  <2>2. server.at \in {"answering", "accepting"} => server.target \in Clients
    BY DEF Inv, Shape, TypeOK
  <2>3. TableHeard' /\ TargetMet'
    BY <1>1, <1>2, <1>5, <2>1, <2>2 DEF TableHeard, TargetMet
  <2>4. server.at = "accepting" => server.target # c
    BY <1>1 DEF AcceptedWaits
  <2>5. AcceptedWaits'
    BY <1>1, <1>2, <2>2, <2>4 DEF AcceptedWaits
  <2> QED BY <2>3, <2>5
<1>8. SlotIsClientId'
  <2>1. \A i \in Occupied : queues[i] = c => id = i
    <3> SUFFICES ASSUME NEW i \in Occupied, queues[i] = c
                 PROVE  id = i
      OBVIOUS
    <3>1. \/ pc[c] = "connecting" /\ Head(outbox[c]) = Msg("SUCCES", i)
          \/ pc[c] # "connecting" /\ client_id[c] = i
      BY <1>1 DEF SlotIsClientId, Untold
    <3> QED BY <3>1 DEF Msg
  <2> QED BY <1>2, <2>1, ClientSlots
<1>9. ListWillBeAnswered'
  BY <1>1, <1>2 DEF ListWillBeAnswered
<1> QED BY <1>3, <1>4, <1>6, <1>7, <1>8, <1>9 DEF Inv

(* Either the server's queue is gone and the client ends, or it is sent.   *)
LEMMA SendRequestKeeps ==
  ASSUME Inv, NEW c \in Clients, NEW m \in Requests, m.key = c, NEW to,
         UNCHANGED <<chat, server>>, SendRequest(c, m, to),
         \/ pc[c] = "starting" /\ m.type = "INNIT" /\ to = "connecting"
         \/ pc[c] = "sending" /\ m.type = "LIST" /\ to = "listing"
         \/ pc[c] = "sending" /\ m.type \in {"_2ALL", "_2ONE"} /\ to = "typing"
  PROVE  Inv'
<1>1. CASE End(c) /\ UNCHANGED inbox
  BY <1>1, EndKeeps
<1>2. CASE /\ Len(inbox) < ServerRoom /\ inbox' = Append(inbox, m)
           /\ pc' = [pc EXCEPT ![c] = to] /\ UNCHANGED <<outbox, client_id>>
  BY <1>2, RequestKeeps
<1> QED BY <1>1, <1>2 DEF SendRequest

LEMMA ClientKeeps ==
  ASSUME Inv, NEW c \in Clients, ClientStep(c) \/ Command(c) \/ Stop(c)
  PROVE  Inv'
<1>1. /\ outbox \in [Clients -> Seq(Answers)] /\ outbox[c] \in Seq(Answers)
      /\ client_id \in [Clients -> Slots] /\ client_id[c] \in Slots
  BY DEF Inv, Shape, TypeOK
<1>2. /\ outbox = [outbox EXCEPT ![c] = outbox[c]]
      /\ client_id = [client_id EXCEPT ![c] = client_id[c]]
      /\ pc = [pc EXCEPT ![c] = pc[c]]
  BY <1>1 DEF Inv, Shape, TypeOK
<1>3. \A type \in {"INNIT", "LIST", "_2ALL", "_2ONE", "STOP"}, other \in Slots :
        /\ My(c, type, other) \in Requests
        /\ My(c, type, other).key = c /\ My(c, type, other).type = type
  BY <1>1 DEF My, Requests
<1>4. 0 \in Slots
  BY DEF Slots
<1>5. outbox[c] # <<>> =>
        /\ Head(outbox[c]).client_id \in Slots
        /\ Tail(outbox[c]) \in Seq(Answers) /\ Len(Tail(outbox[c])) <= Len(outbox[c])
  <2>1. outbox[c] # <<>> =>
          /\ Head(outbox[c]) \in Answers
          /\ Tail(outbox[c]) \in Seq(Answers) /\ Len(Tail(outbox[c])) = Len(outbox[c]) - 1
    BY <1>1, HeadTailProperties
  <2>2. Len(outbox[c]) \in Nat
    BY <1>1, LenProperties
  <2> QED BY <2>1, <2>2 DEF Answers
<1>6. CASE Connect(c)
  BY <1>3, <1>4, <1>6, SendRequestKeeps DEF Connect
<1>7. CASE Connected(c)
  <2>1. /\ pc[c] = "connecting" /\ outbox[c] # <<>> /\ UNCHANGED chat
        /\ server' = server /\ inbox' = inbox
    BY <1>7 DEF Connected
  <2>2. CASE Head(outbox[c]).type \in {"FAILURE", "STOP"}
    BY <1>7, <2>1, <2>2, EndKeeps DEF Connected
  <2>3. CASE Head(outbox[c]).type \notin {"FAILURE", "STOP"}
    <3>1. /\ pc' = [pc EXCEPT ![c] = "typing"]
          /\ outbox' = [outbox EXCEPT ![c] = Tail(outbox[c])]
          /\ client_id' = [client_id EXCEPT ![c] = Head(outbox[c]).client_id]
      BY <1>7, <2>3 DEF Connected
    <3> QED BY <1>5, <2>1, <3>1, ReadKeeps
  <2> QED BY <2>2, <2>3
<1>8. CASE Read(c)
  <2>1. pc[c] = "reading" /\ UNCHANGED chat /\ server' = server /\ inbox' = inbox
    BY <1>8 DEF Read, Go
  <2>2. CASE outbox[c] = <<>>
    <3>1. /\ pc' = [pc EXCEPT ![c] = "sending"]
          /\ outbox' = [outbox EXCEPT ![c] = outbox[c]]
          /\ client_id' = [client_id EXCEPT ![c] = client_id[c]]
      BY <1>2, <1>8, <2>2 DEF Read, Go
    <3>2. Len(outbox[c]) <= Len(outbox[c])
      BY <1>1, LenProperties
    <3> QED BY <1>1, <2>1, <3>1, <3>2, ReadKeeps
  <2>3. CASE outbox[c] # <<>> /\ Head(outbox[c]).type = "STOP"
    BY <1>8, <2>1, <2>3, EndKeeps DEF Read
  <2>4. CASE outbox[c] # <<>> /\ Head(outbox[c]).type # "STOP"
    <3>1. /\ pc' = [pc EXCEPT ![c] = "reading"]
          /\ outbox' = [outbox EXCEPT ![c] = Tail(outbox[c])]
          /\ client_id' = [client_id EXCEPT ![c] = client_id[c]]
      BY <1>2, <1>8, <2>1, <2>4 DEF Read
    <3> QED BY <1>1, <1>5, <2>1, <2>4, <3>1, ReadKeeps
  <2> QED BY <2>2, <2>3, <2>4
<1>9. CASE Request(c)
  <2>1. pc[c] = "sending" /\ UNCHANGED <<chat, server>>
    BY <1>9 DEF Request
  <2>2. CASE SendRequest(c, My(c, "LIST", 0), "listing")
    BY <1>3, <1>4, <2>1, <2>2, SendRequestKeeps
  <2>3. CASE SendRequest(c, My(c, "_2ALL", 0), "typing")
    BY <1>3, <1>4, <2>1, <2>3, SendRequestKeeps
  <2>4. ASSUME NEW other \in Slots, SendRequest(c, My(c, "_2ONE", other), "typing")
        PROVE  Inv'
    BY <1>3, <2>1, <2>4, SendRequestKeeps
  <2> QED BY <1>9, <2>2, <2>3, <2>4 DEF Request
<1>10. CASE Listed(c)
  <2>1. /\ pc[c] = "listing" /\ UNCHANGED chat /\ server' = server /\ inbox' = inbox
        /\ pc' = [pc EXCEPT ![c] = "typing"] /\ client_id' = client_id
    BY <1>10 DEF Listed, Go
  <2>2. PICK n \in DOMAIN outbox[c] : outbox' = [outbox EXCEPT ![c] = RemoveAt(outbox[c], n)]
    BY <1>10 DEF Listed
  <2> DEFINE q == outbox[c]
  <2>3. n \in 1..Len(q) /\ Len(q) \in Nat
    BY <1>1, LenProperties
  <2>4. /\ SubSeq(q, 1, n - 1) \in Seq(Answers) /\ Len(SubSeq(q, 1, n - 1)) = n - 1
        /\ SubSeq(q, n + 1, Len(q)) \in Seq(Answers)
        /\ Len(SubSeq(q, n + 1, Len(q))) = Len(q) - n
    BY <1>1, <2>3, SubSeqProperties
  <2>5. RemoveAt(q, n) \in Seq(Answers) /\ Len(RemoveAt(q, n)) <= Len(q)
    <3> DEFINE a == SubSeq(q, 1, n - 1)
               b == SubSeq(q, n + 1, Len(q))
    <3>1. a \in Seq(Answers) /\ b \in Seq(Answers) /\ Len(a) + Len(b) <= Len(q)
      BY <2>3, <2>4
    <3>2. RemoveAt(q, n) = a \o b
      BY DEF RemoveAt
    <3> HIDE DEF a, b, q
    <3> QED BY <3>1, <3>2, ConcatProperties
  <2> QED BY <1>1, <1>2, <2>1, <2>2, <2>5, ReadKeeps
<1>11. CASE Command(c)
  <2>1. /\ pc[c] = "typing" /\ pc' = [pc EXCEPT ![c] = "reading"] /\ UNCHANGED chat
        /\ server' = server /\ inbox' = inbox
        /\ outbox' = [outbox EXCEPT ![c] = outbox[c]]
        /\ client_id' = [client_id EXCEPT ![c] = client_id[c]]
    BY <1>2, <1>11 DEF Command, Go
  <2>2. Len(outbox[c]) <= Len(outbox[c])
    BY <1>1, LenProperties
  <2> QED BY <1>1, <2>1, <2>2, ReadKeeps
<1>12. CASE Stop(c)
  BY <1>12, EndKeeps DEF Stop
<1> QED BY <1>6, <1>7, <1>8, <1>9, <1>10, <1>11, <1>12 DEF ClientStep

-----------------------------------------------------------------------------
(* The chat starts empty.                                                  *)
LEMMA InitInv == Init => Inv
<1> SUFFICES ASSUME Init PROVE Inv
  OBVIOUS
<1>1. Shape
  BY EmptySeq DEF Init, Shape, TypeOK, ServerShape, ServerLocations, ClientLocations, Slots
<1>2. StartsEmpty /\ InnitFirst /\ AnswerComesFirst /\ ListWillBeAnswered /\ TargetMet
      /\ AcceptedWaits
  BY DEF Init, StartsEmpty, InnitFirst, AnswerComesFirst, ListWillBeAnswered, TargetMet,
         AcceptedWaits
<1>3. Occupied = {}
  BY DEF Init, Occupied
<1>4. TableHeard /\ OneSlot /\ SlotIsClientId
  BY <1>3 DEF TableHeard, OneSlot, SlotIsClientId, Untold
<1>5. RefusedOnlyWhenFull
  <2>1. Cardinality(Occupied) = 0
    BY <1>3, FS_EmptySet
  <2> QED BY <2>1 DEF Init, RefusedOnlyWhenFull
<1> QED BY <1>1, <1>2, <1>4, <1>5 DEF Inv

LEMMA NextInv == Inv /\ [Next]_vars => Inv'
<1> SUFFICES ASSUME Inv, [Next]_vars PROVE Inv'
  OBVIOUS
<1>1. CASE Handler
  BY <1>1, RefuseKeeps, AcceptKeeps, SendSuccesKeeps, StartAnswerKeeps, AnswerKeeps, StartSendToAllKeeps,
     SendToAllKeeps, HandleStopKeeps, StopNextKeeps DEF Handler
<1>2. CASE UNCHANGED vars
  BY <1>2 DEF vars, chat, clients, Inv, Shape, TypeOK, ServerShape, StartsEmpty, InnitFirst,
     TableHeard, TargetMet, AcceptedWaits, OneSlot, Met, Occupied, Untold, RefusedOnlyWhenFull, ServerGone,
     AnswerComesFirst, SlotIsClientId, ListWillBeAnswered
<1> QED BY <1>1, <1>2, StopSignalKeeps, ClientKeeps DEF Next

(* The order in which the messages of a client and the server's meet holds *)
(* whatever is lost, stopped or removed (server.c:202-238).                *)
THEOREM Invariance == Spec => []Inv
<1> QED BY InitInv, NextInv, PTL DEF Spec

(* Type correctness: the indices the server uses are those of its table    *)
(* (server.c:79-175).                                                      *)
THEOREM TypeCorrect == Spec => []TypeOK
<1>1. Inv => TypeOK
  BY DEF Inv, Shape
<1> QED BY <1>1, Invariance, PTL

(* The count that handle_new_connection tests is never above the slots in  *)
(* use, so a client is refused only by a full table, although handle_stop  *)
(* lowers the count for clients without a slot (server.c:38-61, 141-153).  *)
THEOREM Refused == Spec => []RefusedOnlyWhenFull
<1>1. Inv => RefusedOnlyWhenFull
  BY DEF Inv
<1> QED BY <1>1, Invariance, PTL

(* No text sent to all or to one overtakes the answer to INNIT, which the  *)
(* handler that gives the slot sends unless SIGINT comes between           *)
(* (server.c:50-61); the client takes what comes first for it              *)
(* (client.c:135-141).                                                     *)
THEOREM AnswerFirst == Spec => []AnswerComesFirst
<1>1. Inv => AnswerComesFirst
  BY DEF Inv
<1> QED BY <1>1, Invariance, PTL

(* A client in the table knows its slot, or learns it from its next        *)
(* message, so that handle_send_to_all leaves out its sender and nobody    *)
(* else (server.c:74-75, client.c:141); but for one client, whom SIGINT    *)
(* between its slot and SUCCES keeps from it (server.c:52-58, 155-172).    *)
THEOREM SlotKnown == Spec => []SlotIsClientId
<1>1. Inv => SlotIsClientId
  BY DEF Inv
<1> QED BY <1>1, Invariance, PTL

(* A client that waits in LIST, which takes NEW_MESSAGE only, has one in   *)
(* its queue, or its request is still with the server, unless that one has *)
(* stopped (client.c:165-172, server.c:111-131).                           *)
THEOREM ListOnItsWay == Spec => []ListWillBeAnswered
<1>1. Inv => ListWillBeAnswered
  BY DEF Inv
<1> QED BY <1>1, Invariance, PTL

=============================================================================
