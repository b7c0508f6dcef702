-------------------------- MODULE ChatServerProofs --------------------------
(***************************************************************************)
(* Descriptors and pings of ChatServer, for any number of clients and      *)
(* slots.  The table, the descriptors and epoll are changed by two threads *)
(* in steps of their own; the invariant says what ties them together all   *)
(* the same, and what is left of an evicted slot: its descriptor, by which *)
(* a late step of the main thread can still reach another client.          *)
(***************************************************************************)
EXTENDS ChatServer, FiniteSetTheorems, SequenceTheorems, TLAPS

USE ServerAssumption

Letters == Messages \cup {"nickname", "garbled"}

Events ==
  [type : {"client"}, slot : Slots, hup : BOOLEAN] \cup [type : {"socket"}]

\* What is known of the main thread in each location.
MainShape ==
  \/ main \in [at : {"waiting", "handling"}]
  \/ main \in [at : {"accepted", "refusing"}, fd : Fds]
  \/ main \in [at : {"adding"}, fd : Fds, slot : Slots]
  \/ /\ \/ main \in [at : {"naming"}, slot : Slots]
        \/ main \in [at : {"dispatching"}, slot : Slots, type : Messages \cup {"other"}]
     /\ clients[main.slot].fd \in Fds

Shape ==
  /\ TypeOK
  /\ MainShape
  /\ batch \in Seq(Events)
  /\ backlog \in Seq(Clients)
  /\ stream \in [Clients -> Seq(Letters)]

\* A slot that is used, or that an event is about, has had a descriptor.
SlotsHaveFds ==
  /\ \A i \in Live : clients[i].fd \in Fds
  /\ \A n \in DOMAIN batch :
       batch[n].type = "client" => clients[batch[n].slot].fd \in Fds

\* A batch has at most one event about the sockets: the one the main thread has
\* at hand, or one with a connection to accept.
Sockets == {n \in DOMAIN batch : batch[n].type = "socket"}

SocketEvents ==
  /\ \A m, n \in Sockets : m = n
  /\ main.at \in {"accepted", "refusing", "adding"} => 1 \in Sockets
  /\ main.at \in {"handling", "naming", "dispatching"} /\ Sockets # {}
       => backlog # <<>>

\* A client connects once.
OneConnection ==
  /\ \A f, g \in Fds : peer[f] # NoClient /\ peer[f] = peer[g] => f = g
  /\ \A m, n \in DOMAIN backlog : backlog[m] = backlog[n] => m = n
  /\ \A n \in DOMAIN backlog : \A f \in Fds : peer[f] # backlog[n]
  /\ \A c \in Clients :
       pc[c] = "outside" => /\ \A n \in DOMAIN backlog : backlog[n] # c
                            /\ \A f \in Fds : peer[f] # c

\* epoll reports a descriptor that is open, to a slot that has it.
WatchedBySlot ==
  \A f \in Fds :
    watched[f] # -1 =>
      watched[f] \in Live /\ clients[watched[f]].fd = f /\ peer[f] # NoClient

\* Between new_client and epoll_ctl the slot is lost only with the descriptor.
AddingSlot ==
  main.at = "adding" /\ peer[main.fd] # NoClient =>
    main.slot \in Live /\ clients[main.slot].fd = main.fd

\* Garbled messages are those of clients that were misread.
GarbledMisread ==
  \A c \in Clients : Contains(stream[c], "garbled") => c \in misread

\* The ping of slot i is unread, answered, or taken and not yet noted.
Asked(i, c) ==
  \/ pings[c] > 0
  \/ Contains(stream[c], "ping")
  \/ main.at = "dispatching" /\ main.slot = i /\ main.type = "ping"

\* epoll reports f to slot i, or will.
Reports(f, i) ==
  \/ watched[f] = i
  \/ main.at = "adding" /\ main.slot = i /\ main.fd = f

Outstanding ==
  \A i \in Live :
    LET f == clients[i].fd
        c == peer[f]
    IN  ~clients[i].responding /\ c # NoClient /\ Reports(f, i)
          /\ pc[c] # "gone" /\ c \notin misread
        => Asked(i, c)

Inv ==
  /\ Shape
  /\ SlotsHaveFds
  /\ SocketEvents
  /\ OneConnection
  /\ WatchedBySlot
  /\ AddingSlot
  /\ GarbledMisread
  /\ NoDescriptorLeak
  /\ Outstanding

-----------------------------------------------------------------------------
(* The lowest free slot is a free slot.                                    *)
LEMMA LowestIsIn ==
  ASSUME NEW S \in SUBSET Slots, S # {}
  PROVE  (CHOOSE i \in S : \A j \in S : i <= j) \in S
<1> DEFINE R == OpToRel(<, Nat)
<1>1. IsWellFoundedOn(R, Nat)
  BY NatLessThanWellFounded
<1>2. \A x, y \in Nat : <<x, y>> \notin R => y <= x
  BY DEF OpToRel
<1>3. S \subseteq Nat
  BY DEF Slots
<1> HIDE DEF R
<1>4. PICK x \in S : \A y \in S : ~(<<y, x>> \in R)
  BY <1>1, <1>3, WFMin
<1>5. \A y \in S : x <= y
  BY <1>2, <1>3, <1>4
<1> QED BY <1>4, <1>5, Zenon

(* The descriptors are finitely many numbers.                              *)
LEMMA FdsFinite == IsFiniteSet(Fds) /\ Fds \subseteq Nat \ {0} /\ NoFd \notin Fds
<1>1. Cardinality(Clients) \in Nat
  BY FS_CardinalityType
<1>2. IsFiniteSet(1..Cardinality(Clients))
  BY <1>1, FS_Interval
<1>3. Fds \subseteq Nat \ {0} /\ NoFd \notin Fds
  BY <1>1 DEF Fds, NoFd
<1> QED BY <1>2, <1>3 DEF Fds

(* Before the last event is done, the batch has one; what is left of it.   *)
LEMMA EventLeft ==
  ASSUME Shape, main.at # "waiting", EventDone
  PROVE  /\ main' \in [at : {"waiting", "handling"}]
         /\ main'.at \in {"waiting", "handling"}
         /\ main'.at = "waiting" <=> batch' = <<>>
         /\ batch' \in Seq(Events)
         /\ \A n \in DOMAIN batch' : n + 1 \in DOMAIN batch /\ batch'[n] = batch[n + 1]
<1>1. batch \in Seq(Events) /\ batch # <<>>
  BY DEF Shape, TypeOK
<1>2. batch' = Tail(batch)
  BY DEF EventDone
<1>3. /\ batch' \in Seq(Events) /\ Len(batch') = Len(batch) - 1
      /\ \A n \in 1..Len(batch') : batch'[n] = batch[n + 1]
      /\ Len(batch) \in Nat \ {0}
      /\ DOMAIN batch = 1..Len(batch) /\ DOMAIN batch' = 1..Len(batch')
  BY <1>1, <1>2, HeadTailProperties, LenProperties
<1>4. \A n \in DOMAIN batch' : n + 1 \in DOMAIN batch /\ batch'[n] = batch[n + 1]
  BY <1>3
<1> QED BY <1>2, <1>3, <1>4 DEF EventDone

LEMMA SocketLeft ==
  ASSUME Shape, SocketEvents, main.at # "waiting", EventDone,
         UNCHANGED backlog
  PROVE  SocketEvents'
<1>1. \A n \in Sockets' : n + 1 \in Sockets /\ n \in Nat \ {0}
  <2>1. batch' \in Seq(Events)
    BY EventLeft
  <2>2. DOMAIN batch' \subseteq Nat \ {0}
    BY <2>1, LenProperties
  <2> QED BY <2>2, EventLeft DEF Sockets
<1>2. main.at \in {"accepted", "refusing", "adding"} => Sockets' = {}
  BY <1>1 DEF SocketEvents
<1>4. main.at \in {"accepted", "refusing", "adding", "handling", "naming", "dispatching"}
  BY DEF Shape, TypeOK
<1>5. main'.at \in {"waiting", "handling"}
  BY EventLeft
<1> QED BY <1>1, <1>2, <1>4, <1>5 DEF SocketEvents

(* The event at hand is one of the batch.                                  *)
LEMMA EventAtHand ==
  ASSUME Shape, SlotsHaveFds, main.at # "waiting"
  PROVE  /\ Event \in Events /\ Event = batch[1] /\ 1 \in DOMAIN batch
         /\ Event.type = "client" =>
              Event.slot \in Slots /\ clients[Event.slot].fd \in Fds
<1>1. batch \in Seq(Events) /\ batch # <<>>
  BY DEF Shape, TypeOK
<1>2. 1 \in DOMAIN batch /\ Event = batch[1] /\ Event \in Events
  BY <1>1, HeadTailProperties, LenProperties DEF Event
<1>3. Event.type = "client" => clients[Event.slot].fd \in Fds
  BY <1>2 DEF SlotsHaveFds
<1> QED BY <1>2, <1>3 DEF Events

(* Slots keep their descriptors when an event is done.                     *)
LEMMA SlotsLeft ==
  ASSUME Shape, SlotsHaveFds, main.at # "waiting", EventDone,
         \A i \in Slots : clients'[i].fd = clients[i].fd,
         \A i \in Live' : clients'[i].fd \in Fds
  PROVE  SlotsHaveFds'
<1> SUFFICES ASSUME NEW n \in DOMAIN batch', batch'[n].type = "client"
             PROVE  clients'[batch'[n].slot].fd \in Fds
  BY DEF SlotsHaveFds
<1>1. n + 1 \in DOMAIN batch /\ batch'[n] = batch[n + 1]
  BY EventLeft
<1>2. batch[n + 1] \in Events
  BY <1>1, ElementOfSeq DEF Shape
<1>3. batch[n + 1].slot \in Slots /\ clients[batch[n + 1].slot].fd \in Fds
  BY <1>1, <1>2 DEF Events, SlotsHaveFds
<1> QED BY <1>1, <1>3

(* What the updates of one slot change.                                    *)
LEMMA Readied ==
  ASSUME TypeOK, NEW k \in Slots, clients' = [clients EXCEPT ![k].state = "ready"]
  PROVE  /\ clients' \in [Slots -> [state : {"empty", "init", "ready"},
                                    fd : Fds \cup {NoFd}, responding : BOOLEAN]]
         /\ \A i \in Slots : /\ clients'[i].fd = clients[i].fd
                             /\ clients'[i].responding = clients[i].responding
                             /\ clients'[i].state =
                                  IF i = k THEN "ready" ELSE clients[i].state
<1>1. clients \in [Slots -> [state : {"empty", "init", "ready"},
                            fd : Fds \cup {NoFd}, responding : BOOLEAN]]
  BY DEF TypeOK
<1>2. clients' = [i \in Slots |->
                   IF i = k THEN [clients[i] EXCEPT !.state = "ready"] ELSE clients[i]]
  BY <1>1
<1>3. \A i \in Slots : clients'[i] \in [state : {"empty", "init", "ready"},
                                        fd : Fds \cup {NoFd}, responding : BOOLEAN]
  BY <1>1, <1>2
<1> QED BY <1>1, <1>2, <1>3

LEMMA Responded ==
  ASSUME TypeOK, NEW k \in Slots, NEW r \in BOOLEAN,
         clients' = [clients EXCEPT ![k].responding = r]
  PROVE  /\ clients' \in [Slots -> [state : {"empty", "init", "ready"},
                                    fd : Fds \cup {NoFd}, responding : BOOLEAN]]
         /\ \A i \in Slots : /\ clients'[i].fd = clients[i].fd
                             /\ clients'[i].state = clients[i].state
                             /\ clients'[i].responding =
                                  IF i = k THEN r ELSE clients[i].responding
<1>1. clients \in [Slots -> [state : {"empty", "init", "ready"},
                            fd : Fds \cup {NoFd}, responding : BOOLEAN]]
  BY DEF TypeOK
<1>2. clients' = [i \in Slots |->
                   IF i = k THEN [clients[i] EXCEPT !.responding = r] ELSE clients[i]]
  BY <1>1
<1>3. \A i \in Slots : clients'[i] \in [state : {"empty", "init", "ready"},
                                        fd : Fds \cup {NoFd}, responding : BOOLEAN]
  BY <1>1, <1>2
<1> QED BY <1>1, <1>2, <1>3

(* Deleting a client empties its slot and closes its descriptor.           *)
LEMMA Deleted ==
  ASSUME TypeOK, NEW k \in Slots, clients[k].fd \in Fds, delete_client(k)
  PROVE  /\ clients' \in [Slots -> [state : {"empty", "init", "ready"},
                                    fd : Fds \cup {NoFd}, responding : BOOLEAN]]
         /\ Live' = Live \ {k}
         /\ \A i \in Slots : /\ clients'[i].fd = clients[i].fd
                             /\ clients'[i].responding = clients[i].responding
         /\ peer' \in [Fds -> Clients \cup {NoClient}]
         /\ watched' \in [Fds -> Slots \cup {-1}]
         /\ ready' \subseteq {fd \in Fds : watched'[fd] # -1}
         /\ peer'[clients[k].fd] = NoClient /\ watched'[clients[k].fd] = -1
         /\ \A f \in Fds : f # clients[k].fd =>
              peer'[f] = peer[f] /\ watched'[f] = watched[f]
<1>1. clients' \in [Slots -> [state : {"empty", "init", "ready"},
                             fd : Fds \cup {NoFd}, responding : BOOLEAN]]
  BY DEF TypeOK, delete_client
<1>2. \A i \in Slots : /\ clients'[i].fd = clients[i].fd
                       /\ clients'[i].responding = clients[i].responding
                       /\ clients'[i].state = IF i = k THEN "empty" ELSE clients[i].state
  BY DEF TypeOK, delete_client
<1>3. Live' = Live \ {k}
  BY <1>2 DEF Live
<1>4. /\ peer' = [peer EXCEPT ![clients[k].fd] = NoClient]
      /\ watched' = [watched EXCEPT ![clients[k].fd] = -1]
      /\ ready' = ready \ {clients[k].fd}
  BY DEF delete_client, Close
<1> QED BY <1>1, <1>2, <1>3, <1>4 DEF TypeOK

(* The same, for the invariants that tie slots and descriptors together.   *)
LEMMA DeletedKeeps ==
  ASSUME Inv, NEW k \in Slots, clients[k].fd \in Fds, delete_client(k),
         UNCHANGED <<backlog, pc>>
  PROVE  /\ OneConnection'
         /\ WatchedBySlot'
<1> USE DEF Inv, Shape
<1>1. OneConnection'
  <2>1. \A f \in Fds : peer'[f] # NoClient => peer'[f] = peer[f]
    BY Deleted
  <2>2. \A c \in Clients : c # NoClient
    OBVIOUS
  <2>3. \A n \in DOMAIN backlog : backlog[n] \in Clients
    BY ElementOfSeq
  <2> QED BY <2>1, <2>2, <2>3 DEF OneConnection
<1>2. WatchedBySlot'
  <2> SUFFICES ASSUME NEW f \in Fds, watched'[f] # -1
               PROVE  /\ watched'[f] \in Live' /\ clients'[watched'[f]].fd = f
                      /\ peer'[f] # NoClient
    BY DEF WatchedBySlot
  <2>1. f # clients[k].fd /\ watched'[f] = watched[f] /\ peer'[f] = peer[f]
    BY Deleted
  <2>2. /\ watched[f] \in Live /\ clients[watched[f]].fd = f
        /\ peer[f] # NoClient
    BY <2>1 DEF WatchedBySlot
  <2> QED BY <2>1, <2>2, Deleted DEF Live
<1> QED BY <1>1, <1>2

(* A step that deletes slot k leaves the pings of the others outstanding.  *)
LEMMA DeletedOutstanding ==
  ASSUME Inv, NEW k \in Slots, clients[k].fd \in Fds, delete_client(k),
         UNCHANGED <<pc, stream, pings, misread>>,
         \/ main' = main
         \/ /\ main.at = "dispatching" => main.type # "ping"
            /\ main'.at # "adding"
  PROVE  Outstanding'
<1>1. TypeOK /\ SlotsHaveFds /\ Outstanding
  BY DEF Inv, Shape
<1>2. SUFFICES ASSUME NEW i \in Live', NEW f, f = clients'[i].fd,
                      NEW c, c = peer'[f], ~clients'[i].responding,
                      c # NoClient, Reports(f, i)', pc'[c] # "gone", c \notin misread'
               PROVE  Asked(i, c)'
  BY Zenon DEF Outstanding
<1>3. Live' = Live \ {k} /\ Live \subseteq Slots
  BY <1>1, Deleted DEF Live
<1>4. i \in Live /\ i \in Slots /\ i # k
  BY <1>3
<1>5. f = clients[i].fd /\ clients'[i].responding = clients[i].responding
  BY <1>1, <1>2, <1>4, Deleted
<1>6. f \in Fds
  BY <1>1, <1>4, <1>5 DEF SlotsHaveFds
<1>7. f # clients[k].fd
  BY <1>1, <1>2, Deleted
<1>8. c = peer[f] /\ watched'[f] = watched[f]
  BY <1>1, <1>2, <1>6, <1>7, Deleted
<1>9. Reports(f, i)
  BY <1>2, <1>8 DEF Reports
<1>10. Asked(i, c)
  BY <1>1, <1>2, <1>4, <1>5, <1>8, <1>9 DEF Outstanding
<1> QED BY <1>10 DEF Asked

(* The main thread deletes a slot at the end of an event.                  *)
LEMMA DroppedByMain ==
  ASSUME Inv, NEW k \in Slots, clients[k].fd \in Fds, delete_client(k),
         running, main.at \in {"handling", "naming", "dispatching"},
         main.at = "dispatching" => main.type # "ping",
         EventDone, UNCHANGED <<mutex, pinger, backlog, outside>>
  PROVE  Inv'
<1> USE DEF Inv, outside
<1>1. Shape'
  BY EventLeft, Deleted DEF Shape, TypeOK, MainShape
<1>8. SocketEvents'
  BY SocketLeft DEF Shape
<1>2. SlotsHaveFds'
  <2>1. \A i \in Live' : clients'[i].fd \in Fds
    BY Deleted DEF SlotsHaveFds, Live, Shape
  <2>2. \A i \in Slots : clients'[i].fd = clients[i].fd
    BY Deleted DEF Shape
  <2> QED BY <2>1, <2>2, SlotsLeft DEF Shape
<1>3. OneConnection' /\ WatchedBySlot'
  BY DeletedKeeps
<1>4. AddingSlot'
  BY EventLeft DEF AddingSlot, Shape
<1>5. GarbledMisread'
  BY DEF GarbledMisread
<1>6. NoDescriptorLeak'
  <2> SUFFICES ASSUME NEW f \in Fds, peer'[f] # NoClient
               PROVE  \E i \in Live' : clients'[i].fd = f
    BY DEF NoDescriptorLeak
  <2>1. f # clients[k].fd /\ peer[f] # NoClient
    BY Deleted DEF Shape
  <2>2. PICK i \in Live : clients[i].fd = f
    BY <2>1 DEF NoDescriptorLeak
  <2>3. i # k /\ i \in Slots
    BY <2>1, <2>2 DEF Live
  <2> QED BY <2>2, <2>3, Deleted DEF Shape
<1>7. Outstanding'
  BY DeletedOutstanding, EventLeft DEF Shape
<1> QED BY <1>1, <1>2, <1>3, <1>4, <1>5, <1>6, <1>7, <1>8

-----------------------------------------------------------------------------
(* The steps of the main thread.                                           *)

(* epoll_wait returns events of slots that have their descriptors.         *)
LEMMA EpollEvents ==
  ASSUME Inv, EpollWait
  PROVE  /\ batch' \in Seq(Events) /\ batch' # <<>>
         /\ \A n \in DOMAIN batch' :
              batch'[n].type = "client" => clients[batch'[n].slot].fd \in Fds
         /\ \A m, n \in Sockets' : m = n
         /\ Sockets' # {} => backlog # <<>>
<1>1. /\ ready \subseteq {fd \in Fds : watched[fd] # -1} /\ WatchedBySlot
      /\ SlotsHaveFds /\ watched \in [Fds -> Slots \cup {-1}]
  BY DEF Inv, Shape, TypeOK
<1>2. PICK hung \in SUBSET {fd \in ready : Broken(fd)} :
        LET Reported == {[type |-> "client", slot |-> watched[fd],
                          hup |-> fd \in hung] : fd \in ready}
                        \cup IF backlog = <<>> THEN {} ELSE {[type |-> "socket"]}
        IN  /\ Reported # {}
            /\ batch' \in SetToSeqs(Reported)
  BY DEF EpollWait
<1> DEFINE Hup(fd)  == fd \in hung
           Ready    == {[type |-> "client", slot |-> watched[fd], hup |-> Hup(fd)] : fd \in ready}
           Reported == Ready \cup IF backlog = <<>> THEN {} ELSE {[type |-> "socket"]}
           g        == [fd \in ready |-> [type |-> "client", slot |-> watched[fd], hup |-> Hup(fd)]]
<1>3. Reported # {} /\ batch' \in SetToSeqs(Reported)
  BY <1>2
<1>4. \A e \in Reported :
        e \in Events /\ (e.type = "client" => clients[e.slot].fd \in Fds)
  <2>1. \A fd \in ready : Hup(fd) \in BOOLEAN
    OBVIOUS
  <2>2. \A fd \in ready : watched[fd] \in Slots /\ clients[watched[fd]].fd \in Fds
    BY <1>1 DEF WatchedBySlot, Live
  <2> HIDE DEF Hup
  <2>3. \A e \in Ready :
          e \in Events /\ (e.type = "client" => clients[e.slot].fd \in Fds)
    BY <2>1, <2>2 DEF Events
  <2>4. [type |-> "socket"] \in Events /\ [type |-> "socket"].type # "client"
    BY DEF Events
  <2> QED BY <2>3, <2>4
<1>5. IsFiniteSet(Reported)
  <2>1. IsFiniteSet(ready)
    BY <1>1, FdsFinite, FS_Subset
  <2>2. g \in Surjection(ready, Ready)
    BY DEF Surjection
  <2> HIDE DEF g, Ready
  <2>3. IsFiniteSet(Ready)
    BY <2>1, <2>2, FS_Surjection
  <2> QED BY <2>3, FS_AddElement
<1>10. \A e \in Reported :
         e.type = "socket" => e = [type |-> "socket"] /\ backlog # <<>>
  <2> HIDE DEF Hup
  <2> QED OBVIOUS
<1> HIDE DEF Reported
<1>6. Cardinality(Reported) \in Nat \ {0}
  BY <1>3, <1>5, FS_CardinalityType, FS_EmptySet
<1>7. batch' \in [1..Cardinality(Reported) -> Reported]
  BY <1>3 DEF SetToSeqs
<1>8. batch' \in [1..Cardinality(Reported) -> Events]
  BY <1>4, <1>7
<1>9. batch' \in Seq(Events) /\ Len(batch') = Cardinality(Reported)
  BY <1>6, <1>8, SeqDef, LenProperties
<1>11. /\ batch' # <<>>
       /\ DOMAIN batch' = 1..Cardinality(Reported)
       /\ \A n \in DOMAIN batch' : batch'[n] \in Reported
  BY <1>6, <1>7, <1>9, EmptySeq, LenProperties
<1>12. \A m, n \in DOMAIN batch' : batch'[m] = batch'[n] => m = n
  BY <1>3, <1>11 DEF SetToSeqs
<1>13. \A m, n \in Sockets' : m = n
  BY <1>10, <1>11, <1>12 DEF Sockets
<1>14. Sockets' # {} => backlog # <<>>
  BY <1>10, <1>11 DEF Sockets
<1> QED BY <1>4, <1>9, <1>11, <1>13, <1>14

LEMMA EpollWaitKeeps ==
  ASSUME Inv, EpollWait
  PROVE  Inv'
<1> USE DEF Inv, Shape, outside
<1>1. /\ UNCHANGED <<clients, mutex, pinger, running, peer, watched, backlog, pc, stream,
                     pings, misread>>
      /\ main' \in [at : {"waiting", "handling"}] /\ main'.at = "handling"
      /\ main.at = "waiting" /\ ready' = {}
  BY DEF EpollWait, At
<1>2. Shape'
  BY <1>1, EpollEvents DEF TypeOK, MainShape
<1>3. SlotsHaveFds'
  BY <1>1, EpollEvents DEF SlotsHaveFds, Live
<1>7. SocketEvents'
  BY <1>1, EpollEvents DEF SocketEvents
<1>4. OneConnection' /\ WatchedBySlot' /\ AddingSlot' /\ GarbledMisread'
  BY <1>1 DEF OneConnection, WatchedBySlot, AddingSlot, GarbledMisread, Live
<1>5. NoDescriptorLeak'
  BY <1>1 DEF NoDescriptorLeak, Live
<1>6. Outstanding'
  BY <1>1 DEF Outstanding, Asked, Reports, Live
<1> QED BY <1>2, <1>3, <1>4, <1>5, <1>6, <1>7

LEMMA AcceptKeeps ==
  ASSUME Inv, Accept
  PROVE  Inv'
<1> USE DEF Inv, Shape, outside
<1>1. main.at = "handling" /\ 1 \in Sockets /\ Event.type = "socket"
  BY EventAtHand DEF Accept, At, Sockets
<1>2. /\ backlog \in Seq(Clients) /\ backlog # <<>>
      /\ backlog' = Tail(backlog)
  BY <1>1 DEF SocketEvents, Accept
<1>3. PICK fd \in Fds : /\ peer[fd] = NoClient
                        /\ peer' = [peer EXCEPT ![fd] = Head(backlog)]
                        /\ main' = [at |-> "accepted", fd |-> fd]
  BY DEF Accept
<1>4. UNCHANGED <<clients, mutex, batch, pinger, running, watched, ready, pc, stream,
                  pings, misread>>
  BY DEF Accept
<1>5. /\ Head(backlog) \in Clients /\ Head(backlog) = backlog[1] /\ 1 \in DOMAIN backlog
      /\ backlog' \in Seq(Clients)
      /\ \A n \in DOMAIN backlog' : /\ n \in Nat \ {0} /\ n + 1 \in DOMAIN backlog
                                    /\ backlog'[n] = backlog[n + 1]
  <2>1. /\ Head(backlog) \in Clients /\ Head(backlog) = backlog[1]
        /\ backlog' \in Seq(Clients) /\ Len(backlog') = Len(backlog) - 1
        /\ \A n \in 1..Len(backlog') : backlog'[n] = backlog[n + 1]
        /\ Len(backlog) \in Nat \ {0}
        /\ DOMAIN backlog = 1..Len(backlog) /\ DOMAIN backlog' = 1..Len(backlog')
    BY <1>2, HeadTailProperties, LenProperties
  <2> QED BY <2>1
<1>6. Shape'
  <2>1. TypeOK'
    BY <1>1, <1>3, <1>4, <1>5 DEF TypeOK
  <2>2. main' \in [at : {"accepted", "refusing"}, fd : Fds]
    BY <1>3
  <2> QED BY <1>4, <1>5, <2>1, <2>2 DEF MainShape
<1>7. SlotsHaveFds' /\ SocketEvents' /\ GarbledMisread' /\ AddingSlot'
  BY <1>1, <1>3, <1>4 DEF SlotsHaveFds, SocketEvents, Sockets, GarbledMisread, AddingSlot, Live
<1>8. OneConnection'
  <2>1. \A f \in Fds : peer'[f] = IF f = fd THEN backlog[1] ELSE peer[f]
    BY <1>3, <1>5 DEF TypeOK
  <2>2. \A f \in Fds : peer[f] # backlog[1]
    BY <1>5 DEF OneConnection
  <2>3. \A f, h \in Fds : peer'[f] # NoClient /\ peer'[f] = peer'[h] => f = h
    BY <2>1, <2>2 DEF OneConnection
  <2>4. \A m, n \in DOMAIN backlog' : backlog'[m] = backlog'[n] => m = n
    BY <1>5 DEF OneConnection
  <2>5. \A n \in DOMAIN backlog' : backlog'[n] # backlog[1]
    BY <1>5 DEF OneConnection
  <2>9. \A n \in DOMAIN backlog : \A f \in Fds : peer[f] # backlog[n]
    BY DEF OneConnection
  <2>6. ASSUME NEW n \in DOMAIN backlog', NEW f \in Fds
        PROVE  peer'[f] # backlog'[n]
    <3>1. n + 1 \in DOMAIN backlog /\ backlog'[n] = backlog[n + 1]
      BY <1>5, <2>6
    <3>2. backlog'[n] # backlog[1] /\ peer[f] # backlog'[n]
      BY <2>5, <2>6, <2>9, <3>1, Zenon
    <3> QED BY <2>1, <2>6, <3>2
  <2>7. pc[backlog[1]] # "outside"
    BY <1>5 DEF OneConnection
  <2>8. \A c \in Clients :
          pc[c] = "outside" => /\ \A n \in DOMAIN backlog' : backlog'[n] # c
                               /\ \A f \in Fds : peer'[f] # c
    BY <1>5, <2>1, <2>7 DEF OneConnection
  <2> QED BY <1>4, <2>3, <2>4, <2>6, <2>8 DEF OneConnection
<1>9. WatchedBySlot'
  BY <1>3, <1>4, <1>5 DEF WatchedBySlot, Live, TypeOK
<1>10. NoDescriptorLeak'
  BY <1>1, <1>3, <1>4 DEF NoDescriptorLeak, Live, TypeOK
<1>11. Outstanding'
  <2> SUFFICES ASSUME NEW i \in Live', NEW f, f = clients'[i].fd,
                      NEW c, c = peer'[f], ~clients'[i].responding,
                      c # NoClient, Reports(f, i)', pc'[c] # "gone", c \notin misread'
               PROVE  Asked(i, c)'
    BY Zenon DEF Outstanding
  <2>1. i \in Live /\ f = clients[i].fd /\ f \in Fds
    BY <1>4 DEF Live, SlotsHaveFds
  <2>2. watched[f] = i
    BY <1>3, <1>4 DEF Reports
  <2>3. f # fd
    BY <1>3, <2>1, <2>2 DEF WatchedBySlot, Live, Slots
  <2>4. c = peer[f]
    BY <1>3, <2>1, <2>3 DEF TypeOK
  <2>5. Asked(i, c)
    BY <1>4, <2>1, <2>2, <2>4 DEF Outstanding, Reports
  <2> QED BY <1>1, <1>4, <2>5 DEF Asked
<1> QED BY <1>6, <1>7, <1>8, <1>9, <1>10, <1>11

(* new_client takes the lowest free slot, or finds none.                   *)
LEMMA NewClientKeeps ==
  ASSUME Inv, NewClient
  PROVE  Inv'
<1> USE DEF Inv, Shape, outside, kernel
<1> DEFINE slot == CHOOSE i \in Slots \ Live : \A j \in Slots \ Live : i <= j
<1>1. slot \in Slots /\ slot \notin Live
  BY LowestIsIn DEF NewClient, Live
<1>2. /\ clients' = [clients EXCEPT ![slot] = [state |-> "init", fd |-> main.fd,
                                               responding |-> TRUE]]
      /\ main' = [at |-> "adding", fd |-> main.fd, slot |-> slot]
      /\ UNCHANGED <<mutex, batch, pinger, running, peer, watched, ready, backlog, pc,
                     stream, pings, misread>>
  BY DEF NewClient
<1> HIDE DEF slot
<1>3. main.at = "accepted" /\ main.fd \in Fds
  BY DEF NewClient, At, MainShape
<1>4. /\ clients' \in [Slots -> [state : {"empty", "init", "ready"},
                                 fd : Fds \cup {NoFd}, responding : BOOLEAN]]
      /\ clients'[slot] = [state |-> "init", fd |-> main.fd, responding |-> TRUE]
      /\ \A i \in Slots : i # slot => clients'[i] = clients[i]
  BY <1>1, <1>2, <1>3 DEF TypeOK
<1>5. Live' = Live \cup {slot}
  BY <1>1, <1>4 DEF Live
<1>6. Shape'
  <2>1. TypeOK'
    BY <1>2, <1>3, <1>4 DEF TypeOK
  <2>2. main' \in [at : {"adding"}, fd : Fds, slot : Slots]
    BY <1>1, <1>2, <1>3
  <2> QED BY <1>2, <2>1, <2>2 DEF MainShape
<1>7. SlotsHaveFds'
  <2>1. \A n \in DOMAIN batch : batch[n] \in Events
    BY ElementOfSeq
  <2> QED BY <1>2, <1>3, <1>4, <1>5, <2>1 DEF SlotsHaveFds, Live, Events
<1>8. SocketEvents' /\ OneConnection' /\ GarbledMisread'
  BY <1>2, <1>3 DEF SocketEvents, Sockets, OneConnection, GarbledMisread
<1>9. WatchedBySlot'
  BY <1>1, <1>2, <1>4, <1>5 DEF WatchedBySlot, Live
<1>10. AddingSlot'
  BY <1>2, <1>4, <1>5 DEF AddingSlot
<1>11. NoDescriptorLeak'
  BY <1>1, <1>2, <1>3, <1>4, <1>5 DEF NoDescriptorLeak, Live
<1>12. Outstanding'
  <2> SUFFICES ASSUME NEW i \in Live', NEW f, f = clients'[i].fd,
                      NEW c, c = peer'[f], ~clients'[i].responding,
                      c # NoClient, Reports(f, i)', pc'[c] # "gone", c \notin misread'
               PROVE  Asked(i, c)'
    BY Zenon DEF Outstanding
  <2>1. i # slot /\ i \in Live /\ f = clients[i].fd /\ ~clients[i].responding
    BY <1>4, <1>5 DEF Live
  <2>2. watched[f] = i
    BY <1>2, <2>1 DEF Reports
  <2>3. Asked(i, c)
    BY <1>2, <2>1, <2>2 DEF Outstanding, Reports
  <2> QED BY <1>2, <1>3, <2>3 DEF Asked
<1> QED BY <1>6, <1>7, <1>8, <1>9, <1>10, <1>11, <1>12

LEMMA NewClientFullKeeps ==
  ASSUME Inv, NewClientFull
  PROVE  Inv'
<1> USE DEF Inv, Shape, outside, kernel
<1>1. /\ main.at = "accepted" /\ mutex = "none" /\ mutex' = "main"
      /\ main' = [main EXCEPT !.at = "refusing"]
      /\ UNCHANGED <<clients, batch, pinger, running, peer, watched, ready, backlog, pc,
                     stream, pings, misread>>
  BY DEF NewClientFull, At
<1>2. main \in [at : {"accepted", "refusing"}, fd : Fds]
  BY <1>1 DEF MainShape
<1>3. /\ main' \in [at : {"accepted", "refusing"}, fd : Fds]
      /\ main'.at = "refusing" /\ main'.fd = main.fd
  BY <1>1, <1>2
<1>4. Shape'
  BY <1>1, <1>3 DEF TypeOK, MainShape
<1>5. /\ SlotsHaveFds' /\ SocketEvents' /\ OneConnection' /\ GarbledMisread'
      /\ WatchedBySlot' /\ AddingSlot'
  BY <1>1, <1>3 DEF SlotsHaveFds, SocketEvents, Sockets, OneConnection, GarbledMisread,
                    WatchedBySlot, AddingSlot, Live
<1>6. NoDescriptorLeak'
  BY <1>1, <1>3 DEF NoDescriptorLeak, Live
<1>7. Outstanding'
  BY <1>1, <1>3 DEF Outstanding, Asked, Reports, Live
<1> QED BY <1>4, <1>5, <1>6, <1>7

(* A refused connection is closed before anything knows of it.             *)
LEMMA RefuseKeeps ==
  ASSUME Inv, Refuse
  PROVE  Inv'
<1> USE DEF Inv, Shape, outside
<1>1. /\ running /\ main.at = "refusing" /\ EventDone
      /\ UNCHANGED <<clients, mutex, pinger, backlog, pc, stream, pings, misread>>
      /\ Close(main.fd)
  BY DEF Refuse, At
<1>2. main.fd \in Fds
  BY <1>1 DEF MainShape
<1>3. /\ peer' = [peer EXCEPT ![main.fd] = NoClient]
      /\ watched' = [watched EXCEPT ![main.fd] = -1]
      /\ ready' = ready \ {main.fd}
  BY <1>1 DEF Close
<1>4. Shape'
  <2>1. TypeOK'
    BY <1>1, <1>2, <1>3, EventLeft DEF TypeOK
  <2> QED BY <1>1, <2>1, EventLeft DEF MainShape
<1>5. SlotsHaveFds'
  BY <1>1, SlotsLeft DEF SlotsHaveFds, Live
<1>6. SocketEvents'
  BY <1>1, SocketLeft
<1>7. OneConnection'
  <2>1. \A f \in Fds : peer'[f] # NoClient => peer'[f] = peer[f]
    BY <1>3 DEF TypeOK
  <2>2. \A n \in DOMAIN backlog : backlog[n] \in Clients
    BY ElementOfSeq
  <2>3. \A c \in Clients : c # NoClient
    OBVIOUS
  <2> QED BY <1>1, <2>1, <2>2, <2>3 DEF OneConnection
<1>8. WatchedBySlot' /\ AddingSlot' /\ GarbledMisread'
  BY <1>1, <1>3, EventLeft DEF WatchedBySlot, AddingSlot, GarbledMisread, Live, TypeOK
<1>9. NoDescriptorLeak'
  BY <1>1, <1>3 DEF NoDescriptorLeak, Live, TypeOK
<1>10. Outstanding'
  <2> SUFFICES ASSUME NEW i \in Live', NEW f, f = clients'[i].fd,
                      NEW c, c = peer'[f], ~clients'[i].responding,
                      c # NoClient, Reports(f, i)', pc'[c] # "gone", c \notin misread'
               PROVE  Asked(i, c)'
    BY Zenon DEF Outstanding
  <2>1. i \in Live /\ f = clients[i].fd /\ f \in Fds
    BY <1>1 DEF Live, SlotsHaveFds
  <2>2. c = peer[f] /\ watched'[f] = watched[f]
    BY <1>2, <1>3, <2>1 DEF TypeOK
  <2>3. watched[f] = i
    BY <1>1, <2>2, EventLeft DEF Reports
  <2>4. Asked(i, c)
    BY <1>1, <2>1, <2>2, <2>3 DEF Outstanding, Reports
  <2> QED BY <1>1, <2>4 DEF Asked
<1> QED BY <1>4, <1>5, <1>6, <1>7, <1>8, <1>9, <1>10

(* From here epoll reports the descriptor to its slot, if it is still open. *)
LEMMA AddToEpollKeeps ==
  ASSUME Inv, AddToEpoll
  PROVE  Inv'
<1> USE DEF Inv, Shape, outside
<1>1. /\ running /\ main.at = "adding" /\ EventDone
      /\ UNCHANGED <<clients, mutex, pinger, peer, backlog, pc, stream, pings, misread>>
  BY DEF AddToEpoll, At
<1>2. main.fd \in Fds /\ main.slot \in Slots
  BY <1>1 DEF MainShape
<1>3. \/ UNCHANGED <<watched, ready>>
      \/ /\ peer[main.fd] # NoClient
         /\ watched' = [watched EXCEPT ![main.fd] = main.slot]
         /\ ready' \in {ready, ready \cup {main.fd}}
  BY DEF AddToEpoll
<1>4. /\ watched' \in [Fds -> Slots \cup {-1}]
      /\ ready' \subseteq {fd \in Fds : watched'[fd] # -1}
      /\ \A f \in Fds :
           \/ watched'[f] = watched[f]
           \/ peer[main.fd] # NoClient /\ f = main.fd /\ watched'[f] = main.slot
  <2>1. main.slot # -1
    BY <1>2 DEF Slots
  <2>2. /\ watched \in [Fds -> Slots \cup {-1}]
        /\ ready \subseteq {fd \in Fds : watched[fd] # -1}
    BY DEF TypeOK
  <2>3. CASE UNCHANGED <<watched, ready>>
    BY <2>2, <2>3
  <2>4. CASE /\ peer[main.fd] # NoClient
             /\ watched' = [watched EXCEPT ![main.fd] = main.slot]
             /\ ready' \in {ready, ready \cup {main.fd}}
    <3>1. watched' \in [Fds -> Slots \cup {-1}]
      BY <1>2, <2>2, <2>4
    <3>2. \A f \in Fds : watched'[f] = IF f = main.fd THEN main.slot ELSE watched[f]
      BY <1>2, <2>2, <2>4
    <3> QED BY <1>2, <2>1, <2>2, <2>4, <3>1, <3>2
  <2> QED BY <1>3, <2>3, <2>4
<1>5. Shape'
  <2>1. TypeOK'
    BY <1>1, <1>4, EventLeft DEF TypeOK
  <2> QED BY <1>1, <2>1, EventLeft DEF MainShape
<1>6. SlotsHaveFds'
  BY <1>1, SlotsLeft DEF SlotsHaveFds, Live
<1>7. SocketEvents'
  BY <1>1, SocketLeft
<1>8. OneConnection' /\ AddingSlot' /\ GarbledMisread'
  BY <1>1, EventLeft DEF OneConnection, AddingSlot, GarbledMisread
<1>9. WatchedBySlot'
  BY <1>1, <1>2, <1>4 DEF WatchedBySlot, AddingSlot, Live
<1>10. NoDescriptorLeak'
  BY <1>1 DEF NoDescriptorLeak, Live
<1>11. Outstanding'
  <2> SUFFICES ASSUME NEW i \in Live', NEW f, f = clients'[i].fd,
                      NEW c, c = peer'[f], ~clients'[i].responding,
                      c # NoClient, Reports(f, i)', pc'[c] # "gone", c \notin misread'
               PROVE  Asked(i, c)'
    BY Zenon DEF Outstanding
  <2>1. i \in Live /\ f = clients[i].fd /\ f \in Fds
    BY <1>1 DEF Live, SlotsHaveFds
  <2>2. watched'[f] = i
    BY <1>1, EventLeft DEF Reports
  <2>3. Reports(f, i)
    BY <1>1, <1>4, <2>1, <2>2 DEF Reports
  <2>4. Asked(i, c)
    BY <1>1, <2>1, <2>3 DEF Outstanding
  <2> QED BY <1>1, <2>4 DEF Asked
<1> QED BY <1>5, <1>6, <1>7, <1>8, <1>9, <1>10, <1>11

LEMMA HangUpKeeps ==
  ASSUME Inv, HangUp
  PROVE  Inv'
<1>1. /\ running /\ main.at = "handling" /\ Event.type = "client"
      /\ delete_client(Event.slot) /\ EventDone
      /\ UNCHANGED <<mutex, pinger, running, backlog, outside>>
  BY DEF HangUp, At
<1>2. Event.slot \in Slots /\ clients[Event.slot].fd \in Fds
  BY <1>1, EventAtHand DEF Inv
<1> QED BY <1>1, <1>2, DroppedByMain

LEMMA NameTakenKeeps ==
  ASSUME Inv, NameTaken
  PROVE  Inv'
<1>1. /\ running /\ main.at = "naming" /\ delete_client(main.slot) /\ EventDone
      /\ UNCHANGED <<mutex, pinger, backlog, outside>>
  BY DEF NameTaken, At
<1>2. main.slot \in Slots /\ clients[main.slot].fd \in Fds
  BY <1>1 DEF Inv, Shape, MainShape
<1> QED BY <1>1, <1>2, DroppedByMain

LEMMA DisconnectKeeps ==
  ASSUME Inv, Disconnect
  PROVE  Inv'
<1>1. /\ running /\ main.at = "dispatching" /\ main.type = "disconnect"
      /\ delete_client(main.slot) /\ EventDone
      /\ UNCHANGED <<mutex, pinger, running, backlog, outside>>
  BY DEF Disconnect, At
<1>2. main.slot \in Slots /\ clients[main.slot].fd \in Fds
  BY <1>1 DEF Inv, Shape, MainShape
<1> QED BY <1>1, <1>2, DroppedByMain

(* The slot of the message at hand is marked, or nothing is.               *)
LEMMA Noted ==
  ASSUME Inv, running, EventDone, UNCHANGED <<mutex, pinger, kernel, outside>>,
         \/ /\ main.at = "naming"
            /\ clients' = [clients EXCEPT ![main.slot].state = "ready"]
         \/ /\ main.at = "dispatching"
            /\ clients' = [clients EXCEPT ![main.slot].responding = TRUE]
         \/ /\ main.at = "dispatching" /\ main.type # "ping"
            /\ clients' = clients
  PROVE  Inv'
<1> USE DEF Inv, Shape, outside, kernel
<1>1. /\ main.at \in {"naming", "dispatching"}
      /\ main.slot \in Slots /\ clients[main.slot].fd \in Fds
  BY DEF MainShape
<1>2. /\ clients' \in [Slots -> [state : {"empty", "init", "ready"},
                                 fd : Fds \cup {NoFd}, responding : BOOLEAN]]
      /\ \A i \in Slots : /\ clients'[i].fd = clients[i].fd
                          /\ clients[i].state # "empty" => clients'[i].state # "empty"
                          /\ clients'[i].state # clients[i].state => i = main.slot
                          /\ clients[i].responding => clients'[i].responding
  <2>4. TypeOK
    OBVIOUS
  <2>1. CASE clients' = [clients EXCEPT ![main.slot].state = "ready"]
    <3>1. /\ clients' \in [Slots -> [state : {"empty", "init", "ready"},
                                      fd : Fds \cup {NoFd}, responding : BOOLEAN]]
          /\ \A i \in Slots : /\ clients'[i].fd = clients[i].fd
                              /\ clients'[i].responding = clients[i].responding
                              /\ clients'[i].state =
                                   IF i = main.slot THEN "ready" ELSE clients[i].state
      BY <1>1, <2>1, <2>4, Readied, Zenon
    <3> QED BY <3>1
  <2>2. CASE clients' = [clients EXCEPT ![main.slot].responding = TRUE]
    <3>1. TRUE \in BOOLEAN
      OBVIOUS
    <3>2. /\ clients' \in [Slots -> [state : {"empty", "init", "ready"},
                                      fd : Fds \cup {NoFd}, responding : BOOLEAN]]
          /\ \A i \in Slots : /\ clients'[i].fd = clients[i].fd
                              /\ clients'[i].state = clients[i].state
                              /\ clients'[i].responding =
                                   IF i = main.slot THEN TRUE ELSE clients[i].responding
      BY <1>1, <2>2, <2>4, <3>1, Responded, Zenon
    <3> QED BY <3>2
  <2>3. CASE clients' = clients
    BY <2>3 DEF TypeOK
  <2> QED BY <2>1, <2>2, <2>3
<1>3. /\ Live \subseteq Live'
      /\ \A i \in Live' : clients'[i].fd \in Fds
  BY <1>1, <1>2 DEF SlotsHaveFds, Live
<1>4. Shape'
  <2>1. TypeOK'
    BY <1>1, <1>2, EventLeft DEF TypeOK
  <2> QED BY <1>1, <2>1, EventLeft DEF MainShape
<1>5. SlotsHaveFds'
  BY <1>1, <1>2, <1>3, SlotsLeft
<1>6. SocketEvents'
  BY <1>1, SocketLeft
<1>7. OneConnection' /\ AddingSlot' /\ GarbledMisread'
  BY <1>1, EventLeft DEF OneConnection, AddingSlot, GarbledMisread
<1>8. WatchedBySlot'
  BY <1>2, <1>3 DEF WatchedBySlot, Live
<1>9. NoDescriptorLeak'
  BY <1>1, <1>2, <1>3 DEF NoDescriptorLeak, Live
<1>10. Outstanding'
  <2> SUFFICES ASSUME NEW i \in Live', NEW f, f = clients'[i].fd,
                      NEW c, c = peer'[f], ~clients'[i].responding,
                      c # NoClient, Reports(f, i)', pc'[c] # "gone", c \notin misread'
               PROVE  Asked(i, c)'
    BY Zenon DEF Outstanding
  <2>1. i \in Slots /\ f = clients[i].fd /\ f \in Fds /\ ~clients[i].responding
    BY <1>2, <1>3 DEF Live
  <2>2. watched[f] = i
    BY <1>1, EventLeft DEF Reports
  <2>3. i \in Live
    BY <2>1, <2>2 DEF WatchedBySlot, Slots
  <2>4. Asked(i, c)
    BY <2>1, <2>2, <2>3 DEF Outstanding, Reports
  <2>5. ~(main.at = "dispatching" /\ main.slot = i /\ main.type = "ping")
    BY <1>1, <2>1 DEF TypeOK
  <2> QED BY <2>4, <2>5 DEF Asked
<1> QED BY <1>4, <1>5, <1>6, <1>7, <1>8, <1>9, <1>10

LEMMA NotedKeeps ==
  ASSUME Inv, NameAccepted \/ PingAnswered \/ Chat \/ OtherMessage
  PROVE  Inv'
<1>1. CASE NameAccepted
  BY <1>1, Noted DEF NameAccepted, At
<1>2. CASE PingAnswered
  BY <1>2, Noted DEF PingAnswered, At
<1>3. CASE Chat
  BY <1>3, Noted DEF Chat, At
<1>4. CASE OtherMessage
  BY <1>4, Noted DEF OtherMessage, At
<1> QED BY <1>1, <1>2, <1>3, <1>4

(* What a read leaves of a stream, and that a ping answer in it is left, is *)
(* the message read, or is garbled.                                        *)
LEMMA NicknameRead ==
  ASSUME NEW s \in Seq(Letters)
  PROVE  /\ RestOfNickname(s) \in Seq(Letters)
         /\ Contains(s, "ping") => Contains(RestOfNickname(s), "garbled")
<1>1. CASE s = <<>>
  <2>1. Len(s) = 0
    BY <1>1
  <2> QED BY <1>1, <2>1 DEF RestOfNickname, Contains
<1>2. CASE s # <<>>
  <2>1. /\ Len(s) \in Nat \ {0} /\ Head(s) = s[1] /\ DOMAIN s = 1..Len(s)
    BY <1>2, HeadTailProperties, LenProperties
  <2>2. PICK n \in Nat :
          /\ RestOfNickname(s) = Garbled(n)
          /\ n = 0 => Head(s) = "nickname" /\ Len(s) = 1
    <3>1. CASE Head(s) = "nickname"
      <4>1. RestOfNickname(s) = Garbled(Len(s) - 1) /\ Len(s) - 1 \in Nat
        BY <1>2, <2>1, <3>1 DEF RestOfNickname
      <4> QED BY <2>1, <3>1, <4>1
    <3>2. CASE Head(s) # "nickname"
      <4>1. RestOfNickname(s) = Garbled(Len(s))
        BY <1>2, <3>2 DEF RestOfNickname
      <4> QED BY <2>1, <4>1
    <3> QED BY <3>1, <3>2
  <2>3. n \in Nat
    BY <2>2
  <2>4. Garbled(n) \in [1..n -> Letters] /\ \A i \in 1..n : Garbled(n)[i] = "garbled"
    BY <2>3 DEF Garbled, Letters
  <2>5. Garbled(n) \in Seq(Letters) /\ Len(Garbled(n)) = n
    BY <2>3, <2>4, SeqDef, LenProperties
  <2>6. n # 0 => Contains(Garbled(n), "garbled")
    BY <2>3, <2>4, <2>5 DEF Contains
  <2>7. ASSUME n = 0 PROVE ~Contains(s, "ping")
    <3>1. Len(s) = 1 /\ s[1] # "ping"
      BY <2>1, <2>2, <2>7
    <3>2. \A i \in 1..Len(s) : i = 1
      BY <3>1
    <3> QED BY <3>1, <3>2 DEF Contains
  <2> QED BY <2>2, <2>5, <2>6, <2>7
<1> QED BY <1>1, <1>2

LEMMA MessageRead ==
  ASSUME NEW s \in Seq(Letters)
  PROVE  /\ RestOfMessage(s) \in Seq(Letters)
         /\ Contains(s, "ping") =>
              \/ Contains(RestOfMessage(s), "garbled")
              \/ Contains(RestOfMessage(s), "ping")
              \/ s # <<>> /\ Head(s) = "ping"
<1>1. CASE s = <<>>
  <2>1. Len(s) = 0
    BY <1>1
  <2> QED BY <1>1, <2>1 DEF RestOfMessage, Contains
<1>2. CASE s # <<>> /\ Head(s) = "nickname"
  BY <1>2, NicknameRead DEF RestOfMessage, RestOfNickname
<1>3. CASE s # <<>> /\ Head(s) # "nickname"
  <2>1. /\ Len(s) \in Nat \ {0} /\ Head(s) = s[1]
        /\ Tail(s) \in Seq(Letters) /\ Len(Tail(s)) = Len(s) - 1
        /\ \A n \in 1..Len(Tail(s)) : Tail(s)[n] = s[n + 1]
    BY <1>3, HeadTailProperties, LenProperties
  <2>2. RestOfMessage(s) = Tail(s)
    BY <1>3 DEF RestOfMessage
  <2>3. ASSUME NEW n \in 1..Len(s), s[n] = "ping", n # 1
        PROVE  Contains(Tail(s), "ping")
    <3>1. n - 1 \in 1..Len(Tail(s)) /\ Tail(s)[n - 1] = s[n]
      BY <2>1, <2>3
    <3> QED BY <2>3, <3>1 DEF Contains
  <2> QED BY <1>3, <2>1, <2>2, <2>3 DEF Contains
<1> QED BY <1>1, <1>2, <1>3

(* A read for slot k changes the stream of the client at its descriptor;    *)
(* the client is misread if the rest is garbled or the event was another's.*)
LEMMA ReadStream ==
  ASSUME Inv, NEW k \in Slots, clients[k].fd \in Fds,
         NEW rest \in Seq(Letters), Read(k, rest)
  PROVE  /\ stream' \in [Clients -> Seq(Letters)]
         /\ misread \subseteq misread' /\ misread' \subseteq Clients
         /\ GarbledMisread'
         /\ \A c \in Clients : c # peer[clients[k].fd] => stream'[c] = stream[c]
         /\ \A c \in Clients :
              c = peer[clients[k].fd] /\ c \notin misread' =>
                /\ stream'[c] = rest /\ ~Contains(rest, "garbled")
                /\ watched[clients[k].fd] = k
<1> DEFINE fd == clients[k].fd
<1>1. /\ stream \in [Clients -> Seq(Letters)] /\ misread \subseteq Clients
      /\ peer[fd] \in Clients \cup {NoClient} /\ GarbledMisread
  BY DEF Inv, Shape, TypeOK
<1>2. CASE peer[fd] = NoClient
  <2>1. UNCHANGED <<stream, misread>>
    BY <1>2 DEF Read
  <2>2. \A c \in Clients : c # NoClient
    OBVIOUS
  <2> QED BY <1>1, <1>2, <2>1, <2>2 DEF GarbledMisread
<1>3. CASE peer[fd] # NoClient
  <2>1. /\ stream' = [stream EXCEPT ![peer[fd]] = rest]
        /\ misread' = {c \in Clients : \/ c \in misread
                                       \/ Contains(stream'[c], "garbled")
                                       \/ (c = peer[fd] /\ watched[fd] # k)}
    BY <1>3 DEF Read
  <2>2. GarbledMisread' /\ misread \subseteq misread' /\ misread' \subseteq Clients
    BY <1>1, <2>1 DEF GarbledMisread
  <2>3. /\ stream' \in [Clients -> Seq(Letters)]
        /\ \A c \in Clients : c # peer[fd] => stream'[c] = stream[c]
        /\ stream'[peer[fd]] = rest
    BY <1>1, <1>3, <2>1
  <2> QED BY <2>1, <2>2, <2>3
<1> QED BY <1>2, <1>3

(* A read keeps the invariant, if a ping answer that is taken is at hand.  *)
LEMMA ReadKeeps ==
  ASSUME Inv, NEW k \in Slots, clients[k].fd \in Fds,
         NEW rest \in Seq(Letters), Read(k, rest),
         running, main.at = "handling", main'.slot = k,
         \/ main' \in [at : {"naming"}, slot : Slots]
         \/ main' \in [at : {"dispatching"}, slot : Slots, type : Messages \cup {"other"}],
         Contains(Sent(k), "ping") =>
           \/ Contains(rest, "garbled")
           \/ Contains(rest, "ping")
           \/ main'.at = "dispatching" /\ main'.type = "ping",
         UNCHANGED <<clients, mutex, batch, pinger, running, kernel, pc, pings>>
  PROVE  Inv'
<1> USE DEF Inv, Shape, kernel
<1>1. /\ main'.at \in {"naming", "dispatching"}
      /\ stream' \in [Clients -> Seq(Letters)]
  BY ReadStream
<1>2. Shape'
  <2>1. TypeOK'
    BY <1>1, ReadStream DEF TypeOK
  <2>2. MainShape'
    BY DEF MainShape
  <2> QED BY <1>1, <2>1, <2>2
<1>3. SlotsHaveFds' /\ SocketEvents' /\ OneConnection'
  BY <1>1 DEF SlotsHaveFds, SocketEvents, Sockets, OneConnection, Live
<1>4. WatchedBySlot' /\ AddingSlot' /\ NoDescriptorLeak'
  BY <1>1 DEF WatchedBySlot, AddingSlot, NoDescriptorLeak, Live
<1>5. GarbledMisread'
  BY ReadStream
<1>6. Outstanding'
  <2> SUFFICES ASSUME NEW i \in Live', NEW f, f = clients'[i].fd,
                      NEW c, c = peer'[f], ~clients'[i].responding,
                      c # NoClient, Reports(f, i)', pc'[c] # "gone", c \notin misread'
               PROVE  Asked(i, c)'
    BY Zenon DEF Outstanding
  <2>1. /\ i \in Live /\ f = clients[i].fd /\ f \in Fds /\ ~clients[i].responding
        /\ c = peer[f] /\ watched[f] = i /\ c \notin misread
    BY <1>1, ReadStream DEF Live, SlotsHaveFds, Reports
  <2>2. c \in Clients
    BY <2>1 DEF TypeOK
  <2>3. Asked(i, c)
    BY <2>1 DEF Outstanding, Reports
  <2>4. CASE c # peer[clients[k].fd]
    <3>1. stream'[c] = stream[c]
      BY <2>2, <2>4, ReadStream
    <3> QED BY <2>3, <3>1 DEF Asked
  <2>5. CASE c = peer[clients[k].fd]
    <3>1. stream'[c] = rest /\ ~Contains(rest, "garbled") /\ watched[clients[k].fd] = k
      <4>1. c \notin misread'
        OBVIOUS
      <4> HIDE DEF Inv, Shape, kernel
      <4> QED BY <2>2, <2>5, <4>1, ReadStream
    <3>2. f = clients[k].fd
      BY <2>1, <2>5 DEF OneConnection
    <3>3. i = k
      BY <2>1, <3>1, <3>2
    <3>4. Sent(k) = stream[c]
      BY <2>5 DEF Sent
    <3> QED BY <2>3, <3>1, <3>3, <3>4 DEF Asked
  <2> QED BY <2>4, <2>5
<1> QED BY <1>2, <1>3, <1>4, <1>5, <1>6

LEMMA SentIsStream ==
  ASSUME Shape, NEW k \in Slots, clients[k].fd \in Fds
  PROVE  Sent(k) \in Seq(Letters)
<1>1. peer[clients[k].fd] \in Clients \cup {NoClient}
  BY DEF Shape, TypeOK
<1> QED BY <1>1, EmptySeq DEF Sent, Shape

LEMMA ReadNicknameKeeps ==
  ASSUME Inv, ReadNickname
  PROVE  Inv'
<1> DEFINE k == Event.slot
<1>1. /\ running /\ main.at = "handling" /\ Event.type = "client"
      /\ Read(k, RestOfNickname(Sent(k)))
      /\ main' = [at |-> "naming", slot |-> k]
      /\ UNCHANGED <<clients, mutex, batch, pinger, running, kernel, pc, pings>>
  BY DEF ReadNickname, At
<1>2. k \in Slots /\ clients[k].fd \in Fds
  BY <1>1, EventAtHand DEF Inv
<1> HIDE DEF k
<1>3. /\ RestOfNickname(Sent(k)) \in Seq(Letters)
      /\ Contains(Sent(k), "ping") => Contains(RestOfNickname(Sent(k)), "garbled")
  BY <1>2, SentIsStream, NicknameRead DEF Inv
<1>4. main' \in [at : {"naming"}, slot : Slots] /\ main'.slot = k
  BY <1>1, <1>2
<1> QED BY <1>1, <1>2, <1>3, <1>4, ReadKeeps

LEMMA ReadMessageKeeps ==
  ASSUME Inv, ReadMessage
  PROVE  Inv'
<1> DEFINE k == Event.slot
<1>1. /\ running /\ main.at = "handling" /\ Event.type = "client"
      /\ Read(k, RestOfMessage(Sent(k)))
      /\ \E type \in TypesRead(Sent(k)) :
           main' = [at |-> "dispatching", slot |-> k, type |-> type]
      /\ UNCHANGED <<clients, mutex, batch, pinger, running, kernel, pc, pings>>
  BY DEF ReadMessage, At
<1>2. k \in Slots /\ clients[k].fd \in Fds
  BY <1>1, EventAtHand DEF Inv
<1> HIDE DEF k
<1>3. PICK type \in TypesRead(Sent(k)) :
        main' = [at |-> "dispatching", slot |-> k, type |-> type]
  BY <1>1
<1>4. /\ type \in Messages \cup {"other"}
      /\ Sent(k) # <<>> /\ Head(Sent(k)) = "ping" => type = "ping"
  BY DEF TypesRead, Messages
<1>5. /\ RestOfMessage(Sent(k)) \in Seq(Letters)
      /\ Contains(Sent(k), "ping") =>
           \/ Contains(RestOfMessage(Sent(k)), "garbled")
           \/ Contains(RestOfMessage(Sent(k)), "ping")
           \/ Sent(k) # <<>> /\ Head(Sent(k)) = "ping"
  BY <1>2, SentIsStream, MessageRead DEF Inv
<1>6. /\ main' \in [at : {"dispatching"}, slot : Slots, type : Messages \cup {"other"}]
      /\ main'.slot = k /\ main'.at = "dispatching" /\ main'.type = type
  BY <1>2, <1>3, <1>4
<1> QED BY <1>1, <1>2, <1>4, <1>5, <1>6, ReadKeeps

-----------------------------------------------------------------------------
(* The steps of the ping thread.                                           *)

(* The next slot is one of the table, or the mutex is free again.          *)
LEMMA PingedOne ==
  ASSUME TypeOK, pinger # -1, SlotDone
  PROVE  /\ mutex' \in {"none", "main", "ping"}
         /\ pinger' \in Slots \cup {-1}
         /\ mutex' = "ping" <=> pinger' # -1
<1>1. -1 \notin Slots
  BY DEF Slots
<1> QED BY <1>1 DEF TypeOK, SlotDone

LEMMA PingStartKeeps ==
  ASSUME Inv, PingStart \/ PingEmpty
  PROVE  Inv'
<1> USE DEF Inv, Shape, outside, kernel
<1>1. UNCHANGED <<clients, main, batch, running, peer, watched, ready, backlog, pc, stream,
                  pings, misread>>
  BY DEF PingStart, PingEmpty
<1>2. /\ mutex' \in {"none", "main", "ping"}
      /\ pinger' \in Slots \cup {-1}
      /\ mutex' = "ping" <=> pinger' # -1
  <2>1. CASE PingStart
    BY <2>1 DEF PingStart, Slots
  <2>2. CASE PingEmpty
    <3>1. pinger # -1 /\ SlotDone
      BY <2>2 DEF PingEmpty, Slots
    <3> QED BY <3>1, PingedOne
  <2> QED BY <2>1, <2>2
<1>3. Shape'
  BY <1>1, <1>2 DEF TypeOK, MainShape
<1>4. /\ SlotsHaveFds' /\ SocketEvents' /\ OneConnection' /\ WatchedBySlot'
      /\ AddingSlot' /\ GarbledMisread' /\ NoDescriptorLeak'
  BY <1>1 DEF SlotsHaveFds, SocketEvents, Sockets, OneConnection, WatchedBySlot,
              AddingSlot, GarbledMisread, NoDescriptorLeak, Live
<1>5. Outstanding'
  BY <1>1 DEF Outstanding, Asked, Reports, Live
<1> QED BY <1>3, <1>4, <1>5

(* A ping is sent to the client the slot waits for.                        *)
LEMMA PingSendKeeps ==
  ASSUME Inv, PingSend
  PROVE  Inv'
<1> USE DEF Inv, Shape, outside, kernel
<1> DEFINE k == pinger
           d == clients[k].fd
<1>1. /\ running /\ k \in Live /\ k \in Slots /\ k # -1
      /\ clients' = [clients EXCEPT ![k].responding = FALSE]
      /\ pings' = IF peer[d] = NoClient \/ Broken(d) THEN pings
                  ELSE [pings EXCEPT ![peer[d]] = @ + 1]
      /\ SlotDone
      /\ UNCHANGED <<main, batch, peer, watched, ready, backlog, pc, stream, misread>>
  BY DEF PingSend, Live, Slots
<1>2. TypeOK /\ FALSE \in BOOLEAN
  OBVIOUS
<1>3. /\ clients' \in [Slots -> [state : {"empty", "init", "ready"},
                                 fd : Fds \cup {NoFd}, responding : BOOLEAN]]
      /\ \A i \in Slots : /\ clients'[i].fd = clients[i].fd
                          /\ clients'[i].state = clients[i].state
                          /\ clients'[i].responding =
                               IF i = k THEN FALSE ELSE clients[i].responding
  BY <1>1, <1>2, Responded, Zenon
<1>4. Live' = Live
  BY <1>3 DEF Live
<1>5. d \in Fds /\ peer[d] \in Clients \cup {NoClient}
  BY <1>1 DEF SlotsHaveFds, TypeOK
<1>6. /\ pings' \in [Clients -> Nat]
      /\ \A c \in Clients : pings[c] > 0 => pings'[c] > 0
      /\ peer[d] # NoClient /\ pc[peer[d]] # "gone" => pings'[peer[d]] > 0
  <2>1. pings \in [Clients -> Nat]
    BY DEF TypeOK
  <2>2. CASE peer[d] = NoClient \/ Broken(d)
    <3>1. pings' = pings
      BY <1>1, <2>2
    <3> QED BY <2>1, <2>2, <3>1 DEF Broken
  <2>3. CASE ~(peer[d] = NoClient \/ Broken(d))
    <3>1. pings' = [pings EXCEPT ![peer[d]] = @ + 1] /\ peer[d] \in Clients
      BY <1>1, <1>5, <2>3
    <3> HIDE DEF d, Inv
    <3> QED BY <2>1, <3>1
  <2> QED BY <2>2, <2>3
<1>7. /\ mutex' \in {"none", "main", "ping"}
      /\ pinger' \in Slots \cup {-1}
      /\ mutex' = "ping" <=> pinger' # -1
  BY <1>1, PingedOne
<1>8. Shape'
  <2>1. TypeOK'
    BY <1>1, <1>3, <1>6, <1>7 DEF TypeOK
  <2> QED BY <1>1, <1>3, <2>1 DEF MainShape
<1>9. SlotsHaveFds'
  <2>1. \A n \in DOMAIN batch : batch[n] \in Events
    BY ElementOfSeq
  <2> QED BY <1>1, <1>3, <1>4, <2>1 DEF SlotsHaveFds, Live, Events
<1>10. SocketEvents' /\ OneConnection' /\ GarbledMisread'
  BY <1>1 DEF SocketEvents, Sockets, OneConnection, GarbledMisread
<1>11. WatchedBySlot' /\ AddingSlot' /\ NoDescriptorLeak'
  BY <1>1, <1>3, <1>4 DEF WatchedBySlot, AddingSlot, NoDescriptorLeak, Live
<1>12. Outstanding'
  <2> SUFFICES ASSUME NEW i \in Live', NEW f, f = clients'[i].fd,
                      NEW c, c = peer'[f], ~clients'[i].responding,
                      c # NoClient, Reports(f, i)', pc'[c] # "gone", c \notin misread'
               PROVE  Asked(i, c)'
    BY Zenon DEF Outstanding
  <2>1. /\ i \in Live /\ i \in Slots /\ f = clients[i].fd /\ f \in Fds
        /\ c = peer[f] /\ Reports(f, i)
    BY <1>1, <1>3, <1>4 DEF SlotsHaveFds, Live, Reports
  <2>2. c \in Clients
    BY <2>1 DEF TypeOK
  <2>3. CASE i = k
    BY <1>1, <1>6, <2>1, <2>3 DEF Asked
  <2>4. CASE i # k
    <3>1. ~clients[i].responding /\ pc[c] # "gone" /\ c \notin misread
      BY <1>1, <1>3, <2>1, <2>4
    <3>2. Outstanding
      OBVIOUS
    <3> HIDE DEF Inv, Shape, k, d
    <3>3. Asked(i, c)
      BY <2>1, <3>1, <3>2 DEF Outstanding
    <3> QED BY <1>1, <1>6, <2>2, <3>3 DEF Asked
  <2> QED BY <2>3, <2>4
<1> QED BY <1>8, <1>9, <1>10, <1>11, <1>12

(* An eviction takes the slot and its descriptor out of every relation.    *)
LEMMA EvictKeeps ==
  ASSUME Inv, Evict
  PROVE  Inv'
<1> USE DEF Inv, Shape, outside
<1>1. /\ running /\ pinger \in Live /\ pinger \in Slots /\ pinger # -1
      /\ delete_client(pinger) /\ SlotDone
      /\ UNCHANGED <<main, batch, running, backlog, pc, stream, pings, misread>>
  BY DEF Evict, Live, Slots
<1>2. clients[pinger].fd \in Fds
  BY <1>1 DEF SlotsHaveFds
<1>3. /\ mutex' \in {"none", "main", "ping"}
      /\ pinger' \in Slots \cup {-1}
      /\ mutex' = "ping" <=> pinger' # -1
  BY <1>1, PingedOne
<1>4. Shape'
  <2>1. TypeOK'
    BY <1>1, <1>2, <1>3, Deleted DEF TypeOK
  <2>2. \A i \in Slots : clients'[i].fd = clients[i].fd
    BY <1>1, <1>2, Deleted
  <2> QED BY <1>1, <2>1, <2>2 DEF MainShape
<1>5. SlotsHaveFds'
  <2>1. \A n \in DOMAIN batch : batch[n] \in Events
    BY ElementOfSeq
  <2>2. Live' \subseteq Live /\ \A i \in Slots : clients'[i].fd = clients[i].fd
    BY <1>1, <1>2, Deleted
  <2> QED BY <1>1, <2>1, <2>2 DEF SlotsHaveFds, Live, Events
<1>6. SocketEvents' /\ GarbledMisread'
  BY <1>1 DEF SocketEvents, Sockets, GarbledMisread
<1>7. OneConnection' /\ WatchedBySlot'
  BY <1>1, <1>2, DeletedKeeps
<1>8. AddingSlot'
  <2> SUFFICES ASSUME main.at = "adding", peer'[main.fd] # NoClient
               PROVE  main.slot \in Live' /\ clients'[main.slot].fd = main.fd
    BY <1>1 DEF AddingSlot
  <2>1. main.fd \in Fds /\ main.slot \in Slots
    BY DEF MainShape
  <2>2. main.fd # clients[pinger].fd /\ peer'[main.fd] = peer[main.fd]
    BY <1>1, <1>2, <2>1, Deleted
  <2>3. main.slot \in Live /\ clients[main.slot].fd = main.fd
    BY <2>2 DEF AddingSlot
  <2>4. Live' = Live \ {pinger} /\ clients'[main.slot].fd = clients[main.slot].fd
    BY <1>1, <1>2, <2>1, Deleted
  <2> QED BY <2>2, <2>3, <2>4
<1>9. NoDescriptorLeak'
  <2> SUFFICES ASSUME NEW f \in Fds, peer'[f] # NoClient
               PROVE  \/ \E i \in Live' : clients'[i].fd = f
                      \/ main.at \in {"accepted", "refusing"} /\ main.fd = f
    BY <1>1 DEF NoDescriptorLeak
  <2>1. f # clients[pinger].fd /\ peer[f] # NoClient
    BY <1>1, <1>2, Deleted
  <2>2. CASE \E i \in Live : clients[i].fd = f
    <3>1. PICK i \in Live : clients[i].fd = f
      BY <2>2
    <3>2. i # pinger /\ i \in Slots
      BY <2>1, <3>1 DEF Live
    <3>3. i \in Live' /\ clients'[i].fd = f
      BY <1>1, <1>2, <3>1, <3>2, Deleted
    <3> QED BY <3>3
  <2> QED BY <1>1, <2>1, <2>2 DEF NoDescriptorLeak
<1>10. Outstanding'
  BY <1>1, <1>2, DeletedOutstanding
<1> QED BY <1>4, <1>5, <1>6, <1>7, <1>8, <1>9, <1>10

-----------------------------------------------------------------------------
(* The steps of the clients.                                               *)

(* A message arrives: it is garbled only behind another garbled one.       *)
LEMMA Said ==
  ASSUME Shape, GarbledMisread, NEW c \in Clients, NEW m \in Letters \ {"garbled"},
         Say(c, m), UNCHANGED <<misread, peer, watched>>
  PROVE  /\ stream' \in [Clients -> Seq(Letters)]
         /\ ready' \subseteq {fd \in Fds : watched'[fd] # -1}
         /\ GarbledMisread'
         /\ \A d \in Clients : Contains(stream[d], "ping") => Contains(stream'[d], "ping")
         /\ c \notin misread => Contains(stream'[c], m)
<1> DEFINE x == IF Contains(stream[c], "garbled") THEN "garbled" ELSE m
<1>1. /\ stream \in [Clients -> Seq(Letters)] /\ stream[c] \in Seq(Letters)
      /\ x \in Letters
  BY DEF Shape, Letters
<1>2. stream' = [stream EXCEPT ![c] = Append(stream[c], x)]
  BY DEF Say
<1> HIDE DEF x
<1>3. /\ Append(stream[c], x) \in Seq(Letters)
      /\ Len(Append(stream[c], x)) = Len(stream[c]) + 1
      /\ \A n \in 1..Len(stream[c]) : Append(stream[c], x)[n] = stream[c][n]
      /\ Append(stream[c], x)[Len(stream[c]) + 1] = x
      /\ Len(stream[c]) \in Nat
  BY <1>1, AppendProperties, LenProperties
<1>4. /\ stream' \in [Clients -> Seq(Letters)]
      /\ stream'[c] = Append(stream[c], x)
      /\ \A d \in Clients : d # c => stream'[d] = stream[d]
  BY <1>1, <1>2, <1>3
<1>5. \A y : Contains(stream'[c], y) <=> Contains(stream[c], y) \/ y = x
  BY <1>3, <1>4 DEF Contains
<1>6. GarbledMisread'
  BY <1>4, <1>5 DEF GarbledMisread, x
<1>7. c \notin misread => Contains(stream'[c], m)
  BY <1>5 DEF GarbledMisread, x
<1>8. ready' \subseteq {fd \in Fds : watched'[fd] # -1}
  BY DEF Say, Arrive, Shape, TypeOK
<1> QED BY <1>4, <1>5, <1>6, <1>7, <1>8

LEMMA SaidKeeps ==
  ASSUME Inv, NEW c \in Clients, NEW m \in Letters \ {"garbled"}, Say(c, m),
         UNCHANGED <<clients, threads, misread, peer, watched, backlog>>,
         pc' \in [Clients -> {"outside", "unnamed", "named", "leaving", "gone"}],
         \A d \in Clients : /\ pc'[d] = "outside" => pc[d] = "outside"
                            /\ pc[d] = "gone" => pc'[d] = "gone",
         pings' \in [Clients -> Nat],
         \A d \in Clients : pings[d] > 0 => pings'[d] > 0 \/ (d = c /\ m = "ping")
  PROVE  Inv'
<1> USE DEF Inv, Shape, threads
<1>1. /\ stream' \in [Clients -> Seq(Letters)]
      /\ ready' \subseteq {fd \in Fds : watched'[fd] # -1}
      /\ GarbledMisread'
      /\ \A d \in Clients : Contains(stream[d], "ping") => Contains(stream'[d], "ping")
      /\ c \notin misread => Contains(stream'[c], m)
  BY Said
<1>2. Shape'
  BY <1>1 DEF TypeOK, MainShape
<1>3. SlotsHaveFds' /\ SocketEvents' /\ OneConnection'
  BY DEF SlotsHaveFds, SocketEvents, Sockets, OneConnection, Live
<1>5. WatchedBySlot' /\ AddingSlot' /\ NoDescriptorLeak'
  BY DEF WatchedBySlot, AddingSlot, NoDescriptorLeak, Live
<1>4. Outstanding'
  <2> SUFFICES ASSUME NEW i \in Live', NEW f, f = clients'[i].fd,
                      NEW d, d = peer'[f], ~clients'[i].responding,
                      d # NoClient, Reports(f, i)', pc'[d] # "gone", d \notin misread'
               PROVE  Asked(i, d)'
    BY Zenon DEF Outstanding
  <2>1. i \in Live /\ f = clients[i].fd /\ f \in Fds /\ d = peer[f] /\ Reports(f, i)
    BY DEF Live, SlotsHaveFds, Reports
  <2>2. d \in Clients
    BY <2>1 DEF TypeOK
  <2>3. ~clients[i].responding /\ pc[d] # "gone" /\ d \notin misread
    BY <2>1, <2>2
  <2>4. Outstanding
    OBVIOUS
  <2> HIDE DEF Inv, Shape, threads
  <2>5. Asked(i, d)
    BY <2>1, <2>3, <2>4 DEF Outstanding
  <2> QED BY <1>1, <2>2, <2>5 DEF Asked, threads
<1> QED BY <1>1, <1>2, <1>3, <1>4, <1>5

LEMMA SayKeeps ==
  ASSUME Inv, NEW c \in Clients,
         SendNickname(c) \/ SendChat(c) \/ AnswerPing(c) \/ SendDisconnect(c)
  PROVE  Inv'
<1>1. /\ pc \in [Clients -> {"outside", "unnamed", "named", "leaving", "gone"}]
      /\ pings \in [Clients -> Nat]
      /\ {"nickname", "chat", "ping", "disconnect"} \subseteq Letters \ {"garbled"}
  BY DEF Inv, Shape, TypeOK, Letters, Messages
<1>2. ASSUME NEW m \in Letters \ {"garbled"}, Say(c, m),
             UNCHANGED <<clients, threads, misread, peer, watched, backlog>>,
             \/ pc' = pc
             \/ /\ pc[c] \in {"unnamed", "named"}
                /\ pc' \in {[pc EXCEPT ![c] = "named"], [pc EXCEPT ![c] = "leaving"]},
             \/ pings' = pings
             \/ m = "ping" /\ pings[c] > 0 /\ pings' = [pings EXCEPT ![c] = @ - 1]
      PROVE  Inv'
  <2>1. /\ pc' \in [Clients -> {"outside", "unnamed", "named", "leaving", "gone"}]
        /\ \A d \in Clients : /\ pc'[d] = "outside" => pc[d] = "outside"
                              /\ pc[d] = "gone" => pc'[d] = "gone"
    BY <1>1, <1>2
  <2>2. /\ pings' \in [Clients -> Nat]
        /\ \A d \in Clients : pings[d] > 0 => pings'[d] > 0 \/ (d = c /\ m = "ping")
    BY <1>1, <1>2
  <2> QED BY <1>2, <2>1, <2>2, SaidKeeps, Zenon
<1>3. CASE SendNickname(c)
  BY <1>1, <1>2, <1>3 DEF SendNickname
<1>4. CASE SendChat(c)
  BY <1>1, <1>2, <1>4 DEF SendChat
<1>5. CASE AnswerPing(c)
  BY <1>1, <1>2, <1>5 DEF AnswerPing
<1>6. CASE SendDisconnect(c)
  BY <1>1, <1>2, <1>6 DEF SendDisconnect
<1> QED BY <1>3, <1>4, <1>5, <1>6

(* A client connects for the first and only time.                          *)
LEMMA ConnectKeeps ==
  ASSUME Inv, NEW c \in Clients, Connect(c)
  PROVE  Inv'
<1> USE DEF Inv, Shape, threads
<1>1. /\ pc[c] = "outside" /\ pc' = [pc EXCEPT ![c] = "unnamed"]
      /\ backlog' = Append(backlog, c)
      /\ UNCHANGED <<clients, mutex, main, batch, pinger, running, misread, peer, watched,
                     ready, stream, pings>>
  BY DEF Connect
<1>2. /\ backlog \in Seq(Clients)
      /\ pc \in [Clients -> {"outside", "unnamed", "named", "leaving", "gone"}]
  BY DEF TypeOK
<1>3. /\ backlog' \in Seq(Clients) /\ backlog' # <<>>
      /\ Len(backlog) \in Nat
      /\ DOMAIN backlog = 1..Len(backlog) /\ DOMAIN backlog' = 1..(Len(backlog) + 1)
      /\ \A n \in 1..Len(backlog) : backlog'[n] = backlog[n]
      /\ backlog'[Len(backlog) + 1] = c
  BY <1>1, <1>2, AppendProperties, LenProperties
<1>4. \A n \in DOMAIN backlog' :
        \/ n \in DOMAIN backlog /\ backlog'[n] = backlog[n]
        \/ n = Len(backlog) + 1 /\ backlog'[n] = c
  BY <1>3
<1>5. /\ pc' \in [Clients -> {"outside", "unnamed", "named", "leaving", "gone"}]
      /\ pc'[c] = "unnamed" /\ \A d \in Clients : d # c => pc'[d] = pc[d]
  BY <1>1, <1>2
<1>6. Shape'
  BY <1>1, <1>3, <1>5 DEF TypeOK, MainShape
<1>7. /\ SlotsHaveFds' /\ SocketEvents' /\ WatchedBySlot'
      /\ AddingSlot' /\ GarbledMisread' /\ NoDescriptorLeak'
  BY <1>1, <1>3 DEF SlotsHaveFds, SocketEvents, Sockets, WatchedBySlot,
         AddingSlot, GarbledMisread, NoDescriptorLeak, Live
<1>8. OneConnection'
  <2>1. /\ \A n \in DOMAIN backlog : backlog[n] # c
        /\ \A f \in Fds : peer[f] # c
    BY <1>1 DEF OneConnection
  <2>2. \A f, g \in Fds : peer'[f] # NoClient /\ peer'[f] = peer'[g] => f = g
    BY <1>1 DEF OneConnection
  <2>3. /\ \A m, n \in DOMAIN backlog : backlog[m] = backlog[n] => m = n
        /\ \A n \in DOMAIN backlog : \A f \in Fds : peer[f] # backlog[n]
        /\ \A d \in Clients :
             pc[d] = "outside" => /\ \A n \in DOMAIN backlog : backlog[n] # d
                                  /\ \A f \in Fds : peer[f] # d
    BY DEF OneConnection
  <2> HIDE DEF Inv, Shape
  <2>4. \A m, n \in DOMAIN backlog' : backlog'[m] = backlog'[n] => m = n
    BY <1>4, <2>1, <2>3
  <2>5. \A n \in DOMAIN backlog' : \A f \in Fds : peer'[f] # backlog'[n]
    BY <1>1, <1>4, <2>1, <2>3
  <2>6. \A d \in Clients :
          pc'[d] = "outside" => /\ \A n \in DOMAIN backlog' : backlog'[n] # d
                                /\ \A f \in Fds : peer'[f] # d
    BY <1>1, <1>4, <1>5, <2>3
  <2> QED BY <2>2, <2>4, <2>5, <2>6 DEF OneConnection
<1>9. Outstanding'
  <2> SUFFICES ASSUME NEW i \in Live', NEW f, f = clients'[i].fd,
                      NEW d, d = peer'[f], ~clients'[i].responding,
                      d # NoClient, Reports(f, i)', pc'[d] # "gone", d \notin misread'
               PROVE  Asked(i, d)'
    BY Zenon DEF Outstanding
  <2>1. i \in Live /\ f = clients[i].fd /\ f \in Fds /\ d = peer[f] /\ Reports(f, i)
    BY <1>1 DEF Live, SlotsHaveFds, Reports
  <2>2. d \in Clients /\ d # c
    BY <1>1, <2>1 DEF TypeOK, OneConnection
  <2>3. Asked(i, d)
    BY <1>1, <1>5, <2>1, <2>2 DEF Outstanding
  <2> QED BY <1>1, <2>3 DEF Asked
<1> QED BY <1>6, <1>7, <1>8, <1>9

(* A client that is gone owes no answer.                                   *)
LEMMA GoneKeeps ==
  ASSUME Inv, NEW c \in Clients, Leave(c) \/ Dropped(c)
  PROVE  Inv'
<1> USE DEF Inv, Shape, threads, kernel
<1>1. /\ pc[c] # "outside"
      /\ pc' = [pc EXCEPT ![c] = "gone"] /\ pings' = [pings EXCEPT ![c] = 0]
      /\ UNCHANGED <<clients, mutex, main, batch, pinger, running, misread, peer, watched,
                     backlog, stream>>
  BY DEF Leave, Dropped, Gone
<1>2. /\ pc \in [Clients -> {"outside", "unnamed", "named", "leaving", "gone"}]
      /\ pings \in [Clients -> Nat]
      /\ ready \subseteq {fd \in Fds : watched[fd] # -1}
  BY DEF TypeOK
<1>3. /\ pc' \in [Clients -> {"outside", "unnamed", "named", "leaving", "gone"}]
      /\ pc'[c] = "gone" /\ \A d \in Clients : d # c => pc'[d] = pc[d]
  BY <1>1, <1>2
<1>4. pings' \in [Clients -> Nat] /\ \A d \in Clients : d # c => pings'[d] = pings[d]
  BY <1>1, <1>2
<1>5. ready' \subseteq {fd \in Fds : watched'[fd] # -1}
  BY <1>1, <1>2 DEF Leave, Dropped, Arrive
<1>6. Shape'
  BY <1>1, <1>3, <1>4, <1>5 DEF TypeOK, MainShape
<1>7. /\ SlotsHaveFds' /\ SocketEvents' /\ WatchedBySlot'
      /\ AddingSlot' /\ GarbledMisread' /\ NoDescriptorLeak'
  BY <1>1 DEF SlotsHaveFds, SocketEvents, Sockets, WatchedBySlot,
         AddingSlot, GarbledMisread, NoDescriptorLeak, Live
<1>8. OneConnection'
  BY <1>1, <1>3 DEF OneConnection
<1>9. Outstanding'
  <2> SUFFICES ASSUME NEW i \in Live', NEW f, f = clients'[i].fd,
                      NEW d, d = peer'[f], ~clients'[i].responding,
                      d # NoClient, Reports(f, i)', pc'[d] # "gone", d \notin misread'
               PROVE  Asked(i, d)'
    BY Zenon DEF Outstanding
  <2>1. i \in Live /\ f = clients[i].fd /\ f \in Fds /\ d = peer[f] /\ Reports(f, i)
    BY <1>1 DEF Live, SlotsHaveFds, Reports
  <2>2. d \in Clients /\ d # c
    BY <1>3, <2>1 DEF TypeOK
  <2>3. ~clients[i].responding /\ pc[d] # "gone" /\ d \notin misread
    BY <1>1, <1>3, <2>1, <2>2
  <2>4. Outstanding
    OBVIOUS
  <2> HIDE DEF Inv, Shape
  <2>5. Asked(i, d)
    BY <2>1, <2>3, <2>4 DEF Outstanding
  <2> QED BY <1>1, <1>4, <2>2, <2>5 DEF Asked
<1> QED BY <1>6, <1>7, <1>8, <1>9

-----------------------------------------------------------------------------
LEMMA InitInv == Init => Inv
<1> SUFFICES ASSUME Init PROVE Inv
  OBVIOUS
<1> USE DEF Init
<1>1. Live = {}
  BY DEF Live
<1>2. TypeOK
  BY EmptySeq DEF TypeOK
<1>3. Shape
  <2>1. \A S : <<>> \in Seq(S)
    BY EmptySeq, Zenon
  <2> QED BY <1>2, <2>1 DEF Shape, MainShape
<1>4. /\ SlotsHaveFds /\ SocketEvents /\ OneConnection /\ WatchedBySlot /\ AddingSlot
      /\ GarbledMisread /\ NoDescriptorLeak /\ Outstanding
  <2>1. DOMAIN batch = {} /\ DOMAIN backlog = {}
    OBVIOUS
  <2>2. \A c \in Clients : stream[c] = <<>> /\ Len(stream[c]) = 0 /\ c # NoClient
    OBVIOUS
  <2>3. SlotsHaveFds /\ SocketEvents
    BY <1>1, <2>1 DEF SlotsHaveFds, SocketEvents, Sockets
  <2>4. OneConnection
    BY <2>1, <2>2 DEF OneConnection
  <2>5. WatchedBySlot /\ AddingSlot /\ NoDescriptorLeak
    BY DEF WatchedBySlot, AddingSlot, NoDescriptorLeak
  <2>6. GarbledMisread
    BY <2>2 DEF GarbledMisread, Contains
  <2> QED BY <1>1, <2>3, <2>4, <2>5, <2>6 DEF Outstanding
<1> QED BY <1>3, <1>4 DEF Inv

LEMMA NextInv == Inv /\ [Next]_vars => Inv'
<1> SUFFICES ASSUME Inv, [Next]_vars PROVE Inv'
  OBVIOUS
<1>1. CASE MainStep
  BY <1>1, EpollWaitKeeps, AcceptKeeps, NewClientKeeps, NewClientFullKeeps, RefuseKeeps,
     AddToEpollKeeps, HangUpKeeps, ReadNicknameKeeps, NotedKeeps, NameTakenKeeps,
     ReadMessageKeeps, DisconnectKeeps, Zenon
     DEF MainStep
<1>2. CASE PingStep
  BY <1>2, PingStartKeeps, PingSendKeeps, EvictKeeps, Zenon DEF PingStep
<1>3. ASSUME NEW c \in Clients, ClientStep(c)
      PROVE  Inv'
  BY <1>3, ConnectKeeps, SayKeeps, GoneKeeps, Zenon DEF ClientStep
<1>4. CASE UNCHANGED vars
  <2> USE <1>4 DEF vars, threads, kernel, outside
  <2>1. Shape' /\ SlotsHaveFds' /\ SocketEvents'
    BY DEF Inv, Shape, TypeOK, MainShape, SlotsHaveFds, SocketEvents, Sockets, Live
  <2>2. /\ OneConnection' /\ WatchedBySlot' /\ AddingSlot' /\ GarbledMisread'
        /\ NoDescriptorLeak'
    BY DEF Inv, OneConnection, WatchedBySlot, AddingSlot, GarbledMisread,
           NoDescriptorLeak, Live
  <2>3. Outstanding'
    BY DEF Inv, Outstanding, Asked, Reports, Live
  <2> QED BY <2>1, <2>2, <2>3 DEF Inv
<1> QED BY <1>1, <1>2, <1>3, <1>4 DEF Next

(***************************************************************************)
(* Every step of server.c and client.c, in every order, keeps the          *)
(* invariant that ties the table, the descriptors, epoll and the streams   *)
(* together.                                                               *)
(***************************************************************************)
THEOREM Invariance == Spec => []Inv
<1> QED BY InitInv, NextInv, PTL DEF Spec

(***************************************************************************)
(* The table, the descriptors and the locations of the two threads have    *)
(* their types; the mutex is held by the ping thread exactly in its round  *)
(* (server.c ping), and the batch is empty exactly in epoll_wait.          *)
(***************************************************************************)
THEOREM TypeCorrect == Spec => []TypeOK
<1>1. Inv => TypeOK
  BY DEF Inv, Shape
<1> QED BY <1>1, Invariance, PTL

(***************************************************************************)
(* No order of hang-ups, refusals, evictions and reuses leaves a           *)
(* descriptor open that no slot has: delete_client (server.c) closes what  *)
(* new_client took, whichever thread calls it.                             *)
(***************************************************************************)
THEOREM NoLeak == Spec => []NoDescriptorLeak
<1>1. Inv => NoDescriptorLeak
  BY DEF Inv
<1> QED BY <1>1, Invariance, PTL

(***************************************************************************)
(* A slot with responding = false whose client is there, is reported to    *)
(* this slot and was not misread, has its ping unread or its answer on the *)
(* way: the ping thread (server.c ping) evicts nobody whose answer the     *)
(* main thread has taken.                                                  *)
(***************************************************************************)
THEOREM AnswersKept == Spec => []AnswerOutstanding
<1>1. Inv => AnswerOutstanding
  BY Zenon DEF Inv, Outstanding, Asked, Reports, AnswerOutstanding
<1> QED BY <1>1, Invariance, PTL

=============================================================================
