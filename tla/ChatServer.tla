----------------------------- MODULE ChatServer -----------------------------
(***************************************************************************)
(* lab10/zad1: the chat server.  The main thread accepts connections and   *)
(* handles what epoll reports; a second thread pings every client and      *)
(* evicts those that did not answer the ping before.  They share the       *)
(* table of clients, one mutex and the descriptors of the process.         *)
(*                                                                         *)
(* The stream from a client is the sequence of the writes it made; texts   *)
(* and nicknames are left out, so the check of the nickname may end either *)
(* way, and LIST, 2ALL and 2ONE are one kind of message, "chat".  The two  *)
(* listening sockets are one.  A client's is watched edge-triggered: it    *)
(* is ready once per arrival, and each readiness is answered by one read.  *)
(*                                                                         *)
(* Where read fails or meets the end of the stream, msg is uninitialized:  *)
(* its type is any.  A write to a connection whose client is gone may kill *)
(* the process (SIGPIPE); the first one on a TCP connection does not.      *)
(***************************************************************************)
EXTENDS Integers, SequencesExt

CONSTANTS
  Clients,    \* the client processes, one connection each
  NoClient,   \* the peer of a descriptor that is not open
  MAX_CONN,   \* the length of the table
  StreamRoom  \* a client sends no chat message when so many are unread

ASSUME ServerAssumption ==
  /\ IsFiniteSet(Clients)
  /\ NoClient \notin Clients
  /\ MAX_CONN \in Nat \ {0}

Slots == 0..(MAX_CONN - 1)

\* The descriptors for connections; accept returns the lowest free one.
Fds  == 1..Cardinality(Clients)
NoFd == 0

Messages == {"ping", "chat", "disconnect"}

VARIABLES
  clients, \* the table: state, fd and responding of each slot
  mutex,   \* the thread that holds it: "none", "main" or "ping"
  main,    \* where the main thread is, with the slot, fd and message at hand
  batch,   \* the events of the last epoll_wait that are not handled yet
  pinger,  \* the slot the ping thread is at, or -1 in its sleep
  running, \* FALSE once the process has been killed or has called exit
  peer,    \* the client at the other end of each descriptor
  watched, \* the slot epoll reports for a descriptor, or -1
  ready,   \* the descriptors epoll will report
  backlog, \* connections not accepted yet
  pc,      \* the clients: "outside", "unnamed", "named", "leaving", "gone"
  stream,  \* what each client has sent and the server has not read
  pings,   \* the pings each client has not read
  misread  \* history: the clients a message of which was cut by a read, or
           \* read for a slot that once had the same descriptor

threads == <<mutex, main, batch, pinger, running>>
kernel  == <<peer, watched, ready, backlog>>
outside == <<pc, stream, pings, misread>>
vars    == <<clients, threads, kernel, outside>>

Live == {i \in Slots : clients[i].state # "empty"}

\* A write to fd meets a connection that its client has closed.
Broken(fd) == fd # NoFd /\ peer[fd] # NoClient /\ pc[peer[fd]] = "gone"

\* The process survives its writes, or SIGPIPE kills it.
Write(fds) ==
  running' \in IF \E fd \in fds : Broken(fd) THEN BOOLEAN ELSE {TRUE}

\* Mutant: the descriptor is taken out of epoll and left open.
CloseForgotten(fd) ==
  /\ watched' = [watched EXCEPT ![fd] = -1]
  /\ ready' = ready \ {fd}
  /\ UNCHANGED peer

\* close takes the descriptor out of epoll too.
Close(fd) ==
  /\ peer' = [peer EXCEPT ![fd] = NoClient]
  /\ watched' = [watched EXCEPT ![fd] = -1]
  /\ ready' = ready \ {fd}

delete_client(i) ==
  /\ clients' = [clients EXCEPT ![i].state = "empty"]
  /\ Close(clients[i].fd)

-----------------------------------------------------------------------------
(* The main thread. *)

At(location) == running /\ main.at = location

\* The event at hand is done: on to the next one of the batch.
EventDone ==
  /\ batch' = Tail(batch)
  /\ main' = [at |-> IF Tail(batch) = <<>> THEN "waiting" ELSE "handling"]

Event == Head(batch)

\* epoll_wait: a closed connection may be reported as EPOLLHUP (on a UNIX
\* socket) or as input only.
EpollWait ==
  /\ At("waiting")
  /\ \E hung \in SUBSET {fd \in ready : Broken(fd)} :
       LET Reported == {[type |-> "client", slot |-> watched[fd],
                         hup |-> fd \in hung] : fd \in ready}
                       \cup IF backlog = <<>> THEN {} ELSE {[type |-> "socket"]}
       IN  /\ Reported # {}
           /\ batch' \in SetToSeqs(Reported)
  /\ ready' = {}
  /\ main' = [at |-> "handling"]
  /\ UNCHANGED <<clients, mutex, pinger, running, peer, watched, backlog, outside>>

Accept ==
  /\ At("handling") /\ Event.type = "socket"
  /\ \E fd \in Fds :
       /\ peer[fd] = NoClient
       /\ \A lower \in 1..(fd - 1) : peer[lower] # NoClient
       /\ peer' = [peer EXCEPT ![fd] = Head(backlog)]
       /\ main' = [at |-> "accepted", fd |-> fd]
  /\ backlog' = Tail(backlog)
  /\ UNCHANGED <<clients, mutex, batch, pinger, running, watched, ready, outside>>

\* Mutant: the slot keeps the answer its last client owed.
NewClientUnreset ==
  /\ At("accepted") /\ mutex = "none"
  /\ Live # Slots
  /\ LET slot == CHOOSE i \in Slots \ Live : \A j \in Slots \ Live : i <= j
     IN  /\ clients' = [clients EXCEPT ![slot].state = "init", ![slot].fd = main.fd]
         /\ main' = [at |-> "adding", fd |-> main.fd, slot |-> slot]
  /\ UNCHANGED <<mutex, batch, pinger, running, kernel, outside>>

NewClient ==
  /\ At("accepted") /\ mutex = "none"
  /\ Live # Slots
  /\ LET slot == CHOOSE i \in Slots \ Live : \A j \in Slots \ Live : i <= j
     IN  /\ clients' = [clients EXCEPT
                          ![slot] = [state |-> "init", fd |-> main.fd,
                                     responding |-> TRUE]]
         /\ main' = [at |-> "adding", fd |-> main.fd, slot |-> slot]
  /\ UNCHANGED <<mutex, batch, pinger, running, kernel, outside>>

\* new_client returns NULL without unlocking.
NewClientFull ==
  /\ At("accepted") /\ mutex = "none"
  /\ Live = Slots
  /\ mutex' = "main"
  /\ main' = [main EXCEPT !.at = "refusing"]
  /\ UNCHANGED <<clients, batch, pinger, running, kernel, outside>>

Refuse ==
  /\ At("refusing")
  /\ Write({main.fd})
  /\ Close(main.fd)
  /\ EventDone
  /\ UNCHANGED <<clients, mutex, pinger, backlog, outside>>

\* Arrived already: the stream, or its end.
Readable(fd) == stream[peer[fd]] # <<>> \/ pc[peer[fd]] = "gone"

\* epoll_ctl fails, and the server exits, if the descriptor is closed by now.
AddToEpoll ==
  /\ At("adding")
  /\ IF peer[main.fd] = NoClient
       THEN running' = FALSE /\ UNCHANGED <<watched, ready>>
       ELSE /\ watched' = [watched EXCEPT ![main.fd] = main.slot]
            /\ ready' = IF Readable(main.fd) THEN ready \cup {main.fd} ELSE ready
            /\ UNCHANGED running
  /\ EventDone
  /\ UNCHANGED <<clients, mutex, pinger, peer, backlog, outside>>

HangUp ==
  /\ At("handling") /\ Event.type = "client" /\ Event.hup
  /\ mutex = "none"
  /\ delete_client(Event.slot)
  /\ EventDone
  /\ UNCHANGED <<mutex, pinger, running, backlog, outside>>

\* read blocks on an open stream that is empty; it returns at once at the end
\* of the stream or from a closed descriptor.  Only nicknames have not the
\* size of a message: a read across one garbles what is left.
Read(slot, rest) ==
  LET fd == clients[slot].fd
  IN  IF peer[fd] = NoClient THEN UNCHANGED <<stream, misread>>
      ELSE /\ Readable(fd)
           /\ stream' = [stream EXCEPT ![peer[fd]] = rest]
           /\ misread' = {c \in Clients : \/ c \in misread
                                          \/ Contains(stream'[c], "garbled")
                                          \/ (c = peer[fd] /\ watched[fd] # slot)}

\* What a read for a slot finds.
Sent(slot) ==
  LET c == peer[clients[slot].fd] IN IF c = NoClient THEN <<>> ELSE stream[c]

Garbled(n) == [i \in 1..n |-> "garbled"]

RestOfNickname(s) ==
  IF s = <<>> THEN s
  ELSE Garbled(IF Head(s) = "nickname" THEN Len(s) - 1 ELSE Len(s))

RestOfMessage(s) ==
  IF s = <<>> THEN s
  ELSE IF Head(s) = "nickname" THEN Garbled(Len(s) - 1) ELSE Tail(s)

ReadNickname ==
  /\ At("handling") /\ Event.type = "client" /\ ~Event.hup
  /\ clients[Event.slot].state = "init"
  /\ Read(Event.slot, RestOfNickname(Sent(Event.slot)))
  /\ main' = [at |-> "naming", slot |-> Event.slot]
  /\ UNCHANGED <<clients, mutex, batch, pinger, running, kernel, pc, pings>>

\* The nickname is accepted or taken; the slot may be gone by now.
NameAccepted ==
  /\ At("naming") /\ mutex = "none"
  /\ clients' = [clients EXCEPT ![main.slot].state = "ready"]
  /\ EventDone
  /\ UNCHANGED <<mutex, pinger, running, kernel, outside>>

NameTaken ==
  /\ At("naming") /\ mutex = "none"
  /\ Write({clients[main.slot].fd})
  /\ delete_client(main.slot)
  /\ EventDone
  /\ UNCHANGED <<mutex, pinger, backlog, outside>>

\* What msg.type may be after a read that finds s.
TypesRead(s) ==
  IF s # <<>> /\ Head(s) \in Messages THEN {Head(s)} ELSE Messages \cup {"other"}

ReadMessage ==
  /\ At("handling") /\ Event.type = "client" /\ ~Event.hup
  /\ clients[Event.slot].state # "init"
  /\ Read(Event.slot, RestOfMessage(Sent(Event.slot)))
  /\ \E type \in TypesRead(Sent(Event.slot)) :
       main' = [at |-> "dispatching", slot |-> Event.slot, type |-> type]
  /\ UNCHANGED <<clients, mutex, batch, pinger, running, kernel, pc, pings>>

\* Mutant: an answer to a ping is read and forgotten.
PingAnsweredForgotten ==
  /\ At("dispatching") /\ main.type = "ping" /\ mutex = "none"
  /\ EventDone
  /\ UNCHANGED <<clients, mutex, pinger, running, kernel, outside>>

PingAnswered ==
  /\ At("dispatching") /\ main.type = "ping" /\ mutex = "none"
  /\ clients' = [clients EXCEPT ![main.slot].responding = TRUE]
  /\ EventDone
  /\ UNCHANGED <<mutex, pinger, running, kernel, outside>>

Disconnect ==
  /\ At("dispatching") /\ main.type = "disconnect" /\ mutex = "none"
  /\ delete_client(main.slot)
  /\ EventDone
  /\ UNCHANGED <<mutex, pinger, running, backlog, outside>>

\* Texts go to clients of the table, without the mutex: to all, to one, or
\* back to the sender.
Chat ==
  /\ At("dispatching") /\ main.type = "chat"
  /\ \E receivers \in SUBSET Live : Write({clients[i].fd : i \in receivers})
  /\ EventDone
  /\ UNCHANGED <<clients, mutex, pinger, kernel, outside>>

OtherMessage ==
  /\ At("dispatching") /\ main.type = "other"
  /\ EventDone
  /\ UNCHANGED <<clients, mutex, pinger, running, kernel, outside>>

MainStep ==
  \/ EpollWait \/ Accept \/ NewClient \/ NewClientFull \/ Refuse \/ AddToEpoll
  \/ HangUp \/ ReadNickname \/ NameAccepted \/ NameTaken
  \/ ReadMessage \/ PingAnswered \/ Disconnect \/ Chat \/ OtherMessage

-----------------------------------------------------------------------------
(* The ping thread. *)

PingStart ==
  /\ running /\ pinger = -1 /\ mutex = "none"
  /\ mutex' = "ping"
  /\ pinger' = 0
  /\ UNCHANGED <<clients, main, batch, running, kernel, outside>>

\* Mutant: the loop over the table runs to i <= MAX_CONN.
SlotDoneTooFar ==
  IF pinger \in Slots THEN pinger' = pinger + 1 /\ UNCHANGED mutex
                      ELSE pinger' = -1 /\ mutex' = "none"

\* The slot is done: on to the next one, or unlock.
SlotDone ==
  IF pinger + 1 \in Slots THEN pinger' = pinger + 1 /\ UNCHANGED mutex
                          ELSE pinger' = -1 /\ mutex' = "none"

PingEmpty ==
  /\ running /\ pinger \in Slots \ Live
  /\ SlotDone
  /\ UNCHANGED <<clients, main, batch, running, kernel, outside>>

\* Mutant: a ping is sent and not waited for.
PingSendUnmarked ==
  /\ running /\ pinger \in Live /\ clients[pinger].responding
  /\ LET fd == clients[pinger].fd
     IN  /\ Write({fd})
         /\ pings' = IF peer[fd] = NoClient \/ Broken(fd) THEN pings
                     ELSE [pings EXCEPT ![peer[fd]] = 1]
  /\ SlotDone
  /\ UNCHANGED <<clients, main, batch, kernel, pc, stream, misread>>

PingSend ==
  /\ running /\ pinger \in Live /\ clients[pinger].responding
  /\ clients' = [clients EXCEPT ![pinger].responding = FALSE]
  /\ LET fd == clients[pinger].fd
     IN  /\ Write({fd})
         /\ pings' = IF peer[fd] = NoClient \/ Broken(fd) THEN pings
                     ELSE [pings EXCEPT ![peer[fd]] = @ + 1]
  /\ SlotDone
  /\ UNCHANGED <<main, batch, kernel, pc, stream, misread>>

Evict ==
  /\ running /\ pinger \in Live /\ ~clients[pinger].responding
  /\ delete_client(pinger)
  /\ SlotDone
  /\ UNCHANGED <<main, batch, running, backlog, outside>>

PingStep == PingStart \/ PingEmpty \/ PingSend \/ Evict

-----------------------------------------------------------------------------
(* The clients. *)

\* Bytes, or the end of the stream, arrive at the server: an edge for epoll.
Arrive(c) == ready' = ready \cup {fd \in Fds : peer[fd] = c /\ watched[fd] # -1}

Say(c, m) ==
  /\ stream' = [stream EXCEPT ![c] =
                  Append(@, IF Contains(@, "garbled") THEN "garbled" ELSE m)]
  /\ Arrive(c)

Connect(c) ==
  /\ pc[c] = "outside"
  /\ pc' = [pc EXCEPT ![c] = "unnamed"]
  /\ backlog' = Append(backlog, c)
  /\ UNCHANGED <<clients, threads, misread, peer, watched, ready, stream, pings>>

SendNickname(c) ==
  /\ pc[c] = "unnamed"
  /\ pc' = [pc EXCEPT ![c] = "named"]
  /\ Say(c, "nickname")
  /\ UNCHANGED <<clients, threads, misread, peer, watched, backlog, pings>>

SendChat(c) ==
  /\ pc[c] = "named" /\ Len(stream[c]) < StreamRoom
  /\ Say(c, "chat")
  /\ UNCHANGED <<clients, threads, misread, peer, watched, backlog, pc, pings>>

AnswerPing(c) ==
  /\ pc[c] \in {"named", "leaving"} /\ pings[c] > 0
  /\ pings' = [pings EXCEPT ![c] = @ - 1]
  /\ Say(c, "ping")
  /\ UNCHANGED <<clients, threads, misread, peer, watched, backlog, pc>>

\* The command STOP, after which the client waits for the end, or SIGINT, the
\* handler of which exits next.  (A second one is left out.)
SendDisconnect(c) ==
  /\ pc[c] \in {"unnamed", "named"}
  /\ pc' = [pc EXCEPT ![c] = "leaving"]
  /\ Say(c, "disconnect")
  /\ UNCHANGED <<clients, threads, misread, peer, watched, backlog, pings>>

Gone(c) ==
  /\ pc' = [pc EXCEPT ![c] = "gone"]
  /\ pings' = [pings EXCEPT ![c] = 0]

\* The client exits, or is killed.
Leave(c) ==
  /\ pc[c] \in {"unnamed", "named", "leaving"}
  /\ Gone(c)
  /\ Arrive(c)
  /\ UNCHANGED <<clients, threads, misread, peer, watched, backlog, stream>>

Connected(c) == Contains(backlog, c) \/ \E fd \in Fds : peer[fd] = c

\* The server refused, evicted or dropped it.
Dropped(c) ==
  /\ pc[c] \in {"unnamed", "named", "leaving"} /\ ~Connected(c)
  /\ Gone(c)
  /\ UNCHANGED <<clients, threads, misread, kernel, stream>>

\* What clients do once the server has died is left out.
ClientStep(c) ==
  /\ running
  /\ \/ Connect(c) \/ SendNickname(c) \/ SendChat(c) \/ AnswerPing(c)
     \/ SendDisconnect(c) \/ Leave(c) \/ Dropped(c)

-----------------------------------------------------------------------------
TypeOK ==
  /\ clients \in [Slots -> [state : {"empty", "init", "ready"},
                            fd : Fds \cup {NoFd}, responding : BOOLEAN]]
  /\ mutex \in {"none", "main", "ping"}
  /\ main.at \in {"waiting", "handling", "accepted", "refusing", "adding",
                  "naming", "dispatching"}
  /\ main.at \in {"waiting"} <=> batch = <<>>
  /\ pinger \in Slots \cup {-1}
  /\ mutex = "ping" <=> pinger # -1
  /\ peer \in [Fds -> Clients \cup {NoClient}]
  /\ watched \in [Fds -> Slots \cup {-1}]
  /\ ready \subseteq {fd \in Fds : watched[fd] # -1}
  /\ pc \in [Clients -> {"outside", "unnamed", "named", "leaving", "gone"}]
  /\ pings \in [Clients -> Nat]
  /\ misread \subseteq Clients

Init ==
  /\ clients = [i \in Slots |->
                 [state |-> "empty", fd |-> NoFd, responding |-> FALSE]]
  /\ mutex = "none"
  /\ main = [at |-> "waiting"]
  /\ batch = <<>>
  /\ pinger = -1
  /\ running = TRUE
  /\ peer = [fd \in Fds |-> NoClient]
  /\ watched = [fd \in Fds |-> -1]
  /\ ready = {}
  /\ backlog = <<>>
  /\ pc = [c \in Clients |-> "outside"]
  /\ stream = [c \in Clients |-> <<>>]
  /\ pings = [c \in Clients |-> 0]
  /\ misread = {}

Next == MainStep \/ PingStep \/ \E c \in Clients : ClientStep(c)

\* Both threads of the server are scheduled, and the main thread gets the mutex
\* in one of the sleeps of the ping thread.
Fairness == SF_vars(MainStep) /\ WF_vars(PingStep)

Spec == Init /\ [][Next]_vars

FairSpec == Spec /\ Fairness

-----------------------------------------------------------------------------
(***************************************************************************)
(* Every open descriptor belongs to a slot of the table or is in the hands *)
(* of the main thread, so the process does not run out of descriptors,     *)
(* whatever the order of hang-ups, evictions and reuses.                   *)
(***************************************************************************)
NoDescriptorLeak ==
  running =>
    \A fd \in Fds :
      peer[fd] # NoClient =>
        \/ \E i \in Live : clients[i].fd = fd
        \/ main.at \in {"accepted", "refusing"} /\ main.fd = fd

(***************************************************************************)
(* A slot that waits for an answer really asked its client, and the main   *)
(* thread has not taken the answer yet: the ping is unread, or the answer  *)
(* is on its way.  So a client whose answers are taken is never evicted.   *)
(* (For a client that is still there, at a descriptor epoll reports to     *)
(* this slot, and whose messages were not cut by the read of a nickname,   *)
(* nor read for an evicted slot that had the descriptor before and still   *)
(* waits in the batch: such answers are lost, and an evicted slot that a   *)
(* late nickname makes ready has no descriptor.)                           *)
(***************************************************************************)
AnswerOutstanding ==
  running =>
    \A i \in Live :
      LET fd == clients[i].fd
          c  == peer[fd]
      IN  /\ ~clients[i].responding
          /\ c # NoClient /\ watched[fd] = i
          /\ pc[c] # "gone" /\ c \notin misread
          => \/ pings[c] > 0
             \/ Contains(stream[c], "ping")
             \/ main.at = "dispatching" /\ main.slot = i /\ main.type = "ping"

(***************************************************************************)
(* A client that is gone is forgotten in the end, even if its end of       *)
(* stream was never read, unless the process ends or the main thread has   *)
(* kept the mutex.                                                         *)
(***************************************************************************)
GoneIsForgotten ==
  \/ <>[](~running \/ mutex = "main")
  \/ \A c \in Clients :
       pc[c] = "gone" ~> \A fd \in Fds : peer[fd] # c

(***************************************************************************)
(* lab_10_polecenie.txt:8: "a separate thread should ping the registered   *)
(* clients cyclically".  The ping thread comes back from each sleep and    *)
(* starts a round, as long as the process runs.                            *)
(***************************************************************************)
PingsContinue == []<>(~running \/ mutex = "ping")

=============================================================================
