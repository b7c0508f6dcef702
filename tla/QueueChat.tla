------------------------------ MODULE QueueChat ------------------------------
(***************************************************************************)
(* lab6/zad1: a chat over System V message queues.  The server owns one    *)
(* queue that every client writes to; each client owns a private queue     *)
(* that the server writes to.  The key in a message is the identifier of   *)
(* the sender's queue, so a client stands for its queue too.               *)
(*                                                                         *)
(* Texts, times and the log are left out: of what the server sends only    *)
(* the type matters, and the client_id of SUCCES.  A client is modelled    *)
(* from its INNIT on.  The 1 that line 128 and line 161 of server.c pass   *)
(* as the flag is not IPC_NOWAIT, so these sends block like the others.    *)
(***************************************************************************)
EXTENDS Integers, SequencesExt

CONSTANTS
  Clients,     \* the client processes
  MAX_CLIENTS, \* the length of the server's table
  FREE,        \* -1, the content of a free slot of the table
  ServerRoom,  \* the messages that fit in the server's queue
  ClientRoom   \* the messages that fit in a client's queue

ASSUME ChatAssumption ==
  /\ MAX_CLIENTS \in Nat \ {0}
  /\ FREE \notin Clients
  /\ ServerRoom \in Nat \ {0} /\ ClientRoom \in Nat \ {0}

Slots == 0..(MAX_CLIENTS - 1)

VARIABLES
  queues, \* the server's table: the key of the client in each slot
  no_clients_actual_connected,
  server, \* where the server is, the message it handles, the slot it is at
  inbox,  \* the server's queue
  outbox, \* the queue of each client
  pc,     \* where each client is
  client_id \* each client's my_message.client_id

chat    == <<queues, no_clients_actual_connected>>
clients == <<pc, client_id>>
vars    == <<chat, server, inbox, outbox, clients>>

Requests ==
  [type : {"INNIT", "LIST", "_2ALL", "_2ONE", "STOP"}, key : Clients,
   client_id : Slots, other_id : Slots]

(***************************************************************************)
(* The server: in its loop, about to tell a client that it is in the table *)
(* ("accepting"), sending an answer ("answering"), sending to all from     *)
(* slot on, sending STOP to all from slot on, gone in good order           *)
(* ("exited") or after exit(1), which leaves its queue behind ("failed").  *)
(***************************************************************************)
ServerLocations ==
  {"loop", "accepting", "answering", "sending", "stopping", "exited", "failed"}

ServerGone == server.at \in {"exited", "failed"}

\* A client: before its INNIT, waiting for the answer, at scanf, reading its
\* queue, sending a request, waiting for the answer to LIST, gone.
ClientLocations ==
  {"starting", "connecting", "typing", "reading", "sending", "listing", "gone"}

\* A client removes its queue as it ends.
Removed(c) == pc[c] = "gone"
Full(c)    == Len(outbox[c]) = ClientRoom

Msg(type, id) == [type |-> type, client_id |-> id]

\* What msgsnd without waiting does: a full or removed queue loses the message.
Send(c, m) ==
  outbox' = IF Removed(c) \/ Full(c) THEN outbox
            ELSE [outbox EXCEPT ![c] = Append(@, m)]

ToLoop == server' = [at |-> "loop"]

Occupied == {i \in Slots : queues[i] # FREE}

Lowest(S) == CHOOSE i \in S : \A j \in S : i <= j

-----------------------------------------------------------------------------
(* The server's handlers, by the head of its queue. *)

Receive(types) ==
  /\ server.at = "loop"
  /\ inbox # <<>>
  /\ Head(inbox).type \in types
  /\ inbox' = Tail(inbox)

\* Mutant: a client that finds the table full gets no answer.
RefuseSilently ==
  /\ Receive({"INNIT"})
  /\ no_clients_actual_connected = MAX_CLIENTS
  /\ UNCHANGED <<chat, server, outbox, clients>>

Refuse ==
  /\ Receive({"INNIT"})
  /\ no_clients_actual_connected = MAX_CLIENTS
  /\ Send(Head(inbox).key, Msg("FAILURE", Head(inbox).client_id))
  /\ UNCHANGED <<chat, server, clients>>

\* Mutant: the loop over the table lacks its break.
AcceptEverywhere ==
  /\ Receive({"INNIT"})
  /\ no_clients_actual_connected # MAX_CLIENTS
  /\ no_clients_actual_connected' = no_clients_actual_connected + 1
  /\ LET key  == Head(inbox).key
         free == Slots \ Occupied
         id   == IF free = {} THEN Head(inbox).client_id
                 ELSE CHOOSE i \in free : \A j \in free : i >= j
     IN  /\ queues' = [i \in Slots |-> IF i \in free THEN key ELSE queues[i]]
         /\ server' = [at |-> "accepting", target |-> key, client_id |-> id]
  /\ UNCHANGED <<outbox, clients>>

\* The count may let a client in although the table is full: it gets no slot
\* and keeps the client_id of its request, 0.
Accept ==
  /\ Receive({"INNIT"})
  /\ no_clients_actual_connected # MAX_CLIENTS
  /\ no_clients_actual_connected' = no_clients_actual_connected + 1
  /\ LET key  == Head(inbox).key
         free == Slots \ Occupied
         id   == IF free = {} THEN Head(inbox).client_id ELSE Lowest(free)
     IN  /\ queues' = IF free = {} THEN queues ELSE [queues EXCEPT ![id] = key]
         /\ server' = [at |-> "accepting", target |-> key, client_id |-> id]
  /\ UNCHANGED <<outbox, clients>>

\* Mutant: the answer goes to the client in the first slot.
SendSuccesToFirst ==
  /\ server.at = "accepting"
  /\ Send(queues[0], Msg("SUCCES", server.client_id))
  /\ ToLoop
  /\ UNCHANGED <<chat, inbox, clients>>

SendSucces ==
  /\ server.at = "accepting"
  /\ Send(server.target, Msg("SUCCES", server.client_id))
  /\ ToLoop
  /\ UNCHANGED <<chat, inbox, clients>>

\* Mutant: LIST is answered to the client in the slot of its client_id.
AnswerToSlot ==
  /\ Receive({"LIST", "_2ONE"})
  /\ LET m  == Head(inbox)
         id == IF m.type = "LIST" THEN m.client_id ELSE m.other_id
     IN  IF queues[id] = FREE THEN ToLoop
         ELSE server' = [at |-> "answering", type |-> m.type, target |-> queues[id]]
  /\ UNCHANGED <<chat, outbox, clients>>

\* LIST is answered to its sender, 2ONE goes to the client in slot other_id.
StartAnswer ==
  /\ Receive({"LIST", "_2ONE"})
  /\ LET m == Head(inbox)
     IN  IF m.type = "_2ONE" /\ queues[m.other_id] = FREE THEN ToLoop
         ELSE server' = [at     |-> "answering",
                         type   |-> m.type,
                         target |-> IF m.type = "LIST" THEN m.key
                                                       ELSE queues[m.other_id]]
  /\ UNCHANGED <<chat, outbox, clients>>

\* msgsnd waits for room; if the queue is gone, only LIST ends the server.
Answer ==
  /\ server.at = "answering"
  /\ \/ /\ Removed(server.target)
        /\ server' = [at |-> IF server.type = "LIST" THEN "failed" ELSE "loop"]
        /\ UNCHANGED outbox
     \/ /\ ~Removed(server.target) /\ ~Full(server.target)
        /\ Send(server.target, Msg("NEW_MESSAGE", 0))
        /\ ToLoop
  /\ UNCHANGED <<chat, inbox, clients>>

StartSendToAll ==
  /\ Receive({"_2ALL"})
  /\ server' = [at |-> "sending", slot |-> 0, client_id |-> Head(inbox).client_id]
  /\ UNCHANGED <<chat, outbox, clients>>

\* Mutant: i <= MAX_CLIENTS ends the loop one slot too late.
NextSlotTooFar ==
  IF server.slot + 1 <= MAX_CLIENTS THEN [server EXCEPT !.slot = @ + 1]
                                    ELSE [at |-> "loop"]

NextSlot ==
  IF server.slot + 1 < MAX_CLIENTS THEN [server EXCEPT !.slot = @ + 1]
                                   ELSE [at |-> "loop"]

\* One turn of the loop of handle_send_to_all.
SendToAll ==
  /\ server.at = "sending"
  /\ LET key  == queues[server.slot]
         skip == key = FREE \/ server.slot = server.client_id
     IN  \/ skip /\ server' = NextSlot /\ UNCHANGED outbox
         \/ /\ ~skip /\ Removed(key)
            /\ server' = [at |-> "failed"]
            /\ UNCHANGED outbox
         \/ /\ ~skip /\ ~Removed(key) /\ ~Full(key)
            /\ Send(key, Msg("NEW_MESSAGE", 0))
            /\ server' = NextSlot
  /\ UNCHANGED <<chat, inbox, clients>>

\* Mutant: the slot is freed and the count forgotten.
HandleStopUncounted ==
  /\ Receive({"STOP"})
  /\ queues' = [i \in Slots |-> IF queues[i] = Head(inbox).key THEN FREE
                                                              ELSE queues[i]]
  /\ UNCHANGED <<no_clients_actual_connected, server, outbox, clients>>

\* The count goes down whether or not the key is in the table.
HandleStop ==
  /\ Receive({"STOP"})
  /\ no_clients_actual_connected' = no_clients_actual_connected - 1
  /\ queues' = [i \in Slots |-> IF queues[i] = Head(inbox).key THEN FREE
                                                              ELSE queues[i]]
  /\ UNCHANGED <<server, outbox, clients>>

-----------------------------------------------------------------------------
(* SIGINT at the server.  The handler may interrupt a send that blocks, and *)
(* the server between the table and SUCCES.                                 *)

StopSignal ==
  /\ server.at \in {"loop", "accepting", "answering", "sending"}
  /\ server' = [at |-> "stopping", slot |-> 0]
  /\ UNCHANGED <<chat, inbox, outbox, clients>>

\* One turn of the loop of handle_stop_signal, or what follows the loop.
StopNext ==
  /\ server.at = "stopping"
  /\ IF server.slot \notin Slots
       THEN /\ server' = [at |-> "exited"]
            /\ inbox' = <<>>
            /\ UNCHANGED <<queues, outbox>>
       ELSE /\ LET key  == queues[server.slot]
                   next == [server EXCEPT !.slot = @ + 1]
               IN  \/ key = FREE /\ server' = next /\ UNCHANGED <<queues, outbox>>
                   \/ /\ key # FREE /\ Removed(key)
                      /\ server' = [at |-> "failed"]
                      /\ UNCHANGED <<queues, outbox>>
                   \/ /\ key # FREE /\ ~Removed(key) /\ ~Full(key)
                      /\ Send(key, Msg("STOP", 0))
                      /\ queues' = [queues EXCEPT ![server.slot] = FREE]
                      /\ server' = next
            /\ UNCHANGED inbox
  /\ UNCHANGED <<no_clients_actual_connected, clients>>

Handler ==
  \/ Refuse \/ Accept \/ SendSucces \/ StartAnswer \/ Answer
  \/ StartSendToAll \/ SendToAll \/ HandleStop \/ StopNext

-----------------------------------------------------------------------------
(* The client. *)

Go(c, from, to) == pc[c] = from /\ pc' = [pc EXCEPT ![c] = to]

\* end_work: the queue and what is in it are gone.
End(c) ==
  /\ pc' = [pc EXCEPT ![c] = "gone"]
  /\ outbox' = [outbox EXCEPT ![c] = <<>>]
  /\ client_id' = [client_id EXCEPT ![c] = 0]

My(c, type, other) ==
  [type |-> type, key |-> c, client_id |-> client_id[c], other_id |-> other]

\* msgsnd to the server waits for room; without its queue the client ends.
SendRequest(c, m, to) ==
  \/ /\ server.at = "exited"
     /\ End(c)
     /\ UNCHANGED inbox
  \/ /\ server.at # "exited" /\ Len(inbox) < ServerRoom
     /\ inbox' = Append(inbox, m)
     /\ pc' = [pc EXCEPT ![c] = to]
     /\ UNCHANGED <<outbox, client_id>>

Connect(c) ==
  /\ pc[c] = "starting"
  /\ SendRequest(c, My(c, "INNIT", 0), "connecting")
  /\ UNCHANGED <<chat, server>>

\* The first message ends the client or brings its client_id.
Connected(c) ==
  /\ pc[c] = "connecting"
  /\ outbox[c] # <<>>
  /\ LET m == Head(outbox[c])
     IN  IF m.type \in {"FAILURE", "STOP"} THEN End(c)
         ELSE /\ pc' = [pc EXCEPT ![c] = "typing"]
              /\ outbox' = [outbox EXCEPT ![c] = Tail(@)]
              /\ client_id' = [client_id EXCEPT ![c] = m.client_id]
  /\ UNCHANGED <<chat, server, inbox>>

\* scanf returns a command.
Command(c) ==
  /\ Go(c, "typing", "reading")
  /\ UNCHANGED <<chat, server, inbox, outbox, client_id>>

\* The client reads what has come in before it sends the request.
Read(c) ==
  /\ pc[c] = "reading"
  /\ IF outbox[c] = <<>>
       THEN Go(c, "reading", "sending") /\ UNCHANGED <<outbox, client_id>>
     ELSE IF Head(outbox[c]).type = "STOP"
       THEN End(c)
       ELSE /\ outbox' = [outbox EXCEPT ![c] = Tail(@)]
            /\ UNCHANGED <<pc, client_id>>
  /\ UNCHANGED <<chat, server, inbox>>

Request(c) ==
  /\ pc[c] = "sending"
  /\ \/ SendRequest(c, My(c, "LIST", 0), "listing")
     \/ SendRequest(c, My(c, "_2ALL", 0), "typing")
     \/ \E other \in Slots : SendRequest(c, My(c, "_2ONE", other), "typing")
  /\ UNCHANGED <<chat, server>>

\* LIST waits for the first NEW_MESSAGE, whoever caused it.
Listed(c) ==
  /\ pc[c] = "listing"
  /\ \E n \in DOMAIN outbox[c] :
       /\ outbox[c][n].type = "NEW_MESSAGE"
       /\ \A k \in 1..(n - 1) : outbox[c][k].type # "NEW_MESSAGE"
       /\ outbox' = [outbox EXCEPT ![c] = RemoveAt(@, n)]
  /\ Go(c, "listing", "typing")
  /\ UNCHANGED <<chat, server, inbox, client_id>>

\* SIGINT, or the command STOP: a full queue loses the STOP.
Stop(c) ==
  /\ pc[c] # "gone"
  /\ End(c)
  /\ inbox' = IF server.at # "exited" /\ Len(inbox) < ServerRoom
                THEN Append(inbox, My(c, "STOP", 0)) ELSE inbox
  /\ UNCHANGED <<chat, server>>

ClientStep(c) ==
  Connect(c) \/ Connected(c) \/ Read(c) \/ Request(c) \/ Listed(c)

-----------------------------------------------------------------------------
TypeOK ==
  /\ queues \in [Slots -> Clients \cup {FREE}]
  /\ no_clients_actual_connected \in Int
  /\ server.at \in ServerLocations
  /\ server.at = "sending" => server.slot \in Slots /\ server.client_id \in Slots
  /\ server.at = "stopping" => server.slot \in 0..MAX_CLIENTS
  /\ server.at = "answering" => server.target \in Clients
  /\ server.at = "accepting" => server.target \in Clients /\ server.client_id \in Slots
  /\ inbox \in Seq(Requests) /\ Len(inbox) <= ServerRoom
  /\ \A c \in Clients :
       /\ Len(outbox[c]) <= ClientRoom
       /\ \A n \in DOMAIN outbox[c] :
            outbox[c][n] \in [type : {"SUCCES", "FAILURE", "NEW_MESSAGE", "STOP"},
                              client_id : Slots]
  /\ pc \in [Clients -> ClientLocations]
  /\ client_id \in [Clients -> Slots]

Init ==
  /\ queues = [i \in Slots |-> FREE]
  /\ no_clients_actual_connected = 0
  /\ server = [at |-> "loop"]
  /\ inbox = <<>>
  /\ outbox = [c \in Clients |-> <<>>]
  /\ pc = [c \in Clients |-> "starting"]
  /\ client_id = [c \in Clients |-> 0]

Next ==
  \/ Handler
  \/ StopSignal
  \/ \E c \in Clients : ClientStep(c) \/ Command(c) \/ Stop(c)

\* The server polls its queue, the clients run; nobody has to type or to
\* press CTRL+C.
Fairness ==
  /\ WF_vars(Handler)
  /\ \A c \in Clients : SF_vars(ClientStep(c))

Spec == Init /\ [][Next]_vars

FairSpec == Spec /\ Fairness

-----------------------------------------------------------------------------
(***************************************************************************)
(* The count never exceeds the slots in use: a client is refused only when *)
(* the table is really full, although STOPs of clients that were never     *)
(* accepted, or are counted twice, bring the count down.                   *)
(***************************************************************************)
RefusedOnlyWhenFull ==
  server.at # "stopping" /\ ~ServerGone =>
    no_clients_actual_connected <= Cardinality(Occupied)

(***************************************************************************)
(* The first message a client finds in its queue is the answer to INNIT or *)
(* the server's STOP: nobody's text overtakes the client_id.               *)
(***************************************************************************)
AnswerComesFirst ==
  \A c \in Clients :
    pc[c] = "connecting" /\ outbox[c] # <<>> =>
      Head(outbox[c]).type \in {"SUCCES", "FAILURE", "STOP"}

\* The slots of clients that wait for the answer to INNIT and have no message.
Untold ==
  {i \in Occupied : pc[queues[i]] = "connecting" /\ outbox[queues[i]] = <<>>}

(***************************************************************************)
(* A client in the table knows its slot as its client_id, or will learn it *)
(* from the next message it reads; so a message to all never comes back to *)
(* a sender in the table.  SIGINT may keep one client from learning it, no *)
(* more, by coming between the table and SUCCES: the first message of this *)
(* client is STOP, or it waits forever for a server that has failed.       *)
(***************************************************************************)
SlotIsClientId ==
  /\ \A i \in Occupied \ Untold :
       LET c == queues[i]
       IN  \/ pc[c] = "gone"
           \/ pc[c] = "connecting" /\ Head(outbox[c]) = Msg("SUCCES", i)
           \/ pc[c] # "connecting" /\ client_id[c] = i
  /\ \A i \in Untold :
       /\ Untold = {i}
       /\ \/ /\ server.at = "accepting"
             /\ server.target = queues[i] /\ server.client_id = i
          \/ server.at \in {"stopping", "exited", "failed"}

(***************************************************************************)
(* LIST never waits in vain: a client that waits for its answer has a text *)
(* in its queue, or its request is in the server's queue or being answered *)
(* there, although it may have taken somebody's text for an earlier answer *)
(* and have no slot.  Only a server that has stopped leaves it waiting,    *)
(* since the wait for NEW_MESSAGE does not take the server's STOP.         *)
(***************************************************************************)
ListWillBeAnswered ==
  \A c \in Clients :
    pc[c] = "listing" =>
      \/ server.at \in {"stopping", "exited", "failed"}
      \/ server.at = "answering" /\ server.type = "LIST" /\ server.target = c
      \/ \E n \in DOMAIN inbox : inbox[n].type = "LIST" /\ inbox[n].key = c
      \/ \E n \in DOMAIN outbox[c] : outbox[c][n].type = "NEW_MESSAGE"

\* The server waits for room in the queue of a client.
ServerBlocked ==
  \/ server.at = "answering" /\ Full(server.target)
  \/ /\ server.at \in {"sending", "stopping"} /\ server.slot \in Occupied
     /\ Full(queues[server.slot])

(***************************************************************************)
(* Every INNIT and every LIST is answered, unless the server stops or      *)
(* waits forever for a client that does not read its queue.                *)
(***************************************************************************)
RequestsAnswered ==
  \/ <>[](server.at \in {"stopping", "exited", "failed"} \/ ServerBlocked)
  \/ \A c \in Clients :
       pc[c] \in {"connecting", "listing"} ~> pc[c] \notin {"connecting", "listing"}

=============================================================================
