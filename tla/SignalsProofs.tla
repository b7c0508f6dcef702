---------------------------- MODULE SignalsProofs ----------------------------
(***************************************************************************)
(* ConfirmedFirst of Signals for any number of senders and any scripts.    *)
(* It is not inductive: a sender may only go on because the one signal it  *)
(* has not confirmed is the one the handler runs for, so the invariant     *)
(* follows each signal from the sender through pending to the handler.     *)
(***************************************************************************)
EXTENDS Signals, SequenceTheorems, TLAPS

(***************************************************************************)
(* A signal that is pending is the only one of its sender that is not      *)
(* handled, and one that the handler runs for has just been counted; a     *)
(* sender has at most one signal at the catcher.                           *)
(***************************************************************************)
Unconfirmed(s) == sent[s] = handled[s] + 1 /\ pc[s] \in {"sent", "suspended"}

SignalsFollowed ==
  /\ pending # None => Unconfirmed(pending[1])
  /\ handling # None =>
       /\ sent[handling[1]] = handled[handling[1]]
       /\ pc[handling[1]] \in {"sent", "suspended"}

IInv == TypeOK /\ ConfirmedFirst /\ SignalsFollowed

-----------------------------------------------------------------------------
(* A pair of a sender and a command is a signal, and None is not one.      *)
LEMMA RequestParts ==
  ASSUME NEW r \in Requests
  PROVE  r # None /\ r[1] \in Senders /\ r[2] \in {"print", "close"}
BY SignalsAssumption DEF Requests, Commands

(* The catcher starts before any signal is sent.                           *)
LEMMA InitIInv == Init => IInv
BY SignalsAssumption DEF Init, IInv, TypeOK, ConfirmedFirst, SignalsFollowed

(* Every step of a sender keeps the invariant.                             *)
LEMMA SenderKeeps ==
  ASSUME IInv, NEW s \in Senders, SenderStep(s)
  PROVE  IInv'
<1> USE DEF IInv, TypeOK, ConfirmedFirst, SignalsFollowed, Unconfirmed
<1>1. CASE Invalid(s)
  BY <1>1, RequestParts DEF Invalid
<1>2. CASE Send(s)
  <2> DEFINE request == <<s, Head(todo[s])>>
  <2>1. /\ todo[s] \in Seq(Commands) /\ todo[s] # <<>> /\ Head(todo[s]) # "unknown"
        /\ todo' = [todo EXCEPT ![s] = Tail(todo[s])]
        /\ pc[s] = "ready" /\ pc' = [pc EXCEPT ![s] = "sent"]
        /\ sent' = [sent EXCEPT ![s] = sent[s] + 1]
        /\ UNCHANGED <<handling, current_request, handled>>
    BY <1>2 DEF Send
  <2>2. request \in Requests /\ Tail(todo[s]) \in Seq(Commands)
    BY <2>1, HeadTailProperties DEF Commands, Requests
  <2>3. /\ \/ pending = None /\ pending' = request /\ UNCHANGED lost
           \/ pending' = pending /\ lost' = lost \cup {s}
        /\ catcher' \in {catcher, "exited"}
    BY <1>2 DEF Send
  <2>4. TypeOK'
    <3>1. todo' \in [Senders -> Seq(Commands)]
      BY <2>1, <2>2
    <3>2. pending' \in Requests \cup {None}
      BY <2>2, <2>3
    <3> QED BY <2>1, <2>3, <3>1, <3>2
  <2>5. ConfirmedFirst'
    BY <2>1
  <2>6. request[1] = s
    OBVIOUS
  <2> HIDE DEF request
  <2>7. SignalsFollowed'
    <3>1. pending # None => pending[1] \in Senders \ {s}
      BY <2>1, RequestParts
    <3>2. handling # None => handling[1] \in Senders \ {s}
      BY <2>1, RequestParts
    <3> QED BY <2>1, <2>3, <2>6, <3>1, <3>2
  <2> QED BY <2>4, <2>5, <2>7
<1>3. CASE Suspend(s)
  BY <1>3, RequestParts DEF Suspend
<1>4. CASE Finish(s)
  BY <1>4, RequestParts DEF Finish
<1> QED BY <1>1, <1>2, <1>3, <1>4 DEF SenderStep

(* Every step of the catcher keeps the invariant.                          *)
LEMMA CatcherKeeps ==
  ASSUME IInv, CatcherStep
  PROVE  IInv'
<1> USE DEF IInv, TypeOK, ConfirmedFirst, SignalsFollowed, Unconfirmed
<1>1. CASE Install
  BY <1>1 DEF Install
<1>2. CASE Handle
  <2>1. /\ pending # None /\ pending[1] \in Senders
        /\ pending[2] \in {"print", "close"}
    BY <1>2, RequestParts DEF Handle
  <2> QED BY <1>2, <2>1 DEF Handle
<1>3. CASE Acknowledge
  <2>1. handling # None /\ handling[1] \in Senders
    BY <1>3, RequestParts DEF Acknowledge
  <2>2. pending # None => pending[1] \in Senders \ {handling[1]}
    BY <2>1, RequestParts
  <2> QED BY <1>3, <2>1, <2>2 DEF Acknowledge
<1>4. CASE LeaveLoop
  BY <1>4 DEF LeaveLoop
<1>5. CASE Exit
  BY <1>5, RequestParts DEF Exit
<1> QED BY <1>1, <1>2, <1>3, <1>4, <1>5 DEF CatcherStep

LEMMA NextIInv == IInv /\ [Next]_vars => IInv'
<1> SUFFICES ASSUME IInv, [Next]_vars PROVE IInv'
  OBVIOUS
<1>1. CASE UNCHANGED vars
  BY <1>1 DEF vars, IInv, TypeOK, ConfirmedFirst, SignalsFollowed, Unconfirmed
<1> QED BY <1>1, SenderKeeps, CatcherKeeps DEF Next

-----------------------------------------------------------------------------
(* Each signal is followed from its sender to the acknowledgement.         *)
THEOREM Invariance == Spec => []IInv
<1> QED BY InitIInv, NextIInv, PTL DEF Spec

(* Type correctness: the catcher only ever gets commands that the sender   *)
(* has checked (sender.c).                                                 *)
THEOREM TypeCorrect == Spec => []TypeOK
<1>1. IInv => TypeOK
  BY DEF IInv
<1> QED BY <1>1, Invariance, PTL

(* A sender goes on or ends only when its signals were handled, whatever   *)
(* is dropped, late or meant for others (sender.c:51-54, catcher.c:52-88). *)
THEOREM Confirmed == Spec => []ConfirmedFirst
<1>1. IInv => ConfirmedFirst
  BY DEF IInv
<1> QED BY <1>1, Invariance, PTL

=============================================================================
