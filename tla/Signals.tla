------------------------------- MODULE Signals -------------------------------
(***************************************************************************)
(* lab4/zad3: senders give the catcher one command after the other, each   *)
(* with a SIGUSR1 that carries it, and wait in sigsuspend for a SIGUSR1    *)
(* back.                                                                   *)
(*                                                                         *)
(* SIGUSR1 is not a real-time signal: one can be pending, and another one  *)
(* is dropped although sigqueue succeeds.  An acknowledgement that comes   *)
(* before sigsuspend runs the sender's handler and is lost.  Until the     *)
(* catcher has installed its handler, the signal ends it; when it has      *)
(* ended, sigqueue fails, which no sender checks.                          *)
(*                                                                         *)
(* The commands 1 to 4 print and are one here, "print"; time and printing  *)
(* are left out.  counter is the sum of handled.                           *)
(***************************************************************************)
EXTENDS Naturals, Sequences

CONSTANTS
  Senders,  \* the processes that run the sender
  Scripts,  \* the arguments a sender may get after the pid
  None      \* no request

Commands == {"print", "close", "unknown"}

ASSUME SignalsAssumption ==
  /\ Scripts \subseteq Seq(Commands)
  /\ None \notin Senders \X Commands

VARIABLES
  catcher,         \* "starting", "running", "leaving" its loop, "exited"
  pending,         \* the catcher's pending signal: its sender and command
  handling,        \* the signal its handler runs for
  current_request, \* the last command, or "none"
  todo,            \* the arguments each sender has left
  pc,              \* where each sender is
  sent,            \* how many signals each sender has sent
  handled,         \* how many the catcher has handled for it
  lost             \* history: the senders with a signal that was dropped or
                   \* found no catcher, or an acknowledgement that came early

vars ==
  <<catcher, pending, handling, current_request, todo, pc, sent, handled, lost>>

-----------------------------------------------------------------------------
(* The sender *)

Invalid(s) ==
  /\ pc[s] = "ready"
  /\ todo[s] # <<>> /\ Head(todo[s]) = "unknown"
  /\ pc' = [pc EXCEPT ![s] = "failed"]
  /\ UNCHANGED <<catcher, pending, handling, current_request, todo, sent, handled, lost>>

\* Mutant: the command is not checked.
SendAnything(s) ==
  /\ pc[s] = "ready"
  /\ todo[s] # <<>>
  /\ todo' = [todo EXCEPT ![s] = Tail(@)]
  /\ pc' = [pc EXCEPT ![s] = "sent"]
  /\ sent' = [sent EXCEPT ![s] = @ + 1]
  /\ IF catcher \in {"running", "leaving"} /\ pending = None
       THEN pending' = <<s, Head(todo[s])>> /\ UNCHANGED lost
       ELSE lost' = lost \cup {s} /\ UNCHANGED pending
  /\ catcher' = IF catcher = "starting" THEN "exited" ELSE catcher
  /\ UNCHANGED <<handling, current_request, handled>>

Send(s) ==
  /\ pc[s] = "ready"
  /\ todo[s] # <<>> /\ Head(todo[s]) # "unknown"
  /\ todo' = [todo EXCEPT ![s] = Tail(@)]
  /\ pc' = [pc EXCEPT ![s] = "sent"]
  /\ sent' = [sent EXCEPT ![s] = @ + 1]
  /\ IF catcher \in {"running", "leaving"} /\ pending = None
       THEN pending' = <<s, Head(todo[s])>> /\ UNCHANGED lost
       ELSE lost' = lost \cup {s} /\ UNCHANGED pending
  /\ catcher' = IF catcher = "starting" THEN "exited" ELSE catcher
  /\ UNCHANGED <<handling, current_request, handled>>

\* Mutant: without sigsuspend, the next command follows at once.
SuspendNot(s) ==
  /\ pc[s] = "sent"
  /\ pc' = [pc EXCEPT ![s] = "ready"]
  /\ UNCHANGED <<catcher, pending, handling, current_request, todo, sent, handled, lost>>

Suspend(s) ==
  /\ pc[s] = "sent"
  /\ pc' = [pc EXCEPT ![s] = "suspended"]
  /\ UNCHANGED <<catcher, pending, handling, current_request, todo, sent, handled, lost>>

Finish(s) ==
  /\ pc[s] = "ready"
  /\ todo[s] = <<>>
  /\ pc' = [pc EXCEPT ![s] = "done"]
  /\ UNCHANGED <<catcher, pending, handling, current_request, todo, sent, handled, lost>>

SenderStep(s) == Invalid(s) \/ Send(s) \/ Suspend(s) \/ Finish(s)

-----------------------------------------------------------------------------
(* The catcher *)

Install ==
  /\ catcher = "starting"
  /\ catcher' = "running"
  /\ UNCHANGED <<pending, handling, current_request, todo, pc, sent, handled, lost>>

\* Mutant: the handler does not block the signal it runs for (SA_NODEFER).
HandleNested ==
  /\ catcher \in {"running", "leaving"}
  /\ pending # None
  /\ handling' = pending
  /\ pending' = None
  /\ current_request' = pending[2]
  /\ handled' = [handled EXCEPT ![pending[1]] = @ + 1]
  /\ UNCHANGED <<catcher, todo, pc, sent, lost>>

\* SIGUSR1 is blocked while its handler runs.
Handle ==
  /\ catcher \in {"running", "leaving"}
  /\ pending # None
  /\ handling = None
  /\ handling' = pending
  /\ pending' = None
  /\ current_request' = pending[2]
  /\ handled' = [handled EXCEPT ![pending[1]] = @ + 1]
  /\ UNCHANGED <<catcher, todo, pc, sent, lost>>

\* The end of the handler: a sender in sigsuspend goes on, one that is not
\* there yet will wait for another signal.
Acknowledge ==
  /\ handling # None
  /\ handling' = None
  /\ LET s == handling[1]
     IN  IF pc[s] = "suspended"
           THEN pc' = [pc EXCEPT ![s] = "ready"] /\ UNCHANGED lost
           ELSE lost' = lost \cup {s} /\ UNCHANGED pc
  /\ UNCHANGED <<catcher, pending, current_request, todo, sent, handled>>

\* Mutant: the loop ends for a request to print.
LeaveLoopWrongly ==
  /\ catcher = "running"
  /\ handling = None /\ pending = None
  /\ current_request = "print"
  /\ catcher' = "leaving"
  /\ UNCHANGED <<pending, handling, current_request, todo, pc, sent, handled, lost>>

\* main reads current_request when no handler is to run before it.
LeaveLoop ==
  /\ catcher = "running"
  /\ handling = None /\ pending = None
  /\ current_request = "close"
  /\ catcher' = "leaving"
  /\ UNCHANGED <<pending, handling, current_request, todo, pc, sent, handled, lost>>

Exit ==
  /\ catcher = "leaving"
  /\ handling = None
  /\ catcher' = "exited"
  /\ pending' = None
  /\ lost' = IF pending = None THEN lost ELSE lost \cup {pending[1]}
  /\ UNCHANGED <<handling, current_request, todo, pc, sent, handled>>

CatcherStep == Install \/ Handle \/ Acknowledge \/ LeaveLoop \/ Exit

-----------------------------------------------------------------------------
Requests == Senders \X {"print", "close"}

TypeOK ==
  /\ catcher \in {"starting", "running", "leaving", "exited"}
  /\ pending \in Requests \cup {None}
  /\ handling \in Requests \cup {None}
  /\ current_request \in {"none", "print", "close"}
  /\ todo \in [Senders -> Seq(Commands)]
  /\ pc \in [Senders -> {"ready", "sent", "suspended", "done", "failed"}]
  /\ sent \in [Senders -> Nat]
  /\ handled \in [Senders -> Nat]
  /\ lost \subseteq Senders

Init ==
  /\ catcher = "starting"
  /\ pending = None
  /\ handling = None
  /\ current_request = "none"
  /\ todo \in [Senders -> Scripts]
  /\ pc = [s \in Senders |-> "ready"]
  /\ sent = [s \in Senders |-> 0]
  /\ handled = [s \in Senders |-> 0]
  /\ lost = {}

Next == CatcherStep \/ \E s \in Senders : SenderStep(s)

\* No process sleeps for longer than a second, or waits for another one in
\* any other way than sigsuspend.
Fairness == WF_vars(CatcherStep) /\ \A s \in Senders : WF_vars(SenderStep(s))

Spec == Init /\ [][Next]_vars

FairSpec == Spec /\ Fairness

-----------------------------------------------------------------------------
(***************************************************************************)
(* A sender sends its next signal, and ends, only when all its signals     *)
(* were handled (lab_04_polecenie.txt, zad. 3), whatever other senders'    *)
(* signals come in between or are lost.                                    *)
(***************************************************************************)
ConfirmedFirst ==
  \A s \in Senders :
    /\ handled[s] <= sent[s]
    /\ sent[s] <= handled[s] + 1
    /\ pc[s] \in {"ready", "done", "failed"} => sent[s] = handled[s]

(***************************************************************************)
(* A sender waits forever only when one of its signals was dropped, found  *)
(* no catcher, or was acknowledged before sigsuspend; and a sender with    *)
(* such a loss does wait forever: there is no timeout.                     *)
(***************************************************************************)
EndsUnlessLost ==
  \A s \in Senders :
    <>[](IF s \in lost THEN pc[s] = "suspended" ELSE pc[s] \in {"done", "failed"})

(***************************************************************************)
(* A request to close is not forgotten, unless a later request is handled  *)
(* before the main loop reads it.                                          *)
(***************************************************************************)
ClosesUnlessOvertaken == <>[](current_request = "close" => catcher = "exited")

=============================================================================
