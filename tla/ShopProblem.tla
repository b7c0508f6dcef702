----------------------------- MODULE ShopProblem -----------------------------
(***************************************************************************)
(* What lab7/zad1/v1 promises, without semaphores or shared memory: a      *)
(* client enters when one of the places is free and calls for a barber, as *)
(* many haircuts are under way as there are barbers at work, and a client  *)
(* leaves when a haircut has been finished that nobody has left with.  The *)
(* place is free again when the barber is.                                 *)
(*                                                                         *)
(* Somebody whose wait is interrupted does not wait: a client squeezes     *)
(* into a full shop, a barber starts without a call, or a client leaves    *)
(* without a haircut.  Each of these is counted.                           *)
(***************************************************************************)
EXTENDS Integers

CONSTANTS PLACES, BARBERS, CLIENTS

VARIABLES
  entered,  \* clients that have not called yet
  called,   \* calls that no barber has answered
  cutting,  \* barbers who cut
  clearing, \* barbers who clear the place
  finished, \* haircuts nobody has left with
  left,     \* clients that have left
  squeezed, \* clients that entered a full shop
  uncalled, \* barbers that started without a call
  uncut     \* clients that left without a haircut

room  == <<entered, called, cutting, clearing>>
done  == <<finished, left>>
count == <<squeezed, uncalled, uncut>>
vars  == <<room, done, count>>

\* A place is made for everybody that does not wait for one.
Free == (PLACES + squeezed + uncalled) - (entered + called + cutting + clearing)

\* The clients that have called and not left.
Waiting == (called + cutting + finished) - (uncalled + uncut)

Init ==
  /\ entered = 0 /\ called = 0 /\ cutting = 0 /\ clearing = 0
  /\ finished = 0 /\ left = 0
  /\ squeezed = 0 /\ uncalled = 0 /\ uncut = 0

Enter ==
  /\ entered + Waiting + left < CLIENTS
  /\ entered' = entered + 1
  /\ \/ Free > 0 /\ UNCHANGED squeezed
     \/ Free = 0 /\ squeezed' = squeezed + 1
  /\ UNCHANGED <<called, cutting, clearing, done, uncalled, uncut>>

Call ==
  /\ entered > 0
  /\ entered' = entered - 1
  /\ called' = called + 1
  /\ UNCHANGED <<cutting, clearing, done, count>>

Answer ==
  /\ cutting + clearing < BARBERS
  /\ cutting' = cutting + 1
  /\ \/ called > 0 /\ called' = called - 1 /\ UNCHANGED uncalled
     \/ called = 0 /\ uncalled' = uncalled + 1 /\ UNCHANGED called
  /\ UNCHANGED <<entered, clearing, done, squeezed, uncut>>

Finish ==
  /\ cutting > 0
  /\ cutting' = cutting - 1
  /\ clearing' = clearing + 1
  /\ finished' = finished + 1
  /\ UNCHANGED <<entered, called, left, count>>

Clear ==
  /\ clearing > 0
  /\ clearing' = clearing - 1
  /\ UNCHANGED <<entered, called, cutting, done, count>>

Leave ==
  /\ Waiting > 0
  /\ left' = left + 1
  /\ \/ finished > 0 /\ finished' = finished - 1 /\ UNCHANGED uncut
     \/ finished = 0 /\ uncut' = uncut + 1 /\ UNCHANGED finished
  /\ UNCHANGED <<room, squeezed, uncalled>>

Next == Enter \/ Call \/ Answer \/ Finish \/ Clear \/ Leave

Spec == Init /\ [][Next]_vars

=============================================================================
