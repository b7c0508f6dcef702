----------------------------- MODULE SelfService -----------------------------
(***************************************************************************)
(* lab7/zad1/v2: a barber shop without barbers.  main forks a client       *)
(* after the other; each one takes a barber and a chair, which are units   *)
(* of two semaphores, cuts its own hair and gives them back.  It goes to   *)
(* the waiting room only when a semop fails.                               *)
(*                                                                         *)
(* semop fails when the semaphores are removed, which every process does   *)
(* on SIGINT, and when it sleeps and the shop is stopped and continued     *)
(* (SIGTSTP, SIGCONT).  The history variable interrupted records the       *)
(* second case.  Printing and the delays are left out.                     *)
(***************************************************************************)
EXTENDS Integers, FiniteSets

CONSTANTS
  MAX_ID,     \* main forks so many clients (bound)
  Barbers0,   \* the arguments of the program: barbers,
  Chairs0,    \* chairs,
  Room0       \* and places in the waiting room

ASSUME ShopAssumption ==
  /\ MAX_ID \in Nat
  /\ Barbers0 \in Nat
  /\ Chairs0 \in Nat
  /\ Room0 \in Nat

Clients    == 1..MAX_ID
Semaphores == {"BARBERS", "CHAIRS", "WAITING_ROOM"}

VARIABLES
  client_id,   \* main's: of the client forked last
  main,        \* "running" or "exited"
  sem,         \* the values of the semaphores
  removed,     \* the semaphores are gone
  last_served, \* the shared integer
  pc,          \* where each client is
  max,         \* what each client stores in last_served
  found,       \* the clients that got a barber in line 115
  interrupted  \* history: a sleeping semop has failed

vars == <<client_id, main, sem, removed, last_served, pc, max, found, interrupted>>

-----------------------------------------------------------------------------
(* The semaphores *)

Got(n) ==
  /\ ~removed
  /\ sem[n] > 0
  /\ sem' = [sem EXCEPT ![n] = @ - 1]
  /\ UNCHANGED interrupted

\* EIDRM, or EINTR while it sleeps.
Failed(n) ==
  /\ removed \/ sem[n] = 0
  /\ interrupted' = (interrupted \/ ~removed)
  /\ UNCHANGED sem

free_sem(n) == sem' = IF removed THEN sem ELSE [sem EXCEPT ![n] = @ + 1]

Go(c, from, to) == pc[c] = from /\ pc' = [pc EXCEPT ![c] = to]

\* What few steps of a client change.
Rest == <<client_id, main, removed>>

-----------------------------------------------------------------------------
(* The first branch: a barber, then a chair *)

FindBarber(c) ==
  /\ \/ Go(c, "arriving", "seating") /\ Got("BARBERS") /\ found' = found \cup {c}
     \/ Go(c, "arriving", "queueing") /\ Failed("BARBERS") /\ UNCHANGED found
  /\ UNCHANGED <<Rest, last_served, max>>

FindChair(c) ==
  /\ \/ Go(c, "seating", "cutting") /\ Got("CHAIRS")
     \/ Go(c, "seating", "entering") /\ Failed("CHAIRS")
  /\ UNCHANGED <<Rest, last_served, max, found>>

EnterRoom(c) ==
  /\ \/ Go(c, "entering", "waiting") /\ Got("WAITING_ROOM")
     \/ Go(c, "entering", "turning") /\ Failed("WAITING_ROOM")
  /\ UNCHANGED <<Rest, last_served, max, found>>

\* Mutant: the wrong semaphore is freed.
LeaveRoomPaying(c) ==
  /\ c > last_served
  /\ Go(c, "waiting", "cutting")
  /\ free_sem("BARBERS")
  /\ UNCHANGED <<Rest, last_served, max, found, interrupted>>

\* The loop ends for a client that came after the one served last.  It takes
\* no chair.
LeaveRoom(c) ==
  /\ c > last_served
  /\ Go(c, "waiting", "cutting")
  /\ free_sem("WAITING_ROOM")
  /\ UNCHANGED <<Rest, last_served, max, found, interrupted>>

-----------------------------------------------------------------------------
(* The second branch, when no barber was found *)

\* The results of acquire_sem are ignored.
Queue(c) ==
  /\ Go(c, "queueing", "spinning")
  /\ Got("WAITING_ROOM") \/ Failed("WAITING_ROOM")
  /\ UNCHANGED <<Rest, last_served, max, found>>

LeaveQueue(c) ==
  /\ c > last_served
  /\ Go(c, "spinning", "sitting")
  /\ free_sem("WAITING_ROOM")
  /\ UNCHANGED <<Rest, last_served, max, found, interrupted>>

Sit(c) ==
  /\ Go(c, "sitting", "cutting")
  /\ Got("CHAIRS") \/ Failed("CHAIRS")
  /\ UNCHANGED <<Rest, last_served, max, found>>

-----------------------------------------------------------------------------
(* The end of a haircut, and of a client that found no place *)

\* last_served is read, and written in a later step.
Load(c) ==
  /\ Go(c, "cutting", "storing") \/ Go(c, "turning", "excusing")
  /\ max' = [max EXCEPT ![c] = IF c > last_served THEN c ELSE last_served]
  /\ UNCHANGED <<Rest, sem, last_served, found, interrupted>>

\* Mutant: the client to be served next is stored.
StoreNext(c) ==
  /\ Go(c, "storing", "rising") \/ Go(c, "excusing", "paying")
  /\ last_served' = max[c] + 1
  /\ UNCHANGED <<Rest, sem, max, found, interrupted>>

Store(c) ==
  /\ Go(c, "storing", "rising") \/ Go(c, "excusing", "paying")
  /\ last_served' = max[c]
  /\ UNCHANGED <<Rest, sem, max, found, interrupted>>

\* Mutant: a client that found a barber leaves the chair to it.
RiseLate(c) ==
  /\ Go(c, "rising", IF c \in found THEN "paying" ELSE "gone")
  /\ IF c \in found THEN UNCHANGED sem ELSE free_sem("CHAIRS")
  /\ UNCHANGED <<Rest, last_served, max, found, interrupted>>

Rise(c) ==
  /\ Go(c, "rising", IF c \in found THEN "paying" ELSE "gone")
  /\ free_sem("CHAIRS")
  /\ UNCHANGED <<Rest, last_served, max, found, interrupted>>

\* Mutant: the barber is not freed.
LeaveWithBarber(c) ==
  /\ Go(c, "paying", "gone")
  /\ UNCHANGED <<Rest, sem, last_served, max, found, interrupted>>

Pay(c) ==
  /\ Go(c, "paying", "gone")
  /\ free_sem("BARBERS")
  /\ UNCHANGED <<Rest, last_served, max, found, interrupted>>

ClientStep(c) ==
  \/ FindBarber(c) \/ FindChair(c) \/ EnterRoom(c) \/ LeaveRoom(c)
  \/ Queue(c) \/ LeaveQueue(c) \/ Sit(c)
  \/ Load(c) \/ Store(c) \/ Rise(c) \/ Pay(c)

-----------------------------------------------------------------------------
(* main, and handle_exit *)

Fork ==
  /\ main = "running"
  /\ client_id < MAX_ID
  /\ client_id' = client_id + 1
  /\ pc' = [pc EXCEPT ![client_id + 1] = "arriving"]
  /\ UNCHANGED <<main, sem, removed, last_served, max, found, interrupted>>

\* SIGINT reaches main or a client; the handler was inherited over fork.
MainExit ==
  /\ main = "running"
  /\ main' = "exited"
  /\ removed' = TRUE
  /\ UNCHANGED <<client_id, sem, last_served, pc, max, found, interrupted>>

ClientExit(c) ==
  /\ pc[c] \notin {"none", "gone"}
  /\ pc' = [pc EXCEPT ![c] = "gone"]
  /\ removed' = TRUE
  /\ UNCHANGED <<client_id, main, sem, last_served, max, found, interrupted>>

-----------------------------------------------------------------------------
TypeOK ==
  /\ client_id \in 0..MAX_ID
  /\ main \in {"running", "exited"}
  /\ sem \in [Semaphores -> Nat]
  /\ removed \in BOOLEAN
  /\ last_served \in 0..client_id
  /\ pc \in [Clients -> {"none", "arriving", "seating", "entering", "waiting",
                         "queueing", "spinning", "sitting", "cutting", "storing",
                         "rising", "turning", "excusing", "paying", "gone"}]
  /\ max \in [Clients -> 0..MAX_ID]
  /\ found \subseteq Clients
  /\ interrupted \in BOOLEAN

\* SETVAL to the argument, and one more.
Init ==
  /\ client_id = 0
  /\ main = "running"
  /\ sem = [n \in Semaphores |->
             1 + CASE n = "BARBERS" -> Barbers0
                   [] n = "CHAIRS"  -> Chairs0
                   [] OTHER         -> Room0]
  /\ removed = FALSE
  /\ last_served = 0
  /\ pc = [c \in Clients |-> "none"]
  /\ max = [c \in Clients |-> 0]
  /\ found = {}
  /\ interrupted = FALSE

Next ==
  \/ Fork
  \/ MainExit
  \/ \E c \in Clients : ClientStep(c) \/ ClientExit(c)

\* The kernel keeps the processes that sleep on a semaphore in a queue.
\* Nobody has to interrupt them.
Fairness ==
  \A c \in Clients : SF_vars(ClientStep(c) /\ UNCHANGED interrupted)

Spec == Init /\ [][Next]_vars

FairSpec == Spec /\ Fairness

-----------------------------------------------------------------------------
At(locations) == Cardinality({c \in Clients : pc[c] \in locations})

\* A client of the first branch that has not given its barber back.
WithBarber ==
  {c \in found : pc[c] # "gone"}

(***************************************************************************)
(* However many semops fail by interruption, each client gives back the    *)
(* barber it has found and no other: while the semaphores are there, none  *)
(* is lost and none is doubled (free_sem in line 134, for the branches     *)
(* that end in a haircut, in the waiting room and in the street).          *)
(***************************************************************************)
BarbersConserved ==
  ~removed => sem["BARBERS"] + Cardinality(WithBarber) = Barbers0 + 1

(***************************************************************************)
(* Chairs are not: a client that was in the waiting room gives back a      *)
(* chair it never took.  But no chair is ever lost, and as long as no      *)
(* semop is interrupted no more clients are served than there are chairs.  *)
(***************************************************************************)
ChairsNeverLost ==
  ~removed =>
    LET chairs == sem["CHAIRS"] + At({"cutting", "storing", "rising"})
    IN  /\ chairs >= Chairs0 + 1
        /\ ~interrupted => chairs = Chairs0 + 1

(***************************************************************************)
(* Unless a semop is interrupted, each client leaves, even if the shop     *)
(* closes around it, or spins in line 137, where only a client that finds  *)
(* neither a barber nor the semaphores gets.                               *)
(***************************************************************************)
EveryoneLeaves ==
  \A c \in Clients :
    <>[](interrupted \/ pc[c] \in {"none", "gone"} \/ (removed /\ pc[c] = "spinning"))

=============================================================================
