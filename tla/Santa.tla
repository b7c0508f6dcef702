------------------------------- MODULE Santa -------------------------------
(***************************************************************************)
(* lab9/zad1/main.c: Santa, the reindeer and the elves as POSIX threads.   *)
(*                                                                         *)
(* The program has three Monitor structs (mutex, condition, value).  The   *)
(* mutex of the santa monitor is left out: Santa alone touches it, so it   *)
(* orders nothing.  (He waits on it without having locked it; the default  *)
(* mutex of the build lets that unlock pass, and he holds it afterwards.)  *)
(* What remains of that monitor is its condition and the delivery count.   *)
(*                                                                         *)
(* A condition is the set of the threads blocked in pthread_cond_wait.     *)
(* A signal that finds the set empty is lost: that is the point of the     *)
(* module.                                                                 *)
(***************************************************************************)
EXTENDS Integers, FiniteSets

CONSTANTS
  Elves,          \* the elf threads (ELVES_TOTAL of them)
  Reindeer,       \* the reindeer threads (REINDEER_TOTAL of them)
  SantaThread,    \* Santa's thread
  NoThread,       \* the owner of a free mutex
  ELVES_REQUIRED, \* the size of a group of elves at the door
  DELIVERIES      \* santa_routine ends after this many deliveries

REINDEER_TOTAL == Cardinality(Reindeer)

Threads == Elves \cup Reindeer \cup {SantaThread}

ASSUME ThreadAssumption ==
  /\ Elves \cap Reindeer = {}
  /\ SantaThread \notin Elves \cup Reindeer
  /\ NoThread \notin Threads

ASSUME CountAssumption ==
  /\ IsFiniteSet(Reindeer) /\ Reindeer # {}
  /\ ELVES_REQUIRED \in Nat \ {0}
  /\ DELIVERIES \in Nat \ {0}

VARIABLES
  elves,     \* Monitor elves
  rindeers,  \* Monitor rindeers
  santa,     \* Monitor santa, without its mutex
  pc,        \* where each thread is
  running    \* FALSE once main has returned, which ends every thread

vars == <<elves, rindeers, santa, pc, running>>

(***************************************************************************)
(* Locations of an elf or a reindeer: "away" in its sleep() outside of the *)
(* monitor, "counting" and "waking" with the mutex held before and after   *)
(* the value is raised, "parking" with the mutex held and Santa signalled, *)
(* "waiting" blocked on the condition, "woken" about to take the mutex     *)
(* back.  Locations of Santa: "idle" before pthread_cond_wait, "waiting",  *)
(* "woken", then through the two monitors, and "exited".                   *)
(***************************************************************************)
WorkerLocations ==
  {"away", "counting", "waking", "parking", "waiting", "woken"}

SantaLocations ==
  {"idle", "waiting", "woken", "checkElves", "solving",
   "toRindeers", "checkRindeers", "delivering", "exited"}

Move(t, to) == pc' = [pc EXCEPT ![t] = to]

\* The sets of threads that one pthread_cond_signal may release.
Releasable(waiters) ==
  IF waiters = {} THEN {{}} ELSE {{t} : t \in waiters}

\* t moves to the location `to`; the released threads have a mutex to retake.
MoveAndWake(t, to, released) ==
  pc' = [u \in Threads |-> IF u = t THEN to
                           ELSE IF u \in released THEN "woken" ELSE pc[u]]

-----------------------------------------------------------------------------
(* elf_routine *)

ElfLock(e) ==
  /\ pc[e] = "away"
  /\ elves.mutex = NoThread
  /\ elves' = [elves EXCEPT !.mutex = e]
  /\ Move(e, "counting")
  /\ UNCHANGED <<rindeers, santa, running>>

\* Mutant: an elf joins whatever the size of the group.
ElfJoinUnguarded(e) ==
  /\ pc[e] = "counting"
  /\ elves' = [elves EXCEPT !.value = @ + 1,
                            !.mutex = IF elves.value + 1 = ELVES_REQUIRED
                                        THEN e ELSE NoThread]
  /\ Move(e, IF elves.value + 1 = ELVES_REQUIRED THEN "waking" ELSE "away")
  /\ UNCHANGED <<rindeers, santa, running>>

\* The elf joins the group and stays in the monitor if it completes it.
ElfJoin(e) ==
  /\ pc[e] = "counting"
  /\ elves.value < ELVES_REQUIRED
  /\ LET last == elves.value + 1 = ELVES_REQUIRED
     IN  /\ elves' = [elves EXCEPT !.value = @ + 1,
                                   !.mutex = IF last THEN e ELSE NoThread]
         /\ Move(e, IF last THEN "waking" ELSE "away")
  /\ UNCHANGED <<rindeers, santa, running>>

\* A complete group is at the door: the elf solves its problem alone.
ElfSolveAlone(e) ==
  /\ pc[e] = "counting"
  /\ elves.value >= ELVES_REQUIRED
  /\ elves' = [elves EXCEPT !.mutex = NoThread]
  /\ Move(e, "away")
  /\ UNCHANGED <<rindeers, santa, running>>

ElfWakeSanta(e) ==
  /\ pc[e] = "waking"
  /\ \E released \in Releasable(santa.condition) :
       /\ santa' = [santa EXCEPT !.condition = @ \ released]
       /\ MoveAndWake(e, "parking", released)
  /\ UNCHANGED <<elves, rindeers, running>>

ElfWait(e) ==
  /\ pc[e] = "parking"
  /\ elves' = [elves EXCEPT !.mutex = NoThread, !.condition = @ \cup {e}]
  /\ Move(e, "waiting")
  /\ UNCHANGED <<rindeers, santa, running>>

\* pthread_cond_wait retakes the mutex and the elf unlocks it at once.
ElfReturn(e) ==
  /\ pc[e] = "woken"
  /\ elves.mutex = NoThread
  /\ Move(e, "away")
  /\ UNCHANGED <<elves, rindeers, santa, running>>

ElfStep(e) ==
  \/ ElfLock(e) \/ ElfJoin(e) \/ ElfSolveAlone(e)
  \/ ElfWakeSanta(e) \/ ElfWait(e) \/ ElfReturn(e)

-----------------------------------------------------------------------------
(* reindeer_routine *)

ReindeerLock(r) ==
  /\ pc[r] = "away"
  /\ rindeers.mutex = NoThread
  /\ rindeers' = [rindeers EXCEPT !.mutex = r]
  /\ Move(r, "counting")
  /\ UNCHANGED <<elves, santa, running>>

\* Mutant: only the reindeer that completes the herd wakes Santa.
ReindeerCountOnce(r) ==
  /\ pc[r] = "counting"
  /\ LET last == rindeers.value + 1 = REINDEER_TOTAL
     IN  /\ rindeers' = [rindeers EXCEPT
                           !.value = IF @ < REINDEER_TOTAL THEN @ + 1 ELSE @,
                           !.mutex = IF last THEN r ELSE NoThread]
         /\ Move(r, IF last THEN "waking" ELSE "away")
  /\ UNCHANGED <<elves, santa, running>>

\* A reindeer that finds the herd complete wakes Santa again.
ReindeerCount(r) ==
  /\ pc[r] = "counting"
  /\ LET value == IF rindeers.value < REINDEER_TOTAL
                    THEN rindeers.value + 1 ELSE rindeers.value
         last  == value = REINDEER_TOTAL
     IN  /\ rindeers' = [rindeers EXCEPT !.value = value,
                                         !.mutex = IF last THEN r ELSE NoThread]
         /\ Move(r, IF last THEN "waking" ELSE "away")
  /\ UNCHANGED <<elves, santa, running>>

ReindeerWakeSanta(r) ==
  /\ pc[r] = "waking"
  /\ \E released \in Releasable(santa.condition) :
       /\ santa' = [santa EXCEPT !.condition = @ \ released]
       /\ MoveAndWake(r, "parking", released)
  /\ UNCHANGED <<elves, rindeers, running>>

ReindeerWait(r) ==
  /\ pc[r] = "parking"
  /\ rindeers' = [rindeers EXCEPT !.mutex = NoThread, !.condition = @ \cup {r}]
  /\ Move(r, "waiting")
  /\ UNCHANGED <<elves, santa, running>>

ReindeerReturn(r) ==
  /\ pc[r] = "woken"
  /\ rindeers.mutex = NoThread
  /\ Move(r, "away")
  /\ UNCHANGED <<elves, rindeers, santa, running>>

ReindeerStep(r) ==
  \/ ReindeerLock(r) \/ ReindeerCount(r) \/ ReindeerWakeSanta(r)
  \/ ReindeerWait(r) \/ ReindeerReturn(r)

-----------------------------------------------------------------------------
(* santa_routine *)

SantaSleep ==
  /\ pc[SantaThread] = "idle"
  /\ santa' = [santa EXCEPT !.condition = @ \cup {SantaThread}]
  /\ Move(SantaThread, "waiting")
  /\ UNCHANGED <<elves, rindeers, running>>

SantaLockElves ==
  /\ pc[SantaThread] = "woken"
  /\ elves.mutex = NoThread
  /\ elves' = [elves EXCEPT !.mutex = SantaThread]
  /\ Move(SantaThread, "checkElves")
  /\ UNCHANGED <<rindeers, santa, running>>

SantaCheckElves ==
  /\ pc[SantaThread] = "checkElves"
  /\ LET full == elves.value = ELVES_REQUIRED
     IN  /\ elves' = [elves EXCEPT !.mutex = IF full THEN @ ELSE NoThread]
         /\ Move(SantaThread, IF full THEN "solving" ELSE "toRindeers")
  /\ UNCHANGED <<rindeers, santa, running>>

\* Mutant: Santa empties the group without releasing the elf that waits.
SantaSolveSilently ==
  /\ pc[SantaThread] = "solving"
  /\ elves' = [elves EXCEPT !.mutex = NoThread, !.value = 0]
  /\ Move(SantaThread, "toRindeers")
  /\ UNCHANGED <<rindeers, santa, running>>

\* After the sleep() that he takes with the monitor locked.
SantaSolve ==
  /\ pc[SantaThread] = "solving"
  /\ \E released \in Releasable(elves.condition) :
       /\ elves' = [mutex     |-> NoThread,
                    condition |-> elves.condition \ released,
                    value     |-> 0]
       /\ MoveAndWake(SantaThread, "toRindeers", released)
  /\ UNCHANGED <<rindeers, santa, running>>

SantaLockRindeers ==
  /\ pc[SantaThread] = "toRindeers"
  /\ rindeers.mutex = NoThread
  /\ rindeers' = [rindeers EXCEPT !.mutex = SantaThread]
  /\ Move(SantaThread, "checkRindeers")
  /\ UNCHANGED <<elves, santa, running>>

\* Mutant: Santa leaves with one reindeer too few.
SantaCheckRindeersEarly ==
  /\ pc[SantaThread] = "checkRindeers"
  /\ LET full == rindeers.value >= REINDEER_TOTAL - 1
     IN  /\ rindeers' = [rindeers EXCEPT !.mutex = IF full THEN @ ELSE NoThread]
         /\ Move(SantaThread, IF full THEN "delivering" ELSE "idle")
  /\ UNCHANGED <<elves, santa, running>>

SantaCheckRindeers ==
  /\ pc[SantaThread] = "checkRindeers"
  /\ LET full == rindeers.value = REINDEER_TOTAL
     IN  /\ rindeers' = [rindeers EXCEPT !.mutex = IF full THEN @ ELSE NoThread]
         /\ Move(SantaThread, IF full THEN "delivering" ELSE "idle")
  /\ UNCHANGED <<elves, santa, running>>

\* Mutant: Santa releases no reindeer after a delivery.
SantaDeliverSilently ==
  /\ pc[SantaThread] = "delivering"
  /\ santa' = [santa EXCEPT !.value = @ + 1]
  /\ LET last == santa.value + 1 = DELIVERIES
     IN  /\ rindeers' = [rindeers EXCEPT
                           !.mutex = IF last THEN SantaThread ELSE NoThread,
                           !.value = 0]
         /\ Move(SantaThread, IF last THEN "exited" ELSE "idle")
  /\ UNCHANGED <<elves, running>>

\* After the last delivery the thread exits and keeps rindeers.mutex.
SantaDeliver ==
  /\ pc[SantaThread] = "delivering"
  /\ santa' = [santa EXCEPT !.value = @ + 1]
  /\ LET last == santa.value + 1 = DELIVERIES
     IN  \E released \in Releasable(rindeers.condition) :
           /\ rindeers' = [mutex     |-> IF last THEN SantaThread ELSE NoThread,
                           condition |-> rindeers.condition \ released,
                           value     |-> 0]
           /\ MoveAndWake(SantaThread, IF last THEN "exited" ELSE "idle", released)
  /\ UNCHANGED <<elves, running>>

SantaStep ==
  \/ SantaSleep \/ SantaLockElves \/ SantaCheckElves \/ SantaSolve
  \/ SantaLockRindeers \/ SantaCheckRindeers \/ SantaDeliver

-----------------------------------------------------------------------------
\* POSIX lets pthread_cond_wait return without a signal.
SpuriousWakeup(t) ==
  /\ pc[t] = "waiting"
  /\ Move(t, "woken")
  /\ elves' = [elves EXCEPT !.condition = @ \ {t}]
  /\ rindeers' = [rindeers EXCEPT !.condition = @ \ {t}]
  /\ santa' = [santa EXCEPT !.condition = @ \ {t}]
  /\ UNCHANGED running

\* pthread_join returns in main, and main returns.
MainReturn ==
  /\ pc[SantaThread] = "exited"
  /\ running' = FALSE
  /\ UNCHANGED <<elves, rindeers, santa, pc>>

\* The process is gone.
Ended ==
  /\ ~running
  /\ UNCHANGED vars

-----------------------------------------------------------------------------
Monitor(waiting, values) ==
  [mutex : Threads \cup {NoThread}, condition : SUBSET waiting, value : values]

TypeOK ==
  /\ elves \in Monitor(Elves, 0..ELVES_REQUIRED)
  /\ rindeers \in Monitor(Reindeer, 0..REINDEER_TOTAL)
  /\ santa \in [condition : SUBSET {SantaThread}, value : 0..DELIVERIES]
  /\ pc \in [Threads -> WorkerLocations \cup SantaLocations]
  /\ \A t \in Elves \cup Reindeer : pc[t] \in WorkerLocations
  /\ pc[SantaThread] \in SantaLocations
  /\ running \in BOOLEAN

Init ==
  /\ elves = [mutex |-> NoThread, condition |-> {}, value |-> 0]
  /\ rindeers = [mutex |-> NoThread, condition |-> {}, value |-> 0]
  /\ santa = [condition |-> {}, value |-> 0]
  /\ pc = [t \in Threads |-> IF t = SantaThread THEN "idle" ELSE "away"]
  /\ running = TRUE

Next ==
  \/ /\ running
     /\ \/ \E e \in Elves : ElfStep(e)
        \/ \E r \in Reindeer : ReindeerStep(r)
        \/ SantaStep
        \/ \E t \in Threads : SpuriousWakeup(t)
        \/ MainReturn
  \/ Ended

(***************************************************************************)
(* Every thread keeps being scheduled.  Santa and the reindeer sleep for   *)
(* whole seconds between two uses of a mutex, and so do the elves: a       *)
(* mutex that is free again and again is taken in the end (strong          *)
(* fairness).  Nothing is assumed about spurious wakeups.                  *)
(***************************************************************************)
Fairness ==
  /\ \A e \in Elves : WF_vars(running /\ ElfStep(e))
  /\ \A r \in Reindeer : SF_vars(running /\ ReindeerStep(r))
  /\ SF_vars(running /\ SantaStep)
  /\ WF_vars(running /\ MainReturn)

Spec == Init /\ [][Next]_vars

FairSpec == Spec /\ Fairness

-----------------------------------------------------------------------------
(***************************************************************************)
(* The elf that completed a group is the only one blocked on the elves'    *)
(* condition, and it is blocked only while its group is at the door: Santa *)
(* never resets the count and leaves the elf behind.                       *)
(***************************************************************************)
GroupLeaderOnly ==
  /\ elves.condition # {} => elves.value = ELVES_REQUIRED
  /\ \A e, f \in elves.condition : e = f

(***************************************************************************)
(* A signal releases one reindeer only, so reindeer that signalled again   *)
(* for the same delivery stay blocked after it.  They are never all of     *)
(* them: below the full count some reindeer can still come back and raise  *)
(* it.                                                                     *)
(***************************************************************************)
HerdNotStranded ==
  rindeers.value < REINDEER_TOTAL => rindeers.condition # Reindeer

(***************************************************************************)
(* Santa completes his deliveries and the program ends, unless every       *)
(* signal was sent while he was not waiting and in the end he and every    *)
(* reindeer wait for each other.                                           *)
(***************************************************************************)
EndsUnlessAllStranded ==
  \/ <>(~running)
  \/ <>[](rindeers.condition = Reindeer /\ pc[SantaThread] = "waiting")

(***************************************************************************)
(* The threads implement the abstract problem: whatever they interleave,   *)
(* Santa serves complete groups and complete herds only, and no arrival is *)
(* counted or forgotten while he does.                                     *)
(***************************************************************************)
Problem == INSTANCE SantaProblem
             WITH group <- elves.value, herd <- rindeers.value,
                  deliveries <- santa.value

ImplementsProblem == Problem!Spec

(***************************************************************************)
(* lab_09_polecenie.txt:27 rules out "Santa sleeps although 9 reindeer or  *)
(* 3 elves wait for him": when he is blocked on his condition, no complete *)
(* group of elves is parked at the door with the call to him already made. *)
(***************************************************************************)
SantaNotAsleepOnElves ==
  ~ /\ pc[SantaThread] = "waiting"
    /\ elves.value = ELVES_REQUIRED
    /\ elves.condition # {}

=============================================================================
