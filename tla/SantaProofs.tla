----------------------------- MODULE SantaProofs -----------------------------
(***************************************************************************)
(* Safety of Santa for any number of elves and reindeer, any group size    *)
(* and any number of deliveries.  The inductive invariant says who holds   *)
(* each monitor and what the holder has seen in it: a complete group or    *)
(* herd stays complete between the check and the reset only because the    *)
(* mutex is held all the way.                                              *)
(***************************************************************************)
EXTENDS Santa, FiniteSetTheorems, TLAPS

\* Whoever is inside the elves' monitor holds its mutex.
ElvesMutex ==
  /\ \A e \in Elves :
       pc[e] \in {"counting", "waking", "parking"} => elves.mutex = e
  /\ pc[SantaThread] \in {"checkElves", "solving"} => elves.mutex = SantaThread

\* Whoever is inside the reindeer's monitor holds its mutex.
RindeersMutex ==
  /\ \A r \in Reindeer :
       pc[r] \in {"counting", "waking", "parking"} => rindeers.mutex = r
  /\ pc[SantaThread] \in {"checkRindeers", "delivering"}
       => rindeers.mutex = SantaThread

\* An elf about to wait has completed the group and is the first to wait.
ElfAtDoor ==
  \A e \in Elves :
    pc[e] \in {"waking", "parking"} =>
      elves.value = ELVES_REQUIRED /\ elves.condition = {}

\* A reindeer about to wait has seen the herd complete.
ReindeerAtSleigh ==
  \A r \in Reindeer :
    pc[r] \in {"waking", "parking"} => rindeers.value = REINDEER_TOTAL

\* Santa serves what he has seen complete.
SantaServes ==
  /\ pc[SantaThread] = "solving" => elves.value = ELVES_REQUIRED
  /\ pc[SantaThread] = "delivering" => rindeers.value = REINDEER_TOTAL
  /\ pc[SantaThread] # "exited" => santa.value < DELIVERIES

\* Santa is blocked whenever a signal can still reach him.
SantaAsleep ==
  santa.condition # {} => pc[SantaThread] = "waiting"

IInv ==
  /\ TypeOK
  /\ ElvesMutex
  /\ RindeersMutex
  /\ ElfAtDoor
  /\ ReindeerAtSleigh
  /\ SantaServes
  /\ SantaAsleep
  /\ GroupLeaderOnly
  /\ HerdNotStranded

-----------------------------------------------------------------------------
(* There is a reindeer, so a complete herd is not an empty one. *)
LEMMA HerdCounted ==
  REINDEER_TOTAL \in Nat /\ REINDEER_TOTAL > 0
<1>1. IsFiniteSet(Reindeer) /\ Reindeer # {}
  BY CountAssumption
<1>2. Cardinality(Reindeer) \in Nat /\ Cardinality(Reindeer) # 0
  BY <1>1, FS_CardinalityType, FS_EmptySet
<1> QED BY <1>2 DEF REINDEER_TOTAL

(* A signal releases at most one of the threads that wait.                 *)
LEMMA ReleasedOne ==
  ASSUME NEW W, NEW R \in Releasable(W)
  PROVE  /\ R \subseteq W
         /\ W # {} => \E t \in W : R = {t}
BY DEF Releasable

(* The program starts with every monitor free and empty.                   *)
LEMMA InitIInv == Init => IInv
<1> SUFFICES ASSUME Init PROVE IInv
  OBVIOUS
<1> USE DEF Init
<1>1. TypeOK
  BY ThreadAssumption, CountAssumption, HerdCounted
  DEF TypeOK, Monitor, Threads, WorkerLocations, SantaLocations
<1>2. \A t \in Elves \cup Reindeer : pc[t] = "away"
  BY ThreadAssumption DEF Threads
<1>3. pc[SantaThread] = "idle"
  BY DEF Threads
<1>4. ElvesMutex /\ RindeersMutex /\ ElfAtDoor /\ ReindeerAtSleigh
  BY <1>2, <1>3 DEF ElvesMutex, RindeersMutex, ElfAtDoor, ReindeerAtSleigh
<1>5. SantaServes
  BY <1>3, CountAssumption DEF SantaServes
<1>7. SantaAsleep
  BY DEF SantaAsleep
<1>6. GroupLeaderOnly /\ HerdNotStranded
  BY CountAssumption DEF GroupLeaderOnly, HerdNotStranded
<1> QED BY <1>1, <1>4, <1>5, <1>6, <1>7 DEF IInv

-----------------------------------------------------------------------------
(* Each step of an elf keeps the invariant.                                *)
LEMMA ElfKeeps ==
  ASSUME IInv, NEW e \in Elves, ElfStep(e)
  PROVE  IInv'
<1> USE ThreadAssumption, CountAssumption, HerdCounted
<1> USE DEF IInv, TypeOK, Monitor, Threads, WorkerLocations, SantaLocations,
            ElvesMutex, RindeersMutex, ElfAtDoor, ReindeerAtSleigh,
            SantaServes, SantaAsleep, GroupLeaderOnly, HerdNotStranded, Move
<1>1. CASE ElfLock(e)
  BY <1>1 DEF ElfLock
<1>2. CASE ElfJoin(e)
  <2> DEFINE last == elves.value + 1 = ELVES_REQUIRED
  <2>1. /\ pc[e] = "counting" /\ elves.mutex = e
        /\ elves.value + 1 \in 0..ELVES_REQUIRED
        /\ elves.condition = {}
    BY <1>2 DEF ElfJoin
  <2>2. /\ elves'.value = elves.value + 1
        /\ elves'.condition = {}
        /\ elves'.mutex = IF last THEN e ELSE NoThread
        /\ pc' = [pc EXCEPT ![e] = IF last THEN "waking" ELSE "away"]
        /\ UNCHANGED <<rindeers, santa, running>>
    BY <1>2, <2>1 DEF ElfJoin
  <2>3. elves' \in Monitor(Elves, 0..ELVES_REQUIRED)
    BY <1>2, <2>1 DEF ElfJoin
  <2>4. TypeOK'
    BY <2>2, <2>3
  <2>5. (ElvesMutex /\ RindeersMutex /\ ElfAtDoor)'
    BY <2>1, <2>2
  <2>6. (/\ ReindeerAtSleigh /\ SantaServes /\ SantaAsleep
        /\ GroupLeaderOnly /\ HerdNotStranded)'
    BY <2>1, <2>2
  <2> QED BY <2>4, <2>5, <2>6
<1>3. CASE ElfSolveAlone(e)
  BY <1>3 DEF ElfSolveAlone
<1>4. CASE ElfWakeSanta(e)
  <2>1. PICK released \in Releasable(santa.condition) :
          /\ santa' = [santa EXCEPT !.condition = @ \ released]
          /\ MoveAndWake(e, "parking", released)
    BY <1>4 DEF ElfWakeSanta
  <2>2. released \subseteq santa.condition /\ released \subseteq {SantaThread}
    BY <2>1, ReleasedOne
  <2>3. /\ pc[e] = "waking"
        /\ UNCHANGED <<elves, rindeers, running>>
        /\ santa'.value = santa.value
    BY <1>4, <2>1 DEF ElfWakeSanta
  <2>4. /\ \A t \in (Elves \cup Reindeer) \ {e} : pc'[t] = pc[t]
        /\ pc'[e] = "parking"
        /\ pc'[SantaThread] \in {pc[SantaThread], "woken"}
        /\ pc' \in [Threads -> WorkerLocations \cup SantaLocations]
    BY <2>1, <2>2 DEF MoveAndWake
  <2>5. TypeOK'
    BY <2>1, <2>3, <2>4
  <2>6. /\ released # {} => pc[SantaThread] = "waiting"
        /\ pc'[SantaThread] = IF released = {} THEN pc[SantaThread] ELSE "woken"
    BY <2>1, <2>2 DEF MoveAndWake
  <2>7. SantaServes' /\ SantaAsleep'
    BY <2>1, <2>2, <2>3, <2>6
  <2>8. ElvesMutex' /\ RindeersMutex' /\ ElfAtDoor' /\ ReindeerAtSleigh'
    BY <2>3, <2>4
  <2> QED BY <2>3, <2>5, <2>7, <2>8
<1>5. CASE ElfWait(e)
  BY <1>5 DEF ElfWait
<1>6. CASE ElfReturn(e)
  BY <1>6 DEF ElfReturn
<1> QED BY <1>1, <1>2, <1>3, <1>4, <1>5, <1>6 DEF ElfStep

-----------------------------------------------------------------------------
(* Each step of a reindeer keeps the invariant.                            *)
LEMMA ReindeerKeeps ==
  ASSUME IInv, NEW r \in Reindeer, ReindeerStep(r)
  PROVE  IInv'
<1> USE ThreadAssumption, CountAssumption, HerdCounted
<1> USE DEF IInv, TypeOK, Monitor, Threads, WorkerLocations, SantaLocations,
            ElvesMutex, RindeersMutex, ElfAtDoor, ReindeerAtSleigh,
            SantaServes, SantaAsleep, GroupLeaderOnly, HerdNotStranded, Move
<1>1. CASE ReindeerLock(r)
  BY <1>1 DEF ReindeerLock
<1>2. CASE ReindeerCount(r)
  <2> DEFINE value == IF rindeers.value < REINDEER_TOTAL
                        THEN rindeers.value + 1 ELSE rindeers.value
             last  == value = REINDEER_TOTAL
  <2>1. /\ pc[r] = "counting" /\ rindeers.mutex = r
        /\ value \in 0..REINDEER_TOTAL
        /\ value < REINDEER_TOTAL => rindeers.value < REINDEER_TOTAL
    BY <1>2 DEF ReindeerCount
  <2>2. /\ rindeers'.value = value
        /\ rindeers'.condition = rindeers.condition
        /\ rindeers'.mutex = IF last THEN r ELSE NoThread
        /\ pc' = [pc EXCEPT ![r] = IF last THEN "waking" ELSE "away"]
        /\ UNCHANGED <<elves, santa, running>>
    BY <1>2, <2>1 DEF ReindeerCount
  <2>3. rindeers' \in Monitor(Reindeer, 0..REINDEER_TOTAL)
    BY <1>2, <2>1 DEF ReindeerCount
  <2> HIDE DEF value
  <2>4. TypeOK'
    BY <2>2, <2>3
  <2>5. (ElvesMutex /\ RindeersMutex /\ ElfAtDoor)'
    BY <2>1, <2>2
  <2>6. HerdNotStranded'
    BY <2>1, <2>2
  <2>7. (ReindeerAtSleigh /\ SantaServes /\ SantaAsleep /\ GroupLeaderOnly)'
    BY <2>1, <2>2
  <2> QED BY <2>4, <2>5, <2>6, <2>7
<1>3. CASE ReindeerWakeSanta(r)
  <2>1. PICK released \in Releasable(santa.condition) :
          /\ santa' = [santa EXCEPT !.condition = @ \ released]
          /\ MoveAndWake(r, "parking", released)
    BY <1>3 DEF ReindeerWakeSanta
  <2>2. released \subseteq santa.condition /\ released \subseteq {SantaThread}
    BY <2>1, ReleasedOne
  <2>3. /\ pc[r] = "waking"
        /\ UNCHANGED <<elves, rindeers, running>>
        /\ santa'.value = santa.value
    BY <1>3, <2>1 DEF ReindeerWakeSanta
  <2>4. /\ \A t \in (Elves \cup Reindeer) \ {r} : pc'[t] = pc[t]
        /\ pc'[r] = "parking"
        /\ pc'[SantaThread] \in {pc[SantaThread], "woken"}
        /\ pc' \in [Threads -> WorkerLocations \cup SantaLocations]
    BY <2>1, <2>2 DEF MoveAndWake
  <2>5. TypeOK'
    BY <2>1, <2>3, <2>4
  <2>6. /\ released # {} => pc[SantaThread] = "waiting"
        /\ pc'[SantaThread] = IF released = {} THEN pc[SantaThread] ELSE "woken"
    BY <2>1, <2>2 DEF MoveAndWake
  <2>7. SantaServes' /\ SantaAsleep'
    BY <2>1, <2>2, <2>3, <2>6
  <2>8. ElvesMutex' /\ RindeersMutex' /\ ElfAtDoor' /\ ReindeerAtSleigh'
    BY <2>3, <2>4
  <2> QED BY <2>3, <2>5, <2>7, <2>8
<1>4. CASE ReindeerWait(r)
  <2>1. /\ pc[r] = "parking" /\ rindeers.mutex = r
        /\ rindeers.value = REINDEER_TOTAL
        /\ rindeers' = [rindeers EXCEPT !.mutex = NoThread,
                                        !.condition = @ \cup {r}]
        /\ pc' = [pc EXCEPT ![r] = "waiting"]
        /\ UNCHANGED <<elves, santa, running>>
    BY <1>4 DEF ReindeerWait
  <2>2. rindeers' \in Monitor(Reindeer, 0..REINDEER_TOTAL)
    <3>1. rindeers.condition \cup {r} \in SUBSET Reindeer
      OBVIOUS
    <3> QED BY <2>1, <3>1
  <2>3. TypeOK'
    BY <2>1, <2>2
  <2>4. ElvesMutex' /\ RindeersMutex' /\ ElfAtDoor' /\ ReindeerAtSleigh'
    BY <2>1
  <2>5. (SantaServes /\ SantaAsleep /\ GroupLeaderOnly /\ HerdNotStranded)'
    BY <2>1
  <2> QED BY <2>3, <2>4, <2>5
<1>5. CASE ReindeerReturn(r)
  BY <1>5 DEF ReindeerReturn
<1> QED BY <1>1, <1>2, <1>3, <1>4, <1>5 DEF ReindeerStep

-----------------------------------------------------------------------------
(* Each step of Santa keeps the invariant.                                 *)
LEMMA SantaKeeps ==
  ASSUME IInv, SantaStep
  PROVE  IInv'
<1> USE ThreadAssumption, CountAssumption, HerdCounted
<1> USE DEF IInv, TypeOK, Monitor, Threads, WorkerLocations, SantaLocations,
            ElvesMutex, RindeersMutex, ElfAtDoor, ReindeerAtSleigh,
            SantaServes, SantaAsleep, GroupLeaderOnly, HerdNotStranded, Move
<1>1. CASE SantaSleep
  BY <1>1 DEF SantaSleep
<1>2. CASE SantaLockElves
  BY <1>2 DEF SantaLockElves
<1>3. CASE SantaCheckElves
  BY <1>3 DEF SantaCheckElves
<1>4. CASE SantaSolve
  <2>1. PICK released \in Releasable(elves.condition) :
          /\ elves' = [mutex     |-> NoThread,
                       condition |-> elves.condition \ released,
                       value     |-> 0]
          /\ MoveAndWake(SantaThread, "toRindeers", released)
    BY <1>4 DEF SantaSolve
  <2>2. /\ pc[SantaThread] = "solving" /\ elves.mutex = SantaThread
        /\ UNCHANGED <<rindeers, santa, running>>
    BY <1>4 DEF SantaSolve
  <2>3. released \subseteq elves.condition /\ elves.condition \ released = {}
    BY <2>1, ReleasedOne
  <2>4. /\ \A t \in Elves \cup Reindeer : pc'[t] \in {pc[t], "woken"}
        /\ \A t \in Reindeer : pc'[t] = pc[t]
        /\ pc'[SantaThread] = "toRindeers"
        /\ pc' \in [Threads -> WorkerLocations \cup SantaLocations]
    BY <2>1, <2>3 DEF MoveAndWake
  <2>5. TypeOK'
    BY <2>1, <2>2, <2>3, <2>4
  <2>6. ElvesMutex' /\ RindeersMutex' /\ ElfAtDoor' /\ ReindeerAtSleigh'
    BY <2>1, <2>2, <2>4
  <2>7. (SantaServes /\ SantaAsleep /\ GroupLeaderOnly /\ HerdNotStranded)'
    BY <2>1, <2>2, <2>3, <2>4
  <2> QED BY <2>5, <2>6, <2>7
<1>5. CASE SantaLockRindeers
  BY <1>5 DEF SantaLockRindeers
<1>6. CASE SantaCheckRindeers
  BY <1>6 DEF SantaCheckRindeers
<1>7. CASE SantaDeliver
  <2> DEFINE last == santa.value + 1 = DELIVERIES
  <2>1. PICK released \in Releasable(rindeers.condition) :
          /\ rindeers' = [mutex     |-> IF last THEN SantaThread ELSE NoThread,
                          condition |-> rindeers.condition \ released,
                          value     |-> 0]
          /\ MoveAndWake(SantaThread, IF last THEN "exited" ELSE "idle", released)
    BY <1>7 DEF SantaDeliver
  <2>2. /\ pc[SantaThread] = "delivering" /\ rindeers.mutex = SantaThread
        /\ santa' = [santa EXCEPT !.value = @ + 1]
        /\ UNCHANGED <<elves, running>>
    BY <1>7 DEF SantaDeliver
  <2>3. /\ released \subseteq rindeers.condition
        /\ rindeers.condition \ released # Reindeer
    BY <2>1, ReleasedOne
  <2>4. /\ \A t \in Elves \cup Reindeer : pc'[t] \in {pc[t], "woken"}
        /\ \A t \in Elves : pc'[t] = pc[t]
        /\ pc'[SantaThread] = IF last THEN "exited" ELSE "idle"
        /\ pc' \in [Threads -> WorkerLocations \cup SantaLocations]
    BY <2>1, <2>3 DEF MoveAndWake
  <2>5. /\ santa.value + 1 \in 0..DELIVERIES
        /\ ~last => santa.value + 1 < DELIVERIES
        /\ santa' \in [condition : SUBSET {SantaThread}, value : 0..DELIVERIES]
        /\ santa'.value = santa.value + 1
        /\ santa'.condition = {}
    BY <2>2
  <2>6. TypeOK'
    BY <2>1, <2>2, <2>3, <2>4, <2>5
  <2>7. ElvesMutex' /\ RindeersMutex' /\ ElfAtDoor' /\ ReindeerAtSleigh'
    BY <2>1, <2>2, <2>4
  <2>8. (SantaServes /\ SantaAsleep /\ GroupLeaderOnly /\ HerdNotStranded)'
    BY <2>1, <2>2, <2>3, <2>4, <2>5
  <2> QED BY <2>6, <2>7, <2>8
<1> QED BY <1>1, <1>2, <1>3, <1>4, <1>5, <1>6, <1>7 DEF SantaStep

(* So does a wakeup that nobody signalled.                                 *)
LEMMA SpuriousKeeps ==
  ASSUME IInv, NEW t \in Threads, SpuriousWakeup(t)
  PROVE  IInv'
<1> USE ThreadAssumption, CountAssumption, HerdCounted
<1> USE DEF IInv, TypeOK, Monitor, Threads, WorkerLocations, SantaLocations,
            ElvesMutex, RindeersMutex, ElfAtDoor, ReindeerAtSleigh,
            SantaServes, SantaAsleep, GroupLeaderOnly, HerdNotStranded, Move
<1>1. /\ pc[t] = "waiting" /\ pc' = [pc EXCEPT ![t] = "woken"]
      /\ elves' = [elves EXCEPT !.condition = @ \ {t}]
      /\ rindeers' = [rindeers EXCEPT !.condition = @ \ {t}]
      /\ santa' = [santa EXCEPT !.condition = @ \ {t}]
      /\ running' = running
  BY DEF SpuriousWakeup
<1>2. TypeOK'
  BY <1>1
<1>3. ElvesMutex' /\ RindeersMutex' /\ ElfAtDoor' /\ ReindeerAtSleigh'
  BY <1>1
<1>4. SantaServes' /\ SantaAsleep'
  BY <1>1
<1>5. GroupLeaderOnly' /\ HerdNotStranded'
  BY <1>1
<1> QED BY <1>2, <1>3, <1>4, <1>5

(* And so does every step of the program.                                  *)
LEMMA NextIInv == IInv /\ [Next]_vars => IInv'
<1> SUFFICES ASSUME IInv, [Next]_vars PROVE IInv'
  OBVIOUS
<1>1. CASE \E e \in Elves : ElfStep(e)
  BY <1>1, ElfKeeps
<1>2. CASE \E r \in Reindeer : ReindeerStep(r)
  BY <1>2, ReindeerKeeps
<1>3. CASE SantaStep
  BY <1>3, SantaKeeps
<1>4. CASE \E t \in Threads : SpuriousWakeup(t)
  BY <1>4, SpuriousKeeps
<1>5. CASE MainReturn
  BY <1>5 DEF MainReturn, IInv, TypeOK, ElvesMutex, RindeersMutex, ElfAtDoor,
              ReindeerAtSleigh, SantaServes, SantaAsleep, GroupLeaderOnly,
              HerdNotStranded
<1>6. CASE UNCHANGED vars
  BY <1>6 DEF vars, IInv, TypeOK, ElvesMutex, RindeersMutex, ElfAtDoor,
              ReindeerAtSleigh, SantaServes, SantaAsleep, GroupLeaderOnly,
              HerdNotStranded
<1> QED BY <1>1, <1>2, <1>3, <1>4, <1>5, <1>6 DEF Next, Ended

-----------------------------------------------------------------------------
(* The invariant holds in every behaviour of main.c.                       *)
THEOREM Invariance == Spec => []IInv
<1> QED BY InitIInv, NextIInv, PTL DEF Spec

(* Every count stays within its bound, on every interleaving: the elves'   *)
(* and the reindeer's guards are evaluated under the mutex that protects   *)
(* the count (main.c:79, 102), and Santa's resets too (48, 59).            *)
THEOREM TypeCorrect == Spec => []TypeOK
<1>1. IInv => TypeOK
  BY DEF IInv
<1> QED BY <1>1, Invariance, PTL

(* Santa never resets a group and leaves its elf blocked (main.c:44-49).   *)
THEOREM GroupLeader == Spec => []GroupLeaderOnly
<1>1. IInv => GroupLeaderOnly
  BY DEF IInv
<1> QED BY <1>1, Invariance, PTL

(* One signal per delivery is enough for the herd to form again            *)
(* (main.c:58, 84-88).                                                     *)
THEOREM HerdReturns == Spec => []HerdNotStranded
<1>1. IInv => HerdNotStranded
  BY DEF IInv
<1> QED BY <1>1, Invariance, PTL

-----------------------------------------------------------------------------
(* A thread step is a step of the abstract problem or invisible in it.     *)
LEMMA StepRefines == IInv /\ [Next]_vars => [Problem!Next]_(Problem!vars)
<1> SUFFICES ASSUME IInv, [Next]_vars PROVE [Problem!Next]_(Problem!vars)
  OBVIOUS
<1> USE HerdCounted, CountAssumption
    DEF IInv, TypeOK, Monitor, Problem!vars, Problem!Next
<1>1. ASSUME NEW e \in Elves, ElfStep(e)
      PROVE  Problem!ElfArrives \/ UNCHANGED Problem!vars
  BY <1>1 DEF ElfStep, ElfLock, ElfJoin, ElfSolveAlone, ElfWakeSanta, ElfWait,
              ElfReturn, Problem!ElfArrives
<1>2. ASSUME NEW r \in Reindeer, ReindeerStep(r)
      PROVE  Problem!ReindeerArrives \/ UNCHANGED Problem!vars
  BY <1>2 DEF ReindeerStep, ReindeerLock, ReindeerCount, ReindeerWakeSanta,
              ReindeerWait, ReindeerReturn, Problem!ReindeerArrives
<1>3. CASE SantaSolve
  BY <1>3 DEF SantaSolve, SantaServes, Problem!SolveProblems
<1>4. CASE SantaDeliver
  BY <1>4 DEF SantaDeliver, SantaServes, Problem!DeliverToys
<1>5. CASE \/ SantaSleep \/ SantaLockElves \/ SantaCheckElves
           \/ SantaLockRindeers \/ SantaCheckRindeers
           \/ \E t \in Threads : SpuriousWakeup(t)
           \/ MainReturn \/ UNCHANGED vars
  BY <1>5 DEF SantaSleep, SantaLockElves, SantaCheckElves, SantaLockRindeers,
              SantaCheckRindeers, SpuriousWakeup, MainReturn, vars
<1> QED BY <1>1, <1>2, <1>3, <1>4, <1>5 DEF Next, Ended, SantaStep

(* The program implements SantaProblem (main.c:44-63, 79-80, 102-103).     *)
THEOREM Implements == Spec => ImplementsProblem
<1>1. Init => Problem!Init
  BY DEF Init, Problem!Init
<1> QED
  BY <1>1, StepRefines, Invariance, PTL
  DEF Spec, ImplementsProblem, Problem!Spec

=============================================================================
