-------------------------- MODULE SelfServiceProofs --------------------------
(***************************************************************************)
(* Barbers and chairs of SelfService, for any number of clients, barbers,  *)
(* chairs and places.  Each step of a client moves at most one unit        *)
(* between a semaphore and the clients that hold one.  Which of them do is *)
(* not written down by the program: the invariant says which branches a    *)
(* client with a barber can be in, and that the branches of those that     *)
(* wait are dead as long as no semop has been interrupted.                 *)
(***************************************************************************)
EXTENDS SelfService, FiniteSetTheorems, TLAPS

USE ShopAssumption

\* Clients are forked in order, and serve no later one.
ForkedInOrder ==
  \A c \in Clients :
    /\ pc[c] = "none" <=> c > client_id
    /\ max[c] <= client_id

\* Only the first branch leads to the waiting room, the street and the desk.
FoundInFirstBranch ==
  \A c \in Clients :
    /\ pc[c] \in {"none", "arriving", "queueing", "spinning", "sitting"}
         => c \notin found
    /\ pc[c] \in {"seating", "entering", "waiting", "turning", "excusing", "paying"}
         => c \in found

\* Nobody waits or turns away unless a semop was interrupted.
WaitingInterrupted ==
  ~removed /\ ~interrupted =>
    \A c \in Clients :
      pc[c] \notin {"entering", "waiting", "turning", "excusing",
                    "queueing", "spinning", "sitting"}

IInv ==
  /\ TypeOK
  /\ ForkedInOrder
  /\ FoundInFirstBranch
  /\ WaitingInterrupted
  /\ BarbersConserved
  /\ ChairsNeverLost

-----------------------------------------------------------------------------
LEMMA ClientsFinite == IsFiniteSet(Clients)
BY FS_Interval DEF Clients

\* What a step of a client from one location to another adds to a count.
Gain(from, to, L) ==
  (IF to \in L THEN 1 ELSE 0) - (IF from \in L THEN 1 ELSE 0)

(* A move changes the count of every set of locations by its gain.         *)
LEMMA MoveCounts ==
  ASSUME TypeOK, NEW c \in Clients, NEW to,
         pc' = [pc EXCEPT ![c] = to], NEW L
  PROVE  /\ At(L) \in Nat
         /\ At(L)' = At(L) + Gain(pc[c], to, L)
<1> DEFINE A == {d \in Clients : pc[d] \in L}
           B == {d \in Clients : pc'[d] \in L}
<1>1. IsFiniteSet(A) /\ Cardinality(A) \in Nat
  <2>1. A \in SUBSET Clients
    OBVIOUS
  <2> QED BY <2>1, ClientsFinite, FS_Subset, FS_CardinalityType
<1>2. \A d \in Clients : pc'[d] = IF d = c THEN to ELSE pc[d]
  BY DEF TypeOK
<1>3. At(L) = Cardinality(A) /\ At(L)' = Cardinality(B)
  BY DEF At
<1>4. CASE to \in L <=> pc[c] \in L
  <2>1. A = B
    BY <1>2, <1>4
  <2>2. Gain(pc[c], to, L) = 0
    BY <1>4 DEF Gain
  <2> HIDE DEF A, B
  <2> QED BY <1>1, <1>3, <2>1, <2>2
<1>5. CASE to \in L /\ pc[c] \notin L
  <2>1. B = A \cup {c} /\ c \notin A
    BY <1>2, <1>5
  <2>2. Gain(pc[c], to, L) = 1
    BY <1>5 DEF Gain
  <2> HIDE DEF A, B
  <2> QED BY <1>1, <1>3, <2>1, <2>2, FS_AddElement
<1>6. CASE to \notin L /\ pc[c] \in L
  <2>1. B = A \ {c} /\ c \in A
    BY <1>2, <1>6
  <2>2. Gain(pc[c], to, L) = -1
    BY <1>6 DEF Gain
  <2> HIDE DEF A, B
  <2>3. Cardinality(B) = Cardinality(A) - 1
    BY <1>1, <2>1, FS_RemoveElement
  <2> QED BY <1>1, <1>3, <2>2, <2>3
<1> QED BY <1>4, <1>5, <1>6

\* The clients that sit, with a chair of their own or not.
Seated == {"cutting", "storing", "rising"}

(* Only a step into or out of a chair changes the number of the seated.    *)
LEMMA SeatedCount ==
  ASSUME TypeOK, NEW c \in Clients, NEW to, pc' = [pc EXCEPT ![c] = to]
  PROVE  /\ At(Seated) \in Nat
         /\ pc[c] \notin Seated /\ to \notin Seated => At(Seated)' = At(Seated)
         /\ pc[c] \in Seated    /\ to \in Seated    => At(Seated)' = At(Seated)
         /\ pc[c] \notin Seated /\ to \in Seated    => At(Seated)' = At(Seated) + 1
         /\ pc[c] \in Seated    /\ to \notin Seated => At(Seated)' = At(Seated) - 1
<1>1. At(Seated) \in Nat /\ At(Seated)' = At(Seated) + Gain(pc[c], to, Seated)
  BY MoveCounts
<1>2. /\ pc[c] \notin Seated /\ to \notin Seated => Gain(pc[c], to, Seated) = 0
      /\ pc[c] \in Seated    /\ to \in Seated    => Gain(pc[c], to, Seated) = 0
      /\ pc[c] \notin Seated /\ to \in Seated    => Gain(pc[c], to, Seated) = 1
      /\ pc[c] \in Seated    /\ to \notin Seated => Gain(pc[c], to, Seated) = -1
  BY DEF Gain
<1> QED BY <1>1, <1>2

(* A client takes a barber, gives it back, or neither.                     *)
LEMMA WithBarberCount ==
  ASSUME TypeOK, NEW c \in Clients
  PROVE  /\ Cardinality(WithBarber) \in Nat
         /\ WithBarber' = WithBarber =>
              Cardinality(WithBarber') = Cardinality(WithBarber)
         /\ WithBarber' = WithBarber \cup {c} /\ c \notin WithBarber =>
              Cardinality(WithBarber') = Cardinality(WithBarber) + 1
         /\ WithBarber' = WithBarber \ {c} /\ c \in WithBarber =>
              Cardinality(WithBarber') = Cardinality(WithBarber) - 1
<1>1. WithBarber \in SUBSET Clients
  BY DEF WithBarber, TypeOK
<1>2. IsFiniteSet(WithBarber) /\ Cardinality(WithBarber) \in Nat
  BY <1>1, ClientsFinite, FS_Subset, FS_CardinalityType
<1>3. ASSUME WithBarber' = WithBarber \cup {c}, c \notin WithBarber
      PROVE  Cardinality(WithBarber') = Cardinality(WithBarber) + 1
  BY <1>2, <1>3, FS_AddElement
<1>4. ASSUME WithBarber' = WithBarber \ {c}, c \in WithBarber
      PROVE  Cardinality(WithBarber') = Cardinality(WithBarber) - 1
  BY <1>2, <1>4, FS_RemoveElement
<1> QED BY <1>2, <1>3, <1>4

-----------------------------------------------------------------------------
(* The shop opens without clients.                                         *)
LEMMA InitIInv == Init => IInv
<1> SUFFICES ASSUME Init PROVE IInv
  OBVIOUS
<1> USE DEF Init
<1>1. TypeOK
  <2>1. sem \in [Semaphores -> Nat]
    OBVIOUS
  <2>2. found \subseteq Clients /\ last_served \in 0..client_id /\ client_id \in 0..MAX_ID
    OBVIOUS
  <2>3. max \in [Clients -> 0..MAX_ID]
    OBVIOUS
  <2> QED BY <2>1, <2>2, <2>3 DEF TypeOK
<1>2. ForkedInOrder /\ FoundInFirstBranch /\ WaitingInterrupted
  BY DEF ForkedInOrder, FoundInFirstBranch, WaitingInterrupted, Clients
<1>3. WithBarber = {} /\ {c \in Clients : pc[c] \in Seated} = {}
  BY DEF WithBarber, Seated
<1>4. sem["BARBERS"] = Barbers0 + 1 /\ sem["CHAIRS"] = Chairs0 + 1
  BY DEF Semaphores
<1>5. Cardinality(WithBarber) = 0 /\ At(Seated) = 0
  <2>1. Cardinality({}) = 0
    BY FS_EmptySet
  <2>2. At(Seated) = Cardinality({c \in Clients : pc[c] \in Seated})
    BY DEF At
  <2>3. Cardinality(WithBarber) = 0
    BY <1>3, <2>1, Zenon
  <2>4. Cardinality({c \in Clients : pc[c] \in Seated}) = 0
    BY <1>3, <2>1, Zenon
  <2> HIDE DEF Init
  <2> QED BY <2>2, <2>3, <2>4, Zenon
<1>6. BarbersConserved /\ ChairsNeverLost
  <2>1. At({"cutting", "storing", "rising"}) = 0
    BY <1>5, Zenon DEF Seated
  <2>2. Barbers0 + 1 + 0 = Barbers0 + 1 /\ Chairs0 + 1 + 0 = Chairs0 + 1
    OBVIOUS
  <2>3. BarbersConserved
    BY <1>4, <1>5, <2>2, Zenon DEF BarbersConserved
  <2>4. sem["CHAIRS"] + At({"cutting", "storing", "rising"}) = Chairs0 + 1
    BY <1>4, <2>1, <2>2, Zenon
  <2> HIDE DEF Init
  <2>5. ChairsNeverLost
    BY <2>4 DEF ChairsNeverLost
  <2> QED BY <2>3, <2>5
<1> QED BY <1>1, <1>2, <1>6 DEF IInv

(* Every step of a client keeps the parts of the invariant without counts. *)
LEMMA ClientKeepsBranches ==
  ASSUME IInv, NEW c \in Clients, ClientStep(c)
  PROVE  (TypeOK /\ ForkedInOrder /\ FoundInFirstBranch /\ WaitingInterrupted)'
<1> USE DEF IInv, TypeOK, ForkedInOrder, FoundInFirstBranch, WaitingInterrupted,
            Rest, Go, Got, Failed, free_sem, Semaphores
<1>1. CASE FindBarber(c)
  <2>1. CASE Go(c, "arriving", "seating") /\ Got("BARBERS") /\ found' = found \cup {c}
    BY <1>1, <2>1 DEF FindBarber
  <2>2. CASE Go(c, "arriving", "queueing") /\ Failed("BARBERS") /\ UNCHANGED found
    <3>1. (TypeOK /\ ForkedInOrder /\ FoundInFirstBranch)'
      BY <1>1, <2>2 DEF FindBarber
    <3>2. removed' \/ interrupted'
      BY <1>1, <2>2 DEF FindBarber
    <3> QED BY <3>1, <3>2
  <2> QED BY <1>1, <2>1, <2>2 DEF FindBarber
<1>2. CASE FindChair(c)
  <2>1. CASE Go(c, "seating", "cutting") /\ Got("CHAIRS")
    BY <1>2, <2>1 DEF FindChair
  <2>2. CASE Go(c, "seating", "entering") /\ Failed("CHAIRS")
    <3>1. (TypeOK /\ ForkedInOrder /\ FoundInFirstBranch)'
      BY <1>2, <2>2 DEF FindChair
    <3>2. removed' \/ interrupted'
      BY <1>2, <2>2 DEF FindChair
    <3> QED BY <3>1, <3>2
  <2> QED BY <1>2, <2>1, <2>2 DEF FindChair
<1>3. CASE EnterRoom(c)
  BY <1>3 DEF EnterRoom
<1>4. CASE LeaveRoom(c)
  BY <1>4 DEF LeaveRoom
<1>5. CASE Queue(c)
  BY <1>5 DEF Queue
<1>6. CASE LeaveQueue(c)
  BY <1>6 DEF LeaveQueue
<1>7. CASE Sit(c)
  BY <1>7 DEF Sit
<1>8. CASE Load(c)
  <2>1. c \in 0..client_id /\ client_id <= MAX_ID
    BY <1>8 DEF Load, Clients
  <2> QED BY <1>8, <2>1 DEF Load
<1>9. CASE Store(c)
  BY <1>9 DEF Store
<1>10. CASE Rise(c)
  BY <1>10 DEF Rise
<1>11. CASE Pay(c)
  BY <1>11 DEF Pay
<1> QED BY <1>1, <1>2, <1>3, <1>4, <1>5, <1>6, <1>7, <1>8, <1>9, <1>10, <1>11
        DEF ClientStep

(* Every step of a client conserves barbers.                               *)
LEMMA ClientKeepsBarbers ==
  ASSUME IInv, NEW c \in Clients, ClientStep(c)
  PROVE  BarbersConserved'
<1> USE DEF BarbersConserved
<1>0. /\ TypeOK /\ FoundInFirstBranch /\ BarbersConserved
      /\ sem \in [Semaphores -> Nat] /\ found \subseteq Clients
      /\ \A d \in Clients : pc'[d] = IF d = c THEN pc'[c] ELSE pc[d]
  BY DEF IInv, TypeOK, ClientStep, FindBarber, FindChair, EnterRoom, LeaveRoom, Queue,
         LeaveQueue, Sit, Load, Store, Rise, Pay, Go
<1>1. CASE FindBarber(c) /\ Got("BARBERS")
  <2>1. /\ pc[c] = "arriving" /\ pc'[c] = "seating" /\ found' = found \cup {c}
        /\ sem["BARBERS"] > 0 /\ sem' = [sem EXCEPT !["BARBERS"] = sem["BARBERS"] - 1]
        /\ removed' = removed
    BY <1>0, <1>1 DEF FindBarber, Go, Got, Failed, Rest, TypeOK
  <2>2. WithBarber' = WithBarber \cup {c} /\ c \notin WithBarber
    BY <1>0, <2>1 DEF WithBarber, FoundInFirstBranch
  <2>3. /\ Cardinality(WithBarber') = Cardinality(WithBarber) + 1
        /\ Cardinality(WithBarber) \in Nat
    BY <1>0, <2>2, WithBarberCount, Zenon
  <2>4. sem'["BARBERS"] = sem["BARBERS"] - 1 /\ sem["BARBERS"] \in Nat
    BY <1>0, <2>1 DEF Semaphores
  <2> QED BY <1>0, <2>1, <2>3, <2>4
<1>2. CASE Pay(c)
  <2>1. /\ pc[c] = "paying" /\ pc'[c] = "gone" /\ found' = found
        /\ ~removed => sem' = [sem EXCEPT !["BARBERS"] = sem["BARBERS"] + 1]
        /\ removed' = removed
    BY <1>0, <1>2 DEF Pay, Go, Rest, free_sem, TypeOK
  <2>2. WithBarber' = WithBarber \ {c} /\ c \in WithBarber
    BY <1>0, <2>1 DEF WithBarber, FoundInFirstBranch
  <2>3. /\ Cardinality(WithBarber') = Cardinality(WithBarber) - 1
        /\ Cardinality(WithBarber) \in Nat
    BY <1>0, <2>2, WithBarberCount, Zenon
  <2> HIDE DEF BarbersConserved
  <2>4. ~removed => sem'["BARBERS"] = sem["BARBERS"] + 1 /\ sem["BARBERS"] \in Nat
    BY <1>0, <2>1 DEF Semaphores
  <2> QED BY <1>0, <2>1, <2>3, <2>4 DEF BarbersConserved
<1>3. CASE ~(FindBarber(c) /\ Got("BARBERS")) /\ ~Pay(c)
  <2>1. /\ removed' = removed /\ sem'["BARBERS"] = sem["BARBERS"] /\ found' = found
        /\ pc'[c] = "gone" => pc[c] = "rising" /\ c \notin found
        /\ pc[c] # "gone"
    <3> USE <1>0 DEF Go, Rest, Semaphores, TypeOK
    <3>1. CASE FindBarber(c)
      BY <1>3, <3>1 DEF FindBarber, Failed, Got
    <3>2. CASE FindChair(c) \/ EnterRoom(c)
      BY <3>2 DEF FindChair, EnterRoom, Failed, Got
    <3>3. CASE LeaveRoom(c) \/ LeaveQueue(c)
      BY <3>3 DEF LeaveRoom, LeaveQueue, free_sem
    <3>4. CASE Queue(c) \/ Sit(c)
      BY <3>4 DEF Queue, Sit, Failed, Got
    <3>5. CASE Load(c) \/ Store(c)
      BY <3>5 DEF Load, Store
    <3>6. CASE Rise(c)
      BY <3>6 DEF Rise, free_sem
    <3> QED BY <1>3, <3>1, <3>2, <3>3, <3>4, <3>5, <3>6 DEF ClientStep
  <2>2. WithBarber' = WithBarber
    BY <1>0, <2>1 DEF WithBarber
  <2> QED BY <1>0, <2>1, <2>2
<1> QED BY <1>1, <1>2, <1>3

(* Every step of a client conserves chairs, or makes one more.             *)
LEMMA ClientKeepsChairs ==
  ASSUME IInv, NEW c \in Clients, ClientStep(c)
  PROVE  ChairsNeverLost'
<1> DEFINE seated == At({"cutting", "storing", "rising"})
<1>0. /\ TypeOK /\ WaitingInterrupted /\ sem \in [Semaphores -> Nat]
      /\ seated \in Nat
      /\ ~removed => sem["CHAIRS"] + seated >= Chairs0 + 1
      /\ ~removed /\ ~interrupted => sem["CHAIRS"] + seated = Chairs0 + 1
      /\ removed' = removed
  <2>1. removed' = removed
    BY DEF ClientStep, FindBarber, FindChair, EnterRoom, LeaveRoom, Queue, LeaveQueue,
           Sit, Load, Store, Rise, Pay, Rest
  <2>2. seated \in Nat
    <3>1. {d \in Clients : pc[d] \in Seated} \in SUBSET Clients
      OBVIOUS
    <3>2. Cardinality({d \in Clients : pc[d] \in Seated}) \in Nat
      BY <3>1, ClientsFinite, FS_Subset, FS_CardinalityType
    <3> QED BY <3>2 DEF At, Seated
  <2> QED BY <2>1, <2>2 DEF IInv, TypeOK, ChairsNeverLost
<1>1. SUFFICES ASSUME ~removed
               PROVE  /\ sem'["CHAIRS"] + seated' >= Chairs0 + 1
                      /\ ~interrupted' => sem'["CHAIRS"] + seated' = Chairs0 + 1
  BY <1>0 DEF ChairsNeverLost
<1> USE DEF Go, Rest, Semaphores
<1> HIDE DEF seated
<1>2. ASSUME NEW to, pc' = [pc EXCEPT ![c] = to]
      PROVE  /\ pc[c] \notin Seated /\ to \notin Seated => seated' = seated
             /\ pc[c] \in Seated    /\ to \in Seated    => seated' = seated
             /\ pc[c] \notin Seated /\ to \in Seated    => seated' = seated + 1
             /\ pc[c] \in Seated    /\ to \notin Seated => seated' = seated - 1
  BY <1>0, <1>2, SeatedCount, Zenon DEF Seated, seated
<1>3. CASE FindBarber(c) \/ EnterRoom(c) \/ Queue(c) \/ LeaveQueue(c) \/ Pay(c)
  <2>1. seated' = seated
    BY <1>2, <1>3 DEF FindBarber, EnterRoom, Queue, LeaveQueue, Pay, Seated
  <2>2. sem'["CHAIRS"] = sem["CHAIRS"] /\ (~interrupted' => ~interrupted)
    BY <1>0, <1>3
    DEF FindBarber, EnterRoom, Queue, LeaveQueue, Pay, Got, Failed, free_sem, TypeOK
  <2> QED BY <1>0, <1>1, <2>1, <2>2
<1>4. CASE FindChair(c)
  <2>1. CASE Go(c, "seating", "cutting") /\ Got("CHAIRS")
    <3>1. seated' = seated + 1
      BY <1>2, <2>1 DEF Seated
    <3>2. /\ sem'["CHAIRS"] = sem["CHAIRS"] - 1
          /\ interrupted' = interrupted
      BY <1>0, <2>1 DEF Got
    <3> QED BY <1>0, <1>1, <3>1, <3>2
  <2>2. CASE Go(c, "seating", "entering") /\ Failed("CHAIRS")
    <3>1. seated' = seated
      <4>1. /\ pc' = [pc EXCEPT ![c] = "entering"]
            /\ pc[c] \notin Seated /\ "entering" \notin Seated
        BY <2>2 DEF Seated
      <4> QED BY <1>2, <4>1, Zenon
    <3> QED BY <1>0, <1>1, <2>2, <3>1 DEF Failed
  <2> QED BY <1>4, <2>1, <2>2 DEF FindChair
<1>5. CASE LeaveRoom(c)
  <2>1. interrupted /\ interrupted' = interrupted
    BY <1>0, <1>1, <1>5 DEF LeaveRoom, WaitingInterrupted
  <2>2. seated' = seated + 1 /\ sem'["CHAIRS"] = sem["CHAIRS"]
    BY <1>0, <1>2, <1>5 DEF LeaveRoom, Seated, free_sem
  <2> QED BY <1>0, <1>1, <2>1, <2>2
<1>6. CASE Sit(c)
  <2>1. interrupted /\ interrupted' = interrupted
    BY <1>0, <1>1, <1>6 DEF Sit, WaitingInterrupted, Got, Failed, TypeOK
  <2>2. seated' = seated + 1
    BY <1>2, <1>6 DEF Sit, Seated
  <2>3. sem'["CHAIRS"] \in {sem["CHAIRS"], sem["CHAIRS"] - 1}
    BY <1>0, <1>6 DEF Sit, Got, Failed
  <2> QED BY <1>0, <1>1, <2>1, <2>2, <2>3
<1>7. CASE Load(c) \/ Store(c)
  <2>1. seated' = seated
    BY <1>2, <1>7 DEF Load, Store, Seated
  <2> QED BY <1>0, <1>1, <1>7, <2>1 DEF Load, Store
<1>8. CASE Rise(c)
  <2>1. seated' = seated - 1
    <3>1. PICK to \in {"paying", "gone"} : Go(c, "rising", to)
      BY <1>8 DEF Rise
    <3>2. pc' = [pc EXCEPT ![c] = to] /\ pc[c] \in Seated /\ to \notin Seated
      BY <3>1 DEF Seated
    <3> QED BY <1>2, <3>2, Zenon
  <2>2. sem'["CHAIRS"] = sem["CHAIRS"] + 1 /\ interrupted' = interrupted
    BY <1>0, <1>1, <1>8 DEF Rise, free_sem
  <2> QED BY <1>0, <1>1, <2>1, <2>2
<1> QED BY <1>3, <1>4, <1>5, <1>6, <1>7, <1>8 DEF ClientStep

(* A new client holds nothing yet.                                         *)
LEMMA ForkKeeps == IInv /\ Fork => IInv'
<1> SUFFICES ASSUME IInv, Fork PROVE IInv'
  OBVIOUS
<1>1. /\ client_id + 1 \in Clients /\ pc[client_id + 1] = "none"
      /\ pc' = [pc EXCEPT ![client_id + 1] = "arriving"]
      /\ TypeOK
  BY DEF IInv, TypeOK, ForkedInOrder, Fork, Clients
<1>2. (TypeOK /\ ForkedInOrder /\ FoundInFirstBranch /\ WaitingInterrupted)'
  BY <1>1 DEF IInv, TypeOK, ForkedInOrder, FoundInFirstBranch, WaitingInterrupted,
              Fork, Clients
<1>3. WithBarber' = WithBarber
  BY <1>1 DEF WithBarber, Fork, IInv, TypeOK
<1>4. At(Seated)' = At(Seated)
  <2>1. pc[client_id + 1] \notin Seated /\ "arriving" \notin Seated
    BY <1>1 DEF Seated
  <2> QED BY <1>1, <2>1, SeatedCount, Zenon
<1> QED BY <1>2, <1>3, <1>4
        DEF IInv, BarbersConserved, ChairsNeverLost, Fork, Seated

(* Once the semaphores are removed, the counts do not matter.              *)
LEMMA ExitKeeps ==
  ASSUME IInv, MainExit \/ \E c \in Clients : ClientExit(c)
  PROVE  IInv'
BY DEF IInv, TypeOK, ForkedInOrder, FoundInFirstBranch, WaitingInterrupted,
       BarbersConserved, ChairsNeverLost, MainExit, ClientExit

LEMMA NextIInv == IInv /\ [Next]_vars => IInv'
<1> SUFFICES ASSUME IInv, [Next]_vars PROVE IInv'
  OBVIOUS
<1>1. ASSUME NEW c \in Clients, ClientStep(c)
      PROVE  IInv'
  BY <1>1, ClientKeepsBranches, ClientKeepsBarbers, ClientKeepsChairs DEF IInv
<1>2. CASE UNCHANGED vars
  BY <1>2 DEF vars, IInv, TypeOK, ForkedInOrder, FoundInFirstBranch,
              WaitingInterrupted, BarbersConserved, ChairsNeverLost, WithBarber, At
<1> QED BY <1>1, <1>2, ForkKeeps, ExitKeeps DEF Next

-----------------------------------------------------------------------------
(* The invariant holds whatever semops fail and whoever is interrupted.    *)
THEOREM Invariance == Spec => []IInv
<1> QED BY InitIInv, NextIInv, PTL DEF Spec

(* Type correctness: last_served is the number of a client that exists.    *)
THEOREM TypeCorrect == Spec => []TypeOK
<1>1. IInv => TypeOK
  BY DEF IInv
<1> QED BY <1>1, Invariance, PTL

(* Each client gives back the barber it has found and no other             *)
(* (main.c:115-143).                                                       *)
THEOREM Barbers == Spec => []BarbersConserved
<1>1. IInv => BarbersConserved
  BY DEF IInv
<1> QED BY <1>1, Invariance, PTL

(* No chair is lost, and one is made up only after an interrupted semop    *)
(* (main.c:115-143).                                                       *)
THEOREM Chairs == Spec => []ChairsNeverLost
<1>1. IInv => ChairsNeverLost
  BY DEF IInv
<1> QED BY <1>1, Invariance, PTL

=============================================================================
