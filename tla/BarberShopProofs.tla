--------------------------- MODULE BarberShopProofs ---------------------------
(***************************************************************************)
(* The semaphores of BarberShop for any number of clients, barbers and     *)
(* chairs and any number of failing semops.  The invariants count          *)
(* processes: each step moves one process between two locations and        *)
(* changes at most one semaphore or one count of failures, so it moves one *)
(* unit between two terms of a sum.  Nothing is assumed about what the     *)
(* unprotected pops read in the segment.                                   *)
(*                                                                         *)
(* Of the string only its bound is followed: every non-zero byte lies      *)
(* below the bytes of earlier runs and one more for each push.             *)
(***************************************************************************)
EXTENDS BarberShop, FiniteSetTheorems, TLAPS

\* The clients between the aquire and the release of buffer_mutex.
Pushing == At(Clients, {"pushing", "measuring", "writing", "ending", "unlocking"})

\* buffer_mutex lets in one client, and one more for each failure.
PushersCounted ==
  sem["buffer_mutex"] + Cardinality(Pushing) = 1 + missed["buffer_mutex"]

\* The bytes from here on are 0.
Bound == LEFTOVER + Cardinality(Pushed)

\* What the processes have measured and loaded respects the bound too.
StringBounded ==
  /\ \A i \in Offsets : i >= Bound => queue[i] = NUL
  /\ \A c \in Clients :
       /\ pc[c] = "writing" => size[c] <= Bound
       /\ pc[c] = "ending" => size[c] < Bound
  /\ \A b \in Barbers :
       /\ length[b] <= Bound + 1
       /\ \A i \in DOMAIN chunk[b] : i >= Bound => chunk[b][i] = NUL

\* The part of the invariant that the sums make.
Sums == PlacesCounted /\ HaircutsCounted /\ PushersCounted

IInv ==
  /\ TypeOK
  /\ Sums
  /\ StringBounded

-----------------------------------------------------------------------------
(* The bound is two bytes from the end of the segment, or more.            *)
LEMMA BoundType ==
  ASSUME TypeOK
  PROVE  /\ Cardinality(Pushed) \in Nat /\ Bound \in Nat
         /\ \A i \in 0..(Bound + 1) : i \in Offsets
<1>1. Pushed \in SUBSET Clients
  BY DEF Pushed, At
<1>2. /\ IsFiniteSet(Pushed) /\ Cardinality(Pushed) <= Cardinality(Clients)
      /\ Cardinality(Pushed) \in Nat /\ Cardinality(Clients) \in Nat
  BY <1>1, ProcessAssumption, FS_Subset, FS_CardinalityType
<1> QED BY <1>2, SizeAssumption DEF Bound, Offsets

(* So strlen stops before the end of the segment.                          *)
LEMMA StrlenBound ==
  ASSUME TypeOK, StringBounded
  PROVE  strlen(queue) \in 0..Bound
<1> DEFINE Before == {i \in Offsets : \A j \in 0..i : queue[j] # NUL}
<1>1. Bound \in Nat /\ Bound \in Offsets
  BY BoundType
<1>2. queue[Bound] = NUL
  BY <1>1 DEF StringBounded
<1>3. Before \in SUBSET (0..(Bound - 1))
  <2> SUFFICES ASSUME NEW i \in Before PROVE i \in 0..(Bound - 1)
    OBVIOUS
  <2>1. i \in Nat /\ \A j \in 0..i : queue[j] # NUL
    BY DEF Offsets
  <2>2. Bound \notin 0..i
    BY <1>2, <2>1
  <2> QED BY <1>1, <2>1, <2>2
<1>4. IsFiniteSet(0..(Bound - 1)) /\ Cardinality(0..(Bound - 1)) = Bound
  BY <1>1, FS_Interval
<1> HIDE DEF Before
<1>5. IsFiniteSet(Before) /\ Cardinality(Before) <= Bound
  BY <1>3, <1>4, FS_Subset
<1>6. Cardinality(Before) \in Nat
  BY <1>5, FS_CardinalityType
<1> QED BY <1>1, <1>5, <1>6 DEF strlen, Before

\* What a move from one location to another adds to the number of the
\* processes in P whose location is in L.
Gain(p, from, to, P, L) ==
  (IF p \in P /\ to \in L THEN 1 ELSE 0)
    - (IF p \in P /\ from \in L THEN 1 ELSE 0)

(* A move changes the count of every set of locations by its gain.         *)
LEMMA MoveCounts ==
  ASSUME TypeOK, NEW p \in Processes, NEW from, NEW to, Move(p, from, to),
         NEW P \in {Clients, Barbers}, NEW L
  PROVE  /\ Cardinality(At(P, L)) \in Nat
         /\ Cardinality(At(P, L)') = Cardinality(At(P, L)) + Gain(p, from, to, P, L)
<1> DEFINE A == At(P, L)
           B == At(P, L)'
<1> USE ProcessAssumption
<1>1. IsFiniteSet(A) /\ P \subseteq Processes
  <2>1. IsFiniteSet(P) /\ A \in SUBSET P
    BY DEF At
  <2> QED BY <2>1, FS_Subset DEF Processes
<1>2. Cardinality(A) \in Nat
  BY <1>1, FS_CardinalityType
<1>3. pc[p] = from /\ \A q \in P : pc'[q] = IF q = p THEN to ELSE pc[q]
  BY <1>1 DEF Move, TypeOK
<1>4. CASE p \notin P \/ (from \in L <=> to \in L)
  <2>1. B = A
    BY <1>3, <1>4 DEF At
  <2>2. Gain(p, from, to, P, L) = 0
    BY <1>4 DEF Gain
  <2> HIDE DEF A, B
  <2>3. Cardinality(B) = Cardinality(A) + 0
    BY <1>2, <2>1
  <2> QED BY <1>2, <2>2, <2>3 DEF A, B
<1>5. CASE p \in P /\ from \notin L /\ to \in L
  <2>1. B = A \cup {p} /\ p \notin A
    BY <1>3, <1>5 DEF At
  <2>2. Gain(p, from, to, P, L) = 1
    BY <1>5 DEF Gain
  <2> HIDE DEF A, B
  <2>3. Cardinality(B) = Cardinality(A) + 1
    BY <1>1, <2>1, FS_AddElement
  <2> QED BY <1>2, <2>2, <2>3 DEF A, B
<1>6. CASE p \in P /\ from \in L /\ to \notin L
  <2>1. B = A \ {p} /\ p \in A
    BY <1>3, <1>6 DEF At
  <2>2. Gain(p, from, to, P, L) = -1
    BY <1>6 DEF Gain
  <2> HIDE DEF A, B
  <2>3. Cardinality(B) = Cardinality(A) - 1
    BY <1>1, <2>1, FS_RemoveElement
  <2>4. Cardinality(B) = Cardinality(A) + Gain(p, from, to, P, L)
    BY <1>2, <2>2, <2>3
  <2> QED BY <1>2, <2>4 DEF A, B
<1> QED BY <1>4, <1>5, <1>6

(* The counts of the invariants after a step of a client.                  *)
LEMMA ClientCounts ==
  ASSUME TypeOK, NEW c \in Clients, NEW from, NEW to, Move(c, from, to)
  PROVE  LET G(L) == (IF to \in L THEN 1 ELSE 0) - (IF from \in L THEN 1 ELSE 0)
         IN  /\ Cardinality(Inside)  \in Nat
             /\ Cardinality(Pushing) \in Nat
             /\ Cardinality(Waiting) \in Nat
             /\ Cardinality(Busy)    \in Nat
             /\ Cardinality(Cutting) \in Nat
             /\ Cardinality(Inside') = Cardinality(Inside)
                  + G({"entering", "pushing", "measuring", "writing", "ending",
                       "unlocking", "calling"})
             /\ Cardinality(Pushing') = Cardinality(Pushing)
                  + G({"pushing", "measuring", "writing", "ending", "unlocking"})
             /\ Cardinality(Waiting') = Cardinality(Waiting) + G({"waiting"})
             /\ Cardinality(Busy')    = Cardinality(Busy)
             /\ Cardinality(Cutting') = Cardinality(Cutting)
<1>1. c \in Processes /\ c \notin Barbers
  BY ProcessAssumption DEF Processes
<1>2. ASSUME NEW L
      PROVE  /\ Cardinality(At(Clients, L)) \in Nat
             /\ Cardinality(At(Barbers, L)) \in Nat
             /\ Cardinality(At(Barbers, L)') = Cardinality(At(Barbers, L))
             /\ Cardinality(At(Clients, L)') = Cardinality(At(Clients, L))
                  + ((IF to \in L THEN 1 ELSE 0) - (IF from \in L THEN 1 ELSE 0))
  <2>1. Gain(c, from, to, Barbers, L) = 0
    BY <1>1 DEF Gain
  <2>2. Gain(c, from, to, Clients, L)
          = (IF to \in L THEN 1 ELSE 0) - (IF from \in L THEN 1 ELSE 0)
    BY DEF Gain
  <2>3. /\ Cardinality(At(Clients, L)) \in Nat
        /\ Cardinality(At(Clients, L)')
             = Cardinality(At(Clients, L)) + Gain(c, from, to, Clients, L)
    BY <1>1, MoveCounts
  <2>4. /\ Cardinality(At(Barbers, L)) \in Nat
        /\ Cardinality(At(Barbers, L)')
             = Cardinality(At(Barbers, L)) + Gain(c, from, to, Barbers, L)
    BY <1>1, MoveCounts
  <2> QED BY <2>1, <2>2, <2>3, <2>4
<1> QED BY <1>2, Zenon DEF Inside, Pushing, Waiting, Busy, Cutting

(* The counts of the invariants after a step of a barber.                  *)
LEMMA BarberCounts ==
  ASSUME TypeOK, NEW b \in Barbers, NEW from, NEW to, Move(b, from, to)
  PROVE  LET G(L) == (IF to \in L THEN 1 ELSE 0) - (IF from \in L THEN 1 ELSE 0)
         IN  /\ Cardinality(Inside)  \in Nat
             /\ Cardinality(Pushing) \in Nat
             /\ Cardinality(Waiting) \in Nat
             /\ Cardinality(Busy)    \in Nat
             /\ Cardinality(Cutting) \in Nat
             /\ Cardinality(Inside')  = Cardinality(Inside)
             /\ Cardinality(Pushing') = Cardinality(Pushing)
             /\ Cardinality(Waiting') = Cardinality(Waiting)
             /\ Cardinality(Busy') = Cardinality(Busy)
                  + G(BarberLocations \ {"asleep"})
             /\ Cardinality(Cutting') = Cardinality(Cutting)
                  + G(BarberLocations \ {"asleep", "freeing"})
<1>1. b \in Processes /\ b \notin Clients
  BY ProcessAssumption DEF Processes
<1>2. ASSUME NEW L
      PROVE  /\ Cardinality(At(Clients, L)) \in Nat
             /\ Cardinality(At(Barbers, L)) \in Nat
             /\ Cardinality(At(Clients, L)') = Cardinality(At(Clients, L))
             /\ Cardinality(At(Barbers, L)') = Cardinality(At(Barbers, L))
                  + ((IF to \in L THEN 1 ELSE 0) - (IF from \in L THEN 1 ELSE 0))
  <2>1. Gain(b, from, to, Clients, L) = 0
    BY <1>1 DEF Gain
  <2>2. Gain(b, from, to, Barbers, L)
          = (IF to \in L THEN 1 ELSE 0) - (IF from \in L THEN 1 ELSE 0)
    BY DEF Gain
  <2>3. /\ Cardinality(At(Clients, L)) \in Nat
        /\ Cardinality(At(Clients, L)')
             = Cardinality(At(Clients, L)) + Gain(b, from, to, Clients, L)
    BY <1>1, MoveCounts
  <2>4. /\ Cardinality(At(Barbers, L)) \in Nat
        /\ Cardinality(At(Barbers, L)')
             = Cardinality(At(Barbers, L)) + Gain(b, from, to, Barbers, L)
    BY <1>1, MoveCounts
  <2> QED BY <2>1, <2>2, <2>3, <2>4
<1> QED BY <1>2, Zenon DEF Inside, Pushing, Waiting, Busy, Cutting

-----------------------------------------------------------------------------
(* Failures are bounded in the model, so their count has a type.           *)
LEMMA AquireTypes ==
  ASSUME TypeOK, NEW s \in Semaphores, aquire(s)
  PROVE  /\ sem' \in [Semaphores -> Nat]
         /\ missed' \in [Semaphores -> 0..MAX_MISSED]
<1>1. /\ sem \in [Semaphores -> Nat]
      /\ missed \in [Semaphores -> 0..MAX_MISSED] /\ MAX_MISSED \in Nat
  BY SizeAssumption DEF TypeOK
<1>2. \A n \in Semaphores :
        missed[n] <= missed["queue"] + missed["chairs"] + missed["barbers"]
                       + missed["buffer_mutex"]
  <2>1. /\ missed["queue"] \in Nat /\ missed["chairs"] \in Nat
        /\ missed["barbers"] \in Nat /\ missed["buffer_mutex"] \in Nat
    BY <1>1 DEF Semaphores
  <2> QED BY <2>1 DEF Semaphores
<1>3. CASE sem[s] > 0 /\ sem' = [sem EXCEPT ![s] = @ - 1] /\ UNCHANGED missed
  BY <1>1, <1>3
<1>4. CASE /\ missed["queue"] + missed["chairs"] + missed["barbers"]
                + missed["buffer_mutex"] < MAX_MISSED
           /\ missed' = [missed EXCEPT ![s] = @ + 1] /\ UNCHANGED sem
  <2>1. missed[s] + 1 \in 0..MAX_MISSED
    <3>1. /\ missed["queue"] \in Nat /\ missed["chairs"] \in Nat
          /\ missed["barbers"] \in Nat /\ missed["buffer_mutex"] \in Nat
      BY <1>1 DEF Semaphores
    <3> QED BY <1>1, <1>2, <1>4, <3>1
  <2> QED BY <1>1, <1>4, <2>1
<1> QED BY <1>3, <1>4 DEF aquire

(* Every step of a client keeps the sums.                                  *)
LEMMA ClientSums ==
  ASSUME TypeOK, Sums, NEW c \in Clients, ClientStep(c)
  PROVE  Sums'
<1> USE DEF Sums, PlacesCounted, HaircutsCounted, PushersCounted
<1>0. /\ sem \in [Semaphores -> Nat] /\ missed \in [Semaphores -> Nat]
      /\ \A s \in {"queue", "chairs", "barbers", "buffer_mutex"} : s \in Semaphores
  BY SizeAssumption DEF TypeOK, Semaphores
<1>1. CASE ClientEnter(c)
  <2>1. Move(c, "arriving", "entering")
    BY <1>1 DEF ClientEnter
  <2>2. \/ /\ sem["queue"] > 0 /\ sem' = [sem EXCEPT !["queue"] = @ - 1]
           /\ missed' = missed
        \/ sem' = sem /\ missed' = [missed EXCEPT !["queue"] = @ + 1]
    BY <1>1 DEF ClientEnter, aquire
  <2>3. CASE /\ sem["queue"] > 0 /\ sem' = [sem EXCEPT !["queue"] = @ - 1]
             /\ missed' = missed
    BY <1>0, <2>1, <2>3, ClientCounts
  <2>4. CASE sem' = sem /\ missed' = [missed EXCEPT !["queue"] = @ + 1]
    <3>1. /\ missed'["queue"] = missed["queue"] + 1
          /\ missed'["chairs"] = missed["chairs"]
          /\ missed'["barbers"] = missed["barbers"]
          /\ missed'["buffer_mutex"] = missed["buffer_mutex"]
      BY <1>0, <2>4
    <3>2. /\ sem["queue"] \in Nat /\ sem["chairs"] \in Nat /\ sem["barbers"] \in Nat
          /\ missed["queue"] \in Nat /\ missed["chairs"] \in Nat
          /\ missed["barbers"] \in Nat
      BY <1>0
    <3> QED BY <2>1, <2>4, <3>1, <3>2, SizeAssumption, ClientCounts
  <2> QED BY <2>2, <2>3, <2>4
<1>2. CASE ClientLock(c)
  <2>1. Move(c, "entering", "pushing")
    BY <1>2 DEF ClientLock
  <2>2. \/ /\ sem["buffer_mutex"] > 0 /\ sem' = [sem EXCEPT !["buffer_mutex"] = @ - 1]
           /\ missed' = missed
        \/ sem' = sem /\ missed' = [missed EXCEPT !["buffer_mutex"] = @ + 1]
    BY <1>2 DEF ClientLock, aquire
  <2>3. CASE /\ sem["buffer_mutex"] > 0 /\ sem' = [sem EXCEPT !["buffer_mutex"] = @ - 1]
             /\ missed' = missed
    BY <1>0, <2>1, <2>3, ClientCounts
  <2>4. CASE sem' = sem /\ missed' = [missed EXCEPT !["buffer_mutex"] = @ + 1]
    BY <1>0, <2>1, <2>4, ClientCounts
  <2> QED BY <2>2, <2>3, <2>4
<1>3. CASE PushMeasure(c)
  <2>1. Move(c, "measuring", "writing")
    BY <1>3 DEF PushMeasure
  <2> QED BY <1>0, <1>3, <2>1, ClientCounts DEF PushMeasure, Units
<1>4. CASE PushWrite(c)
  <2>1. Move(c, "writing", "ending")
    BY <1>4 DEF PushWrite
  <2> QED BY <1>0, <1>4, <2>1, ClientCounts DEF PushWrite, Units
<1>5. CASE PushEnd(c)
  <2>1. Move(c, "ending", "unlocking")
    BY <1>5 DEF PushEnd
  <2> QED BY <1>0, <1>5, <2>1, ClientCounts DEF PushEnd, Units
<1>6. CASE ClientUnlock(c)
  <2>1. Move(c, "unlocking", "calling")
    BY <1>6 DEF ClientUnlock
  <2> QED BY <1>0, <1>6, <2>1, ClientCounts DEF ClientUnlock, release
<1>7. CASE ClientCall(c)
  <2>1. Move(c, "calling", "waiting")
    BY <1>7 DEF ClientCall
  <2> QED BY <1>0, <1>7, <2>1, ClientCounts DEF ClientCall, release
<1>8. CASE ClientDone(c)
  <2> HIDE DEF Sums, PlacesCounted, HaircutsCounted, PushersCounted
  <2>1. Move(c, "waiting", "done")
    BY <1>8 DEF ClientDone
  <2>2. \/ /\ sem["chairs"] > 0 /\ sem' = [sem EXCEPT !["chairs"] = @ - 1]
           /\ missed' = missed
        \/ sem' = sem /\ missed' = [missed EXCEPT !["chairs"] = @ + 1]
    BY <1>8 DEF ClientDone, aquire
  <2>3. /\ Cardinality(Inside) \in Nat
        /\ Cardinality(Inside') = Cardinality(Inside)
        /\ Cardinality(Pushing) \in Nat
        /\ Cardinality(Pushing') = Cardinality(Pushing)
        /\ Cardinality(Waiting) \in Nat
        /\ Cardinality(Waiting') = Cardinality(Waiting) - 1
        /\ Cardinality(Busy) \in Nat
        /\ Cardinality(Busy') = Cardinality(Busy)
        /\ Cardinality(Cutting) \in Nat
        /\ Cardinality(Cutting') = Cardinality(Cutting)
    BY <2>1, ClientCounts
  <2>4. PlacesCounted /\ HaircutsCounted /\ PushersCounted
    BY DEF Sums
  <2>5. CASE /\ sem["chairs"] > 0 /\ sem' = [sem EXCEPT !["chairs"] = @ - 1]
             /\ missed' = missed
    <3>1. /\ sem'["chairs"] = sem["chairs"] - 1
          /\ sem'["queue"] = sem["queue"]
          /\ sem'["barbers"] = sem["barbers"]
          /\ sem'["buffer_mutex"] = sem["buffer_mutex"]
          /\ missed'["queue"] = missed["queue"]
          /\ missed'["chairs"] = missed["chairs"]
          /\ missed'["barbers"] = missed["barbers"]
          /\ missed'["buffer_mutex"] = missed["buffer_mutex"]
      BY <1>0, <2>5
    <3>2. /\ sem["queue"] \in Nat /\ sem["chairs"] \in Nat /\ sem["barbers"] \in Nat
          /\ sem["buffer_mutex"] \in Nat /\ missed["buffer_mutex"] \in Nat
          /\ missed["queue"] \in Nat /\ missed["chairs"] \in Nat
          /\ missed["barbers"] \in Nat
      BY <1>0
    <3>3. PlacesCounted'
      BY <2>3, <3>1, <3>2, SizeAssumption, <2>4 DEF PlacesCounted
    <3>4. HaircutsCounted'
      BY <2>3, <3>1, <3>2, <2>4 DEF HaircutsCounted
    <3>5. PushersCounted'
      BY <2>3, <3>1, <3>2, <2>4 DEF PushersCounted
    <3> QED BY <3>3, <3>4, <3>5 DEF Sums
  <2>6. CASE sem' = sem /\ missed' = [missed EXCEPT !["chairs"] = @ + 1]
    <3>1. /\ missed'["chairs"] = missed["chairs"] + 1
          /\ missed'["queue"] = missed["queue"]
          /\ missed'["barbers"] = missed["barbers"]
          /\ missed'["buffer_mutex"] = missed["buffer_mutex"]
          /\ sem'["queue"] = sem["queue"]
          /\ sem'["chairs"] = sem["chairs"]
          /\ sem'["barbers"] = sem["barbers"]
          /\ sem'["buffer_mutex"] = sem["buffer_mutex"]
      BY <1>0, <2>6
    <3>2. /\ sem["queue"] \in Nat /\ sem["chairs"] \in Nat /\ sem["barbers"] \in Nat
          /\ sem["buffer_mutex"] \in Nat /\ missed["buffer_mutex"] \in Nat
          /\ missed["queue"] \in Nat /\ missed["chairs"] \in Nat
          /\ missed["barbers"] \in Nat
      BY <1>0
    <3>3. PlacesCounted'
      BY <2>3, <3>1, <3>2, SizeAssumption, <2>4 DEF PlacesCounted
    <3>4. HaircutsCounted'
      BY <2>3, <3>1, <3>2, <2>4 DEF HaircutsCounted
    <3>5. PushersCounted'
      BY <2>3, <3>1, <3>2, <2>4 DEF PushersCounted
    <3> QED BY <3>3, <3>4, <3>5 DEF Sums
  <2> QED BY <2>2, <2>5, <2>6
<1>9. CASE PushCheck(c)
  <2>1. Move(c, "pushing", "unlocking") \/ Move(c, "pushing", "measuring")
    BY <1>9 DEF PushCheck
  <2> QED BY <1>0, <1>9, <2>1, ClientCounts DEF PushCheck, Units
<1> QED
  BY <1>1, <1>2, <1>3, <1>4, <1>5, <1>6, <1>7, <1>8, <1>9 DEF ClientStep

(* Every step of a barber keeps the sums.                                  *)
LEMMA BarberSums ==
  ASSUME TypeOK, Sums, NEW b \in Barbers, BarberStep(b)
  PROVE  Sums'
<1> USE DEF Sums, PlacesCounted, HaircutsCounted, PushersCounted, BarberLocations
<1>0. /\ sem \in [Semaphores -> Nat] /\ missed \in [Semaphores -> Nat]
      /\ \A s \in {"queue", "chairs", "barbers", "buffer_mutex"} : s \in Semaphores
  BY SizeAssumption DEF TypeOK, Semaphores
<1>1. CASE BarberWake(b)
  <2> HIDE DEF Sums, PlacesCounted, HaircutsCounted, PushersCounted
  <2>1. Move(b, "asleep", "checking")
    BY <1>1 DEF BarberWake
  <2>2. \/ /\ sem["barbers"] > 0 /\ sem' = [sem EXCEPT !["barbers"] = @ - 1]
           /\ missed' = missed
        \/ sem' = sem /\ missed' = [missed EXCEPT !["barbers"] = @ + 1]
    BY <1>1 DEF BarberWake, aquire
  <2>3. /\ Cardinality(Inside) \in Nat
        /\ Cardinality(Inside') = Cardinality(Inside)
        /\ Cardinality(Pushing) \in Nat
        /\ Cardinality(Pushing') = Cardinality(Pushing)
        /\ Cardinality(Waiting) \in Nat
        /\ Cardinality(Waiting') = Cardinality(Waiting)
        /\ Cardinality(Busy) \in Nat
        /\ Cardinality(Busy') = Cardinality(Busy) + 1
        /\ Cardinality(Cutting) \in Nat
        /\ Cardinality(Cutting') = Cardinality(Cutting) + 1
    BY <2>1, BarberCounts
  <2>4. PlacesCounted /\ HaircutsCounted /\ PushersCounted
    BY DEF Sums
  <2>5. CASE /\ sem["barbers"] > 0 /\ sem' = [sem EXCEPT !["barbers"] = @ - 1]
             /\ missed' = missed
    <3>1. /\ sem'["barbers"] = sem["barbers"] - 1
          /\ sem'["queue"] = sem["queue"]
          /\ sem'["chairs"] = sem["chairs"]
          /\ sem'["buffer_mutex"] = sem["buffer_mutex"]
          /\ missed'["queue"] = missed["queue"]
          /\ missed'["chairs"] = missed["chairs"]
          /\ missed'["barbers"] = missed["barbers"]
          /\ missed'["buffer_mutex"] = missed["buffer_mutex"]
      BY <1>0, <2>5
    <3>2. /\ sem["queue"] \in Nat /\ sem["chairs"] \in Nat /\ sem["barbers"] \in Nat
          /\ sem["buffer_mutex"] \in Nat /\ missed["buffer_mutex"] \in Nat
          /\ missed["queue"] \in Nat /\ missed["chairs"] \in Nat
          /\ missed["barbers"] \in Nat
      BY <1>0
    <3>3. PlacesCounted'
      BY <2>3, <3>1, <3>2, SizeAssumption, <2>4 DEF PlacesCounted
    <3>4. HaircutsCounted'
      BY <2>3, <3>1, <3>2, <2>4 DEF HaircutsCounted
    <3>5. PushersCounted'
      BY <2>3, <3>1, <3>2, <2>4 DEF PushersCounted
    <3> QED BY <3>3, <3>4, <3>5 DEF Sums
  <2>6. CASE sem' = sem /\ missed' = [missed EXCEPT !["barbers"] = @ + 1]
    <3>1. /\ missed'["barbers"] = missed["barbers"] + 1
          /\ missed'["queue"] = missed["queue"]
          /\ missed'["chairs"] = missed["chairs"]
          /\ missed'["buffer_mutex"] = missed["buffer_mutex"]
          /\ sem'["queue"] = sem["queue"]
          /\ sem'["chairs"] = sem["chairs"]
          /\ sem'["barbers"] = sem["barbers"]
          /\ sem'["buffer_mutex"] = sem["buffer_mutex"]
      BY <1>0, <2>6
    <3>2. /\ sem["queue"] \in Nat /\ sem["chairs"] \in Nat /\ sem["barbers"] \in Nat
          /\ sem["buffer_mutex"] \in Nat /\ missed["buffer_mutex"] \in Nat
          /\ missed["queue"] \in Nat /\ missed["chairs"] \in Nat
          /\ missed["barbers"] \in Nat
      BY <1>0
    <3>3. PlacesCounted'
      BY <2>3, <3>1, <3>2, SizeAssumption, <2>4 DEF PlacesCounted
    <3>4. HaircutsCounted'
      BY <2>3, <3>1, <3>2, <2>4 DEF HaircutsCounted
    <3>5. PushersCounted'
      BY <2>3, <3>1, <3>2, <2>4 DEF PushersCounted
    <3> QED BY <3>3, <3>4, <3>5 DEF Sums
  <2> QED BY <2>2, <2>5, <2>6
<1>2. CASE PopEmpty(b)
  <2>1. Move(b, "checking", "cutting")
    BY <1>2 DEF PopEmpty
  <2> QED BY <1>0, <1>2, <2>1, BarberCounts DEF PopEmpty, Units
<1>3. CASE PopCheck(b)
  <2>1. Move(b, "checking", "taking")
    BY <1>3 DEF PopCheck
  <2> QED BY <1>0, <1>3, <2>1, BarberCounts DEF PopCheck, Units
<1>4. CASE PopTake(b)
  <2>1. Move(b, "taking", "shifting") /\ sem' = sem /\ missed' = missed
    BY <1>4 DEF PopTake, Units
  <2> QED BY <1>0, <2>1, BarberCounts
<1>5. CASE PopMeasure(b)
  <2>1. Move(b, "shifting", "loading")
    BY <1>5 DEF PopMeasure
  <2> QED BY <1>0, <1>5, <2>1, BarberCounts DEF PopMeasure, Units
<1>6. CASE PopLoad(b)
  <2>1. Move(b, "loading", "storing")
    BY <1>6 DEF PopLoad
  <2> QED BY <1>0, <1>6, <2>1, BarberCounts DEF PopLoad, Units
<1>7. CASE PopStore(b)
  <2>1. Move(b, "storing", "cutting") /\ sem' = sem /\ missed' = missed
    BY <1>7 DEF PopStore, Units
  <2> QED BY <1>0, <2>1, BarberCounts
<1>8. CASE BarberReleaseChair(b)
  <2>1. Move(b, "cutting", "freeing")
    BY <1>8 DEF BarberReleaseChair
  <2> QED BY <1>0, <1>8, <2>1, BarberCounts DEF BarberReleaseChair, release
<1>9. CASE BarberReleaseQueue(b)
  <2>1. Move(b, "freeing", "asleep")
    BY <1>9 DEF BarberReleaseQueue
  <2> QED BY <1>0, <1>9, <2>1, BarberCounts DEF BarberReleaseQueue, release
<1> QED
  BY <1>1, <1>2, <1>3, <1>4, <1>5, <1>6, <1>7, <1>8, <1>9 DEF BarberStep

-----------------------------------------------------------------------------
(* What a memcpy has loaded is a chunk.                                    *)
LEMMA ChunkType ==
  ASSUME NEW D \in SUBSET Offsets, NEW f \in [D -> Bytes]
  PROVE  f \in Chunks
BY DEF Chunks

(* Before it loads anything, it is the empty one.                          *)
LEMMA EmptyChunk == [i \in {} |-> NUL] \in Chunks
<1>1. [i \in {} |-> NUL] \in [{} -> Bytes] /\ {} \in SUBSET Offsets
  OBVIOUS
<1> QED BY <1>1, ChunkType

(* Every step keeps the types.                                             *)
LEMMA ClientTypes ==
  ASSUME TypeOK, StringBounded, NEW c \in Clients, ClientStep(c)
  PROVE  TypeOK'
<1> USE ProcessAssumption, SizeAssumption
<1> USE DEF TypeOK, Processes, Bytes, ClientLocations, BarberLocations, Move,
            Semaphores, Units, Memory, release
<1>0. \A s \in Semaphores : aquire(s) =>
        /\ sem' \in [Semaphores -> Nat]
        /\ missed' \in [Semaphores -> 0..MAX_MISSED]
  BY AquireTypes
<1>1. CASE ClientEnter(c)
  BY <1>0, <1>1 DEF ClientEnter
<1>2. CASE ClientLock(c)
  BY <1>0, <1>2 DEF ClientLock
<1>3. CASE PushMeasure(c)
  <2>1. strlen(queue) \in Offsets
    BY StrlenBound, BoundType
  <2> QED BY <1>3, <2>1 DEF PushMeasure
<1>4. CASE PushWrite(c)
  <2>1. PICK byte \in {c, NUL} : queue' = [queue EXCEPT ![size[c]] = byte]
    BY <1>4 DEF PushWrite
  <2>2. queue' \in [Offsets -> Bytes]
    BY <2>1
  <2> QED BY <1>4, <2>2 DEF PushWrite
<1>5. CASE PushEnd(c)
  <2>1. /\ queue' = [queue EXCEPT ![size[c] + 1] = NUL]
        /\ size' = [size EXCEPT ![c] = 0]
    BY <1>5 DEF PushEnd
  <2>2. queue' \in [Offsets -> Bytes]
    BY <2>1
  <2>3. size' \in [Clients -> Offsets]
    BY <2>1 DEF Offsets
  <2> QED BY <1>5, <2>2, <2>3 DEF PushEnd
<1>6. CASE ClientUnlock(c)
  BY <1>6 DEF ClientUnlock
<1>7. CASE ClientCall(c)
  BY <1>7 DEF ClientCall
<1>8. CASE ClientDone(c)
  BY <1>0, <1>8 DEF ClientDone
<1>9. CASE PushCheck(c)
  BY <1>9 DEF PushCheck
<1> QED
  BY <1>1, <1>2, <1>3, <1>4, <1>5, <1>6, <1>7, <1>8, <1>9 DEF ClientStep

LEMMA BarberTypes ==
  ASSUME TypeOK, StringBounded, NEW b \in Barbers, BarberStep(b)
  PROVE  TypeOK'
<1> USE ProcessAssumption, SizeAssumption
<1> USE DEF TypeOK, Processes, Bytes, ClientLocations, BarberLocations, Move,
            Semaphores, Units, Memory, release
<1>0. \A s \in Semaphores : aquire(s) =>
        /\ sem' \in [Semaphores -> Nat]
        /\ missed' \in [Semaphores -> 0..MAX_MISSED]
  BY AquireTypes
<1>1. CASE BarberWake(b)
  BY <1>0, <1>1 DEF BarberWake
<1>2. CASE PopEmpty(b)
  BY <1>2 DEF PopEmpty
<1>3. CASE PopCheck(b)
  BY <1>3 DEF PopCheck
<1>4. CASE PopTake(b)
  <2>1. queue[0] \in Bytes
    BY BoundType
  <2> QED BY <1>4, <2>1 DEF PopTake
<1>5. CASE PopMeasure(b)
  <2>1. strlen(queue) + 1 \in Offsets
    BY StrlenBound, BoundType
  <2> QED BY <1>5, <2>1 DEF PopMeasure
<1>6. CASE PopLoad(b)
  <2> DEFINE D == {j \in Offsets : j < length[b]}
             loaded == [i \in D |-> queue[i + 1]]
  <2>1. \A i \in D : i + 1 \in Offsets
    BY DEF Offsets
  <2>2. loaded \in [D -> Bytes] /\ D \in SUBSET Offsets
    BY <2>1
  <2>3. chunk' = [chunk EXCEPT ![b] = loaded] /\ length' = [length EXCEPT ![b] = 0]
    BY <1>6 DEF PopLoad
  <2> HIDE DEF D, loaded
  <2>4. loaded \in Chunks
    BY <2>2, ChunkType
  <2>5. chunk' \in [Barbers -> Chunks]
    BY <2>3, <2>4
  <2>6. length' \in [Barbers -> Offsets]
    BY <2>3 DEF Offsets
  <2> QED BY <1>6, <2>5, <2>6 DEF PopLoad
<1>7. CASE PopStore(b)
  <2>1. PICK D \in SUBSET Offsets : chunk[b] \in [D -> Bytes]
    BY DEF Chunks
  <2>2. queue' \in [Offsets -> Bytes]
    BY <1>7, <2>1 DEF PopStore
  <2>3. chunk' \in [Barbers -> Chunks]
    BY <1>7, EmptyChunk DEF PopStore
  <2> QED BY <1>7, <2>2, <2>3 DEF PopStore
<1>8. CASE BarberReleaseChair(b)
  BY <1>8 DEF BarberReleaseChair
<1>9. CASE BarberReleaseQueue(b)
  BY <1>9 DEF BarberReleaseQueue
<1> QED
  BY <1>1, <1>2, <1>3, <1>4, <1>5, <1>6, <1>7, <1>8, <1>9 DEF BarberStep

-----------------------------------------------------------------------------
\* Where a client that is counted in the bound is.
PushedAt == {"ending", "unlocking", "calling", "waiting", "done"}

(* The bound grows with each push.                                         *)
LEMMA BoundMoves ==
  ASSUME TypeOK, NEW p \in Processes, NEW from, NEW to, Move(p, from, to)
  PROVE  Bound \in Nat /\ Bound' = Bound + Gain(p, from, to, Clients, PushedAt)
<1>1. /\ Cardinality(Pushed) \in Nat
      /\ Cardinality(Pushed') = Cardinality(Pushed) + Gain(p, from, to, Clients, PushedAt)
  BY MoveCounts DEF Pushed, PushedAt
<1>2. Gain(p, from, to, Clients, PushedAt) \in Int
  BY DEF Gain
<1> QED BY <1>1, <1>2, SizeAssumption DEF Bound

(* What does not touch the string and its measures does not matter.        *)
LEMMA StringKept ==
  ASSUME TypeOK, StringBounded, Bound \in Nat, Bound' \in Nat, Bound <= Bound',
         UNCHANGED <<queue, size, length, chunk>>,
         \A c \in Clients : pc'[c] \in {"writing", "ending"} => pc'[c] = pc[c]
  PROVE  StringBounded'
<1>1. /\ \A c \in Clients : size[c] \in Int
      /\ \A b \in Barbers : length[b] \in Int
      /\ \A b \in Barbers : DOMAIN chunk[b] \subseteq Int
      /\ Offsets \subseteq Int
  BY DEF TypeOK, Offsets, Chunks
<1> QED BY <1>1 DEF StringBounded

LEMMA ClientString ==
  ASSUME TypeOK, StringBounded, NEW c \in Clients, ClientStep(c)
  PROVE  StringBounded'
<1>0. /\ c \in Processes /\ c \notin Barbers
      /\ pc \in [Processes -> ClientLocations \cup BarberLocations]
      /\ Clients \subseteq Processes
  BY ProcessAssumption DEF Processes, TypeOK
<1>1. ASSUME NEW from, NEW to, Move(c, from, to)
      PROVE  /\ pc'[c] = to /\ \A d \in Clients : d # c => pc'[d] = pc[d]
             /\ Bound \in Nat
             /\ Bound' = Bound + ((IF to \in PushedAt THEN 1 ELSE 0)
                                    - (IF from \in PushedAt THEN 1 ELSE 0))
  <2>1. /\ pc'[c] = to /\ \A d \in Clients : d # c => pc'[d] = pc[d]
    BY <1>0, <1>1 DEF Move
  <2>2. Bound \in Nat /\ Bound' = Bound + Gain(c, from, to, Clients, PushedAt)
    BY <1>0, <1>1, BoundMoves
  <2> QED BY <2>1, <2>2 DEF Gain
<1>2. /\ \A d \in Clients : size[d] \in Nat
      /\ size \in [Clients -> Offsets] /\ queue \in [Offsets -> Bytes]
      /\ \A b \in Barbers : length[b] \in Nat
      /\ \A b \in Barbers : DOMAIN chunk[b] \subseteq Nat
      /\ Offsets \subseteq Nat
  BY DEF TypeOK, Offsets, Chunks
<1>3. CASE \/ ClientEnter(c) \/ ClientLock(c) \/ PushCheck(c)
           \/ ClientUnlock(c) \/ ClientCall(c) \/ ClientDone(c)
  <2>1. UNCHANGED <<queue, size, length, chunk>>
    BY <1>3 DEF ClientEnter, ClientLock, PushCheck, ClientUnlock, ClientCall,
                ClientDone, Memory
  <2>2. \/ Move(c, "arriving", "entering") \/ Move(c, "entering", "pushing")
        \/ Move(c, "pushing", "unlocking") \/ Move(c, "pushing", "measuring")
        \/ Move(c, "unlocking", "calling") \/ Move(c, "calling", "waiting")
        \/ Move(c, "waiting", "done")
    BY <1>3 DEF ClientEnter, ClientLock, PushCheck, ClientUnlock, ClientCall, ClientDone
  <2>3. /\ Bound \in Nat /\ Bound' \in Nat /\ Bound <= Bound'
        /\ pc'[c] \notin {"writing", "ending"}
        /\ \A d \in Clients : d # c => pc'[d] = pc[d]
    BY <1>1, <2>2 DEF PushedAt
  <2> QED BY <2>1, <2>3, StringKept
<1>4. CASE PushMeasure(c)
  <2>1. /\ Move(c, "measuring", "writing") /\ UNCHANGED <<queue, length, chunk>>
        /\ size' = [size EXCEPT ![c] = strlen(queue)]
    BY <1>4 DEF PushMeasure
  <2>2. /\ Bound \in Nat /\ Bound' = Bound /\ pc'[c] = "writing"
        /\ \A d \in Clients : d # c => pc'[d] = pc[d] /\ size'[d] = size[d]
        /\ size'[c] <= Bound
    BY <1>1, <1>2, <2>1, StrlenBound DEF PushedAt
  <2> QED BY <1>2, <2>1, <2>2 DEF StringBounded
<1>5. CASE PushWrite(c)
  <2>1. /\ Move(c, "writing", "ending") /\ UNCHANGED <<size, length, chunk>>
        /\ pc[c] = "writing"
    BY <1>5 DEF PushWrite, Move
  <2>2. PICK byte : queue' = [queue EXCEPT ![size[c]] = byte]
    BY <1>5 DEF PushWrite
  <2>3. /\ Bound \in Nat /\ Bound' = Bound + 1 /\ pc'[c] = "ending"
        /\ \A d \in Clients : d # c => pc'[d] = pc[d]
    BY <1>1, <2>1 DEF PushedAt
  <2>4. size[c] <= Bound
    BY <2>1 DEF StringBounded
  <2>5. \A i \in Offsets : i >= Bound + 1 => queue'[i] = NUL
    BY <1>2, <2>2, <2>3, <2>4 DEF StringBounded
  <2>6. \A d \in Clients : /\ pc'[d] = "writing" => size'[d] <= Bound + 1
                           /\ pc'[d] = "ending" => size'[d] < Bound + 1
    BY <1>2, <2>1, <2>3, <2>4 DEF StringBounded
  <2>7. \A b \in Barbers : /\ length'[b] <= (Bound + 1) + 1
                           /\ \A i \in DOMAIN chunk'[b] :
                                i >= Bound + 1 => chunk'[b][i] = NUL
    BY <1>2, <2>1, <2>3 DEF StringBounded
  <2> QED BY <2>3, <2>5, <2>6, <2>7 DEF StringBounded
<1>6. CASE PushEnd(c)
  <2>1. /\ Move(c, "ending", "unlocking") /\ UNCHANGED <<length, chunk>>
        /\ queue' = [queue EXCEPT ![size[c] + 1] = NUL]
        /\ size' = [size EXCEPT ![c] = 0]
    BY <1>6 DEF PushEnd
  <2>2. /\ Bound \in Nat /\ Bound' = Bound /\ pc'[c] = "unlocking"
        /\ \A d \in Clients : d # c => pc'[d] = pc[d] /\ size'[d] = size[d]
        /\ \A i \in Offsets : queue'[i] = queue[i] \/ queue'[i] = NUL
    BY <1>1, <1>2, <2>1 DEF PushedAt
  <2> QED BY <1>2, <2>1, <2>2 DEF StringBounded
<1> QED BY <1>3, <1>4, <1>5, <1>6 DEF ClientStep

LEMMA BarberString ==
  ASSUME TypeOK, StringBounded, NEW b \in Barbers, BarberStep(b)
  PROVE  StringBounded'
<1>0. /\ b \in Processes /\ b \notin Clients
      /\ pc \in [Processes -> ClientLocations \cup BarberLocations]
      /\ Clients \subseteq Processes
  BY ProcessAssumption DEF Processes, TypeOK
<1>1. /\ \A c \in Clients : pc'[c] = pc[c]
      /\ Bound \in Nat /\ Bound' = Bound
  <2>1. PICK from, to : Move(b, from, to)
    BY DEF BarberStep, BarberWake, PopEmpty, PopCheck, PopTake, PopMeasure, PopLoad,
           PopStore, BarberReleaseChair, BarberReleaseQueue
  <2>2. Bound \in Nat /\ Bound' = Bound + Gain(b, from, to, Clients, PushedAt)
    BY <1>0, <2>1, BoundMoves
  <2>3. Gain(b, from, to, Clients, PushedAt) = 0
    BY <1>0 DEF Gain
  <2> QED BY <1>0, <2>1, <2>2, <2>3 DEF Move
<1>2. /\ length \in [Barbers -> Offsets] /\ queue \in [Offsets -> Bytes]
      /\ chunk \in [Barbers -> Chunks] /\ Offsets \subseteq Nat
      /\ \A a \in Barbers : DOMAIN chunk[a] \subseteq Offsets
  BY DEF TypeOK, Offsets, Chunks
<1>3. CASE \/ BarberWake(b) \/ PopEmpty(b) \/ PopCheck(b) \/ PopTake(b)
           \/ BarberReleaseChair(b) \/ BarberReleaseQueue(b)
  <2>1. UNCHANGED <<queue, size, length, chunk>>
    BY <1>3 DEF BarberWake, PopEmpty, PopCheck, PopTake, BarberReleaseChair,
                BarberReleaseQueue, Memory
  <2> QED BY <1>1, <2>1, StringKept
<1>4. CASE PopMeasure(b)
  <2>1. /\ UNCHANGED <<queue, size, chunk>>
        /\ length' = [length EXCEPT ![b] = strlen(queue) + 1]
    BY <1>4 DEF PopMeasure
  <2>2. strlen(queue) \in 0..Bound
    BY StrlenBound
  <2>3. \A a \in Barbers : length'[a] <= Bound + 1
    BY <1>1, <1>2, <2>1, <2>2 DEF StringBounded
  <2> QED BY <1>1, <2>1, <2>3 DEF StringBounded
<1>5. CASE PopLoad(b)
  <2> DEFINE loaded == [i \in {j \in Offsets : j < length[b]} |-> queue[i + 1]]
  <2>1. /\ UNCHANGED <<queue, size>> /\ length' = [length EXCEPT ![b] = 0]
        /\ chunk' = [chunk EXCEPT ![b] = loaded]
    BY <1>5 DEF PopLoad
  <2>2. \A i \in DOMAIN loaded : i >= Bound => loaded[i] = NUL
    <3> SUFFICES ASSUME NEW i \in Offsets, i < length[b], i >= Bound
                 PROVE  queue[i + 1] = NUL
      OBVIOUS
    <3>1. i + 1 \in Offsets /\ i + 1 >= Bound
      BY <1>1, <1>2, SizeAssumption DEF Offsets
    <3> QED BY <3>1 DEF StringBounded
  <2> HIDE DEF loaded
  <2>3. \A a \in Barbers : /\ length'[a] <= Bound + 1
                           /\ \A i \in DOMAIN chunk'[a] : i >= Bound => chunk'[a][i] = NUL
    <3> TAKE a \in Barbers
    <3>1. CASE a = b
      BY <1>1, <1>2, <2>1, <2>2, <3>1
    <3>2. CASE a # b
      BY <1>2, <2>1, <3>2 DEF StringBounded
    <3> QED BY <3>1, <3>2
  <2> QED BY <1>1, <2>1, <2>3 DEF StringBounded
<1>6. CASE PopStore(b)
  <2>1. /\ UNCHANGED <<size, length>>
        /\ chunk' = [chunk EXCEPT ![b] = [i \in {} |-> NUL]]
        /\ queue' = [i \in Offsets |-> IF i \in DOMAIN chunk[b] THEN chunk[b][i]
                                                               ELSE queue[i]]
    BY <1>6 DEF PopStore
  <2>2. \A i \in Offsets : i >= Bound => queue'[i] = NUL
    BY <2>1 DEF StringBounded
  <2>3. \A a \in Barbers : /\ length'[a] <= Bound + 1
                           /\ \A i \in DOMAIN chunk'[a] : i >= Bound => chunk'[a][i] = NUL
    <3> TAKE a \in Barbers
    <3>1. CASE a = b
      BY <1>2, <2>1, <3>1 DEF StringBounded
    <3>2. CASE a # b
      BY <1>2, <2>1, <3>2 DEF StringBounded
    <3> QED BY <3>1, <3>2
  <2> QED BY <1>1, <2>1, <2>2, <2>3 DEF StringBounded
<1> QED BY <1>3, <1>4, <1>5, <1>6 DEF BarberStep

(* When the shop opens, nobody is inside and every place is free.          *)
LEMMA InitIInv == Init => IInv
<1> SUFFICES ASSUME Init PROVE IInv
  OBVIOUS
<1>1. PICK old \in [1..(LEFTOVER - 1) -> Bytes] :
        queue = [i \in Offsets |-> IF i \in DOMAIN old THEN old[i] ELSE NUL]
  BY DEF Init
<1>2. queue \in [Offsets -> Bytes]
  BY <1>1 DEF Bytes
<1>3. 0 \in Offsets
  BY ProcessAssumption, FS_CardinalityType, SizeAssumption DEF Offsets
<1>4. TypeOK
  BY <1>2, <1>3, EmptyChunk, ProcessAssumption, SizeAssumption
  DEF Init, TypeOK, Semaphores, Processes, Bytes, ClientLocations, BarberLocations
<1>5. Inside = {} /\ Pushing = {} /\ Pushed = {} /\ Waiting = {} /\ Busy = {}
      /\ Cutting = {}
  BY ProcessAssumption
  DEF Init, Processes, At, Inside, Pushing, Pushed, Waiting, Busy, Cutting
<1>6. /\ sem["queue"] = CHAIR_TOTAL /\ sem["buffer_mutex"] = 1
      /\ sem["barbers"] = 0 /\ sem["chairs"] = 0
      /\ missed["queue"] = 0 /\ missed["buffer_mutex"] = 0
      /\ missed["barbers"] = 0 /\ missed["chairs"] = 0
  BY DEF Init, Semaphores
<1>7. Cardinality({}) = 0
  BY FS_EmptySet
<1>8. Sums
  BY <1>5, <1>6, <1>7, SizeAssumption
  DEF Sums, PlacesCounted, HaircutsCounted, PushersCounted
<1>9. StringBounded
  <2>1. Bound = LEFTOVER /\ LEFTOVER \in Nat
    BY <1>5, <1>7, SizeAssumption DEF Bound
  <2>2. \A i \in Offsets : i >= Bound => queue[i] = NUL
    BY <1>1, <2>1 DEF Offsets
  <2>3. \A c \in Clients : pc[c] \notin {"writing", "ending"}
    BY <1>4 DEF Init, Processes
  <2>4. \A b \in Barbers : length[b] = 0 /\ DOMAIN chunk[b] = {}
    BY DEF Init
  <2> QED BY <2>1, <2>2, <2>3, <2>4 DEF StringBounded
<1> QED BY <1>4, <1>8, <1>9 DEF IInv

LEMMA NextIInv == IInv /\ [Next]_vars => IInv'
<1> SUFFICES ASSUME IInv, [Next]_vars PROVE IInv'
  OBVIOUS
<1>1. CASE \E c \in Clients : ClientStep(c)
  BY <1>1, ClientTypes, ClientSums, ClientString DEF IInv
<1>2. CASE \E b \in Barbers : BarberStep(b)
  BY <1>2, BarberTypes, BarberSums, BarberString DEF IInv
<1>3. CASE UNCHANGED vars
  BY <1>3 DEF IInv, TypeOK, Sums, PlacesCounted, HaircutsCounted, PushersCounted,
              StringBounded, Bound, Inside, Pushing, Pushed, Waiting, Busy, Cutting,
              At, vars
<1> QED BY <1>1, <1>2, <1>3 DEF Next

-----------------------------------------------------------------------------
(* The sums, and the bound of the string, hold in every behaviour, with    *)
(* any number of interrupted semops (utils.c:92-97).                       *)
THEOREM Invariance == Spec => []IInv
<1> QED BY InitIInv, NextIInv, PTL DEF Spec

(* The types, with the offsets queue_push and queue_pop measure in the     *)
(* segment: strlen always finds a byte 0 (queue.c:13, 22).                 *)
THEOREM TypeCorrect == Spec => []TypeOK
<1>1. IInv => TypeOK
  BY DEF IInv
<1> QED BY <1>1, Invariance, PTL

(* The four semaphores pass every place on exactly once, and there is one  *)
(* more for each failure of aquire(sem_queue) and aquire(sem_barbers)      *)
(* (client.c:35-43, barber.c:32-40, utils.c:92-97).                        *)
THEOREM Places == Spec => []PlacesCounted
<1>1. IInv => PlacesCounted
  BY DEF IInv, Sums
<1> QED BY <1>1, Invariance, PTL

(* There is never a client without a call, a barber or a finished haircut  *)
(* to end its wait, and each haircut too many is of an aquire that failed  *)
(* (client.c:42-43, barber.c:32-39, utils.c:92-97).                        *)
THEOREM Owed == Spec => []HaircutsCounted
<1>1. IInv => HaircutsCounted
  BY DEF IInv, Sums
<1> QED BY <1>1, Invariance, PTL

(* buffer_mutex keeps the pushes apart, except that from each failure of   *)
(* its aquire on one more client pushes at a time (client.c:36-40).        *)
THEOREM PushersFew == Spec => [](Cardinality(Pushing) <= 1 + missed["buffer_mutex"])
<1>1. IInv => Cardinality(Pushing) <= 1 + missed["buffer_mutex"]
  <2> SUFFICES ASSUME IInv PROVE Cardinality(Pushing) <= 1 + missed["buffer_mutex"]
    OBVIOUS
  <2>1. Pushing \in SUBSET Clients
    BY DEF Pushing, At
  <2>2. Cardinality(Pushing) \in Nat
    BY <2>1, ProcessAssumption, FS_Subset, FS_CardinalityType
  <2>3. sem["buffer_mutex"] \in Nat /\ missed["buffer_mutex"] \in Nat
    BY SizeAssumption DEF IInv, TypeOK, Semaphores
  <2> QED BY <2>2, <2>3 DEF IInv, Sums, PushersCounted
<1> QED BY <1>1, Invariance, PTL

(* No store of queue_push, no load of memcpy and no strlen leaves the      *)
(* segment, whatever pushes and pops overlap (queue.c:13, 22-24).          *)
THEOREM NoOverrun == Spec => []InsideSegment
<1>1. IInv => InsideSegment
  <2> SUFFICES ASSUME IInv PROVE InsideSegment
    OBVIOUS
  <2>1. /\ TypeOK /\ StringBounded /\ Bound \in Nat
        /\ \A i \in 0..(Bound + 1) : i \in Offsets
    BY BoundType DEF IInv
  <2>2. \A i \in Offsets : i >= LEFTOVER + Cardinality(Pushed) => queue[i] = NUL
    BY <2>1 DEF StringBounded, Bound
  <2>3. \A c \in Clients : pc[c] \in {"writing", "ending"} => size[c] + 1 \in Offsets
    <3> SUFFICES ASSUME NEW c \in Clients, pc[c] \in {"writing", "ending"}
                 PROVE  size[c] + 1 \in Offsets
      OBVIOUS
    <3>1. size[c] \in Nat
      BY <2>1 DEF TypeOK, Offsets
    <3>2. size[c] <= Bound
      BY <2>1, <3>1 DEF StringBounded
    <3> QED BY <2>1, <3>1, <3>2
  <2>4. \A b \in Barbers : length[b] \in Offsets
    BY <2>1 DEF TypeOK
  <2> QED BY <2>2, <2>3, <2>4 DEF InsideSegment
<1> QED BY <1>1, Invariance, PTL

-----------------------------------------------------------------------------
\* The counts of the abstract shop that no invariant names.
Clearing == At(Barbers, {"freeing"})
Done     == At(Clients, {"done"})

\* The abstract shop in terms of the counts and the semaphores.
Counts == <<Cardinality(Inside), sem["barbers"], Cardinality(Cutting),
            Cardinality(Clearing), sem["chairs"], Cardinality(Done),
            missed["queue"], missed["barbers"], missed["chairs"]>>

(* Two sets without a common member count separately.                      *)
LEMMA DisjointCount ==
  ASSUME NEW S, NEW T, IsFiniteSet(S), IsFiniteSet(T), S \cap T = {}
  PROVE  /\ IsFiniteSet(S \cup T)
         /\ Cardinality(S \cup T) = Cardinality(S) + Cardinality(T)
<1>1. /\ IsFiniteSet(S \cup T)
      /\ Cardinality(S \cup T)
           = Cardinality(S) + Cardinality(T) - Cardinality(S \cap T)
  BY FS_Union
<1>2. Cardinality(S \cap T) = 0
  BY FS_EmptySet
<1>3. Cardinality(S) \in Nat /\ Cardinality(T) \in Nat
  BY FS_CardinalityType
<1> QED BY <1>1, <1>2, <1>3

(* The counts are numbers, and a busy barber cuts or clears.               *)
LEMMA CountTypes ==
  ASSUME IInv
  PROVE  /\ \A L : /\ IsFiniteSet(At(Clients, L))
                   /\ Cardinality(At(Clients, L)) \in Nat
                   /\ IsFiniteSet(At(Barbers, L))
                   /\ Cardinality(At(Barbers, L)) \in Nat
         /\ Cardinality(Busy) = Cardinality(Cutting) + Cardinality(Clearing)
<1>1. ASSUME NEW L
      PROVE  /\ IsFiniteSet(At(Clients, L))
             /\ Cardinality(At(Clients, L)) \in Nat
             /\ IsFiniteSet(At(Barbers, L))
             /\ Cardinality(At(Barbers, L)) \in Nat
  <2>1. At(Clients, L) \in SUBSET Clients /\ At(Barbers, L) \in SUBSET Barbers
    BY DEF At
  <2> QED BY <2>1, ProcessAssumption, FS_Subset, FS_CardinalityType
<1>2. /\ IsFiniteSet(Cutting) /\ Cardinality(Cutting) \in Nat
      /\ IsFiniteSet(Clearing) /\ Cardinality(Clearing) \in Nat
  BY <1>1, Zenon DEF Cutting, Clearing
<1>3. Busy = Cutting \cup Clearing /\ Cutting \cap Clearing = {}
  BY DEF Busy, Cutting, Clearing, At, BarberLocations
<1>4. Cardinality(Busy) = Cardinality(Cutting) + Cardinality(Clearing)
  BY <1>2, <1>3, DisjointCount
<1> QED BY <1>1, <1>4

(* A client who arrives is not yet one of the clients inside, waiting or   *)
(* gone.                                                                   *)
LEMMA ArrivingUncounted ==
  ASSUME IInv, NEW c \in Clients, pc[c] = "arriving"
  PROVE  Cardinality(Inside) + Cardinality(Waiting) + Cardinality(Done)
           < Cardinality(Clients)
<1> DEFINE Others == Clients \ {c}
<1>1. /\ IsFiniteSet(Inside)  /\ Cardinality(Inside)  \in Nat
      /\ IsFiniteSet(Waiting) /\ Cardinality(Waiting) \in Nat
      /\ IsFiniteSet(Done)    /\ Cardinality(Done)    \in Nat
  BY CountTypes, Zenon DEF Inside, Waiting, Done
<1>2. /\ Inside \cap Waiting = {} /\ (Inside \cup Waiting) \cap Done = {}
      /\ (Inside \cup Waiting) \cup Done \in SUBSET Others
  BY DEF Inside, Waiting, Done, At
<1>3. Cardinality(Inside \cup Waiting) = Cardinality(Inside) + Cardinality(Waiting)
      /\ IsFiniteSet(Inside \cup Waiting)
  BY <1>1, <1>2, DisjointCount
<1>4. Cardinality((Inside \cup Waiting) \cup Done)
        = Cardinality(Inside) + Cardinality(Waiting) + Cardinality(Done)
  BY <1>1, <1>2, <1>3, DisjointCount
<1>5. IsFiniteSet(Others) /\ Cardinality(Others) = Cardinality(Clients) - 1
      /\ Cardinality(Clients) \in Nat
  BY ProcessAssumption, FS_RemoveElement, FS_CardinalityType
<1>6. Cardinality((Inside \cup Waiting) \cup Done) <= Cardinality(Others)
  BY <1>2, <1>5, FS_Subset
<1> QED BY <1>1, <1>4, <1>5, <1>6

(* A barber asleep is not one of the busy ones.                            *)
LEMMA AsleepUncounted ==
  ASSUME IInv, NEW b \in Barbers, pc[b] = "asleep"
  PROVE  Cardinality(Busy) < Cardinality(Barbers)
<1>1. Busy \in SUBSET (Barbers \ {b})
  BY DEF Busy, At
<1>2. /\ IsFiniteSet(Barbers \ {b})
      /\ Cardinality(Barbers \ {b}) = Cardinality(Barbers) - 1
      /\ Cardinality(Barbers) \in Nat
  BY ProcessAssumption, FS_RemoveElement, FS_CardinalityType
<1>3. Cardinality(Busy) <= Cardinality(Barbers \ {b}) /\ Cardinality(Busy) \in Nat
  BY <1>1, <1>2, FS_Subset, FS_CardinalityType
<1> QED BY <1>2, <1>3

(* What a move of a process does to the counts of the abstract shop.       *)
LEMMA ClientMoves ==
  ASSUME IInv, NEW c \in Clients, NEW from, NEW to, Move(c, from, to)
  PROVE  /\ Cardinality(Cutting')  = Cardinality(Cutting)
         /\ Cardinality(Clearing') = Cardinality(Clearing)
         /\ Cardinality(Done') = Cardinality(Done)
              + ((IF to = "done" THEN 1 ELSE 0) - (IF from = "done" THEN 1 ELSE 0))
<1>1. TypeOK /\ c \in Processes /\ c \notin Barbers
  BY ProcessAssumption DEF Processes, IInv
<1>2. /\ Gain(c, from, to, Barbers, {"freeing"}) = 0
      /\ Gain(c, from, to, Clients, {"done"})
           = (IF to = "done" THEN 1 ELSE 0) - (IF from = "done" THEN 1 ELSE 0)
  BY <1>1 DEF Gain
<1>3. Cardinality(Cutting') = Cardinality(Cutting)
  BY <1>1, ClientCounts
<1>4. Cardinality(Clearing) \in Nat
      /\ Cardinality(Clearing') = Cardinality(Clearing) + 0
  BY <1>1, <1>2, MoveCounts DEF Clearing
<1>5. Cardinality(Done') = Cardinality(Done) + Gain(c, from, to, Clients, {"done"})
  BY <1>1, MoveCounts DEF Done
<1> QED BY <1>2, <1>3, <1>4, <1>5

LEMMA BarberMoves ==
  ASSUME IInv, NEW b \in Barbers, NEW from, NEW to, Move(b, from, to)
  PROVE  /\ Cardinality(Inside') = Cardinality(Inside)
         /\ Cardinality(Done')   = Cardinality(Done)
         /\ Cardinality(Clearing') = Cardinality(Clearing)
              + ((IF to = "freeing" THEN 1 ELSE 0)
                   - (IF from = "freeing" THEN 1 ELSE 0))
<1>1. TypeOK /\ b \in Processes /\ b \notin Clients
  BY ProcessAssumption DEF Processes, IInv
<1>2. /\ Gain(b, from, to, Clients, {"done"}) = 0
      /\ Gain(b, from, to, Barbers, {"freeing"})
           = (IF to = "freeing" THEN 1 ELSE 0) - (IF from = "freeing" THEN 1 ELSE 0)
  BY <1>1 DEF Gain
<1>3. Cardinality(Inside') = Cardinality(Inside)
  BY <1>1, BarberCounts
<1>4. Cardinality(Done) \in Nat /\ Cardinality(Done') = Cardinality(Done) + 0
  BY <1>1, <1>2, MoveCounts DEF Done
<1>5. Cardinality(Clearing')
        = Cardinality(Clearing) + Gain(b, from, to, Barbers, {"freeing"})
  BY <1>1, MoveCounts DEF Clearing
<1> QED BY <1>2, <1>3, <1>4, <1>5

-----------------------------------------------------------------------------
\* What the abstract shop is made of has the types it needs.
RefinementTypes ==
  /\ sem \in [Semaphores -> Nat] /\ missed \in [Semaphores -> Nat]
  /\ \A s \in {"queue", "chairs", "barbers", "buffer_mutex"} : s \in Semaphores
  /\ Cardinality(Inside) \in Nat /\ Cardinality(Waiting) \in Nat
  /\ Cardinality(Cutting) \in Nat /\ Cardinality(Clearing) \in Nat
  /\ Cardinality(Done) \in Nat /\ Cardinality(Busy) \in Nat
  /\ Cardinality(Busy) = Cardinality(Cutting) + Cardinality(Clearing)

(* The abstract shop's free places and waiting clients are those of the    *)
(* semaphores.                                                             *)
LEMMA AbstractCounts ==
  ASSUME IInv
  PROVE  /\ RefinementTypes
         /\ Problem!Free = sem["queue"]
         /\ Problem!Waiting = Cardinality(Waiting)
<1>1. /\ Cardinality(Inside) \in Nat /\ Cardinality(Waiting) \in Nat
      /\ Cardinality(Cutting) \in Nat /\ Cardinality(Clearing) \in Nat
      /\ Cardinality(Done) \in Nat /\ Cardinality(Busy) \in Nat
  BY CountTypes, Zenon DEF Inside, Cutting, Clearing, Done, Waiting, Busy
<1>2. RefinementTypes
  BY <1>1, CountTypes, SizeAssumption DEF IInv, TypeOK, RefinementTypes, Semaphores
<1>3. PlacesCounted /\ HaircutsCounted
  BY DEF IInv, Sums
<1>4. Problem!Free = sem["queue"]
  <2>1. /\ sem["queue"] \in Nat /\ sem["barbers"] \in Nat
        /\ missed["queue"] \in Nat /\ missed["barbers"] \in Nat
    BY <1>2 DEF RefinementTypes
  <2>2. sem["queue"] + Cardinality(Inside) + sem["barbers"]
          + (Cardinality(Cutting) + Cardinality(Clearing))
            = CHAIR_TOTAL + missed["queue"] + missed["barbers"]
    BY <1>2, <1>3 DEF RefinementTypes, PlacesCounted
  <2>3. (CHAIR_TOTAL + missed["queue"] + missed["barbers"])
          - (Cardinality(Inside) + sem["barbers"] + Cardinality(Cutting)
               + Cardinality(Clearing)) = sem["queue"]
    BY <1>1, <2>1, <2>2, SizeAssumption
  <2> QED BY <2>3, Zenon DEF Problem!Free, Clearing
<1>5. Problem!Waiting = Cardinality(Waiting)
  <2>1. /\ sem["chairs"] \in Nat /\ sem["barbers"] \in Nat
        /\ missed["chairs"] \in Nat /\ missed["barbers"] \in Nat
    BY <1>2 DEF RefinementTypes
  <2>2. (sem["barbers"] + Cardinality(Cutting) + sem["chairs"])
          - (missed["barbers"] + missed["chairs"]) = Cardinality(Waiting)
    BY <1>1, <1>3, <2>1 DEF HaircutsCounted
  <2> QED BY <2>2, Zenon DEF Problem!Waiting
<1> QED BY <1>2, <1>4, <1>5

(* A step of a client enters, calls, leaves or is not seen.                *)
LEMMA ClientRefines ==
  ASSUME IInv, NEW c \in Clients, ClientStep(c)
  PROVE  Problem!Enter \/ Problem!Call \/ Problem!Leave \/ UNCHANGED Counts
<1> USE DEF Counts
<1>0. /\ TypeOK /\ RefinementTypes
      /\ Problem!Free = sem["queue"] /\ Problem!Waiting = Cardinality(Waiting)
  BY AbstractCounts DEF IInv
<1>1. CASE ClientEnter(c)
  <2>1. Move(c, "arriving", "entering") /\ pc[c] = "arriving"
    BY <1>1 DEF ClientEnter, Move
  <2>2. Cardinality(Inside') = Cardinality(Inside) + 1
    BY <1>0, <2>1, ClientCounts DEF RefinementTypes
  <2>3. \/ Problem!Free > 0 /\ missed'["queue"] = missed["queue"]
        \/ Problem!Free = 0 /\ missed'["queue"] = missed["queue"] + 1
    BY <1>0, <1>1 DEF ClientEnter, aquire, RefinementTypes
  <2>4. Cardinality(Inside) + Problem!Waiting + Cardinality(Done) < Cardinality(Clients)
    BY <1>0, <2>1, ArrivingUncounted
  <2>5. Cardinality(Done') = Cardinality(Done)
        /\ Cardinality(Cutting') = Cardinality(Cutting)
        /\ Cardinality(Clearing') = Cardinality(Clearing)
    BY <1>0, <2>1, ClientMoves DEF RefinementTypes
  <2>6. /\ sem'["barbers"] = sem["barbers"] /\ sem'["chairs"] = sem["chairs"]
        /\ missed'["barbers"] = missed["barbers"] /\ missed'["chairs"] = missed["chairs"]
    BY <1>0, <1>1 DEF ClientEnter, aquire, RefinementTypes
  <2>7. Problem!Enter
    BY <2>2, <2>3, <2>4, <2>5, <2>6 DEF Problem!Enter, Problem!done, Clearing, Done
  <2> QED BY <2>7
<1>2. CASE ClientCall(c)
  <2>1. /\ Move(c, "calling", "waiting") /\ sem' = [sem EXCEPT !["barbers"] = @ + 1]
        /\ missed' = missed
    BY <1>2 DEF ClientCall, release
  <2>2. Cardinality(Inside') = Cardinality(Inside) - 1
        /\ Cardinality(Inside') \in Nat
    <3>1. Inside' \in SUBSET Clients
      BY DEF Inside, At
    <3>2. Cardinality(Inside') \in Nat
      BY <3>1, ProcessAssumption, FS_Subset, FS_CardinalityType
    <3> QED BY <1>0, <2>1, <3>2, ClientCounts DEF RefinementTypes
  <2>3. Cardinality(Done') = Cardinality(Done)
        /\ Cardinality(Cutting') = Cardinality(Cutting)
        /\ Cardinality(Clearing') = Cardinality(Clearing)
    BY <1>0, <2>1, ClientMoves DEF RefinementTypes
  <2>4. sem'["barbers"] = sem["barbers"] + 1 /\ sem'["chairs"] = sem["chairs"]
    BY <1>0, <2>1 DEF RefinementTypes
  <2>5. Problem!Call
    BY <1>0, <2>1, <2>2, <2>3, <2>4
    DEF Problem!Call, Problem!done, Problem!count, Clearing, Done, RefinementTypes
  <2> QED BY <2>5
<1>3. CASE ClientDone(c)
  <2>1. Move(c, "waiting", "done") /\ pc[c] = "waiting"
    BY <1>3 DEF ClientDone, Move
  <2>2. Cardinality(Inside') = Cardinality(Inside)
    BY <1>0, <2>1, ClientCounts DEF RefinementTypes
  <2>3. Cardinality(Done') = Cardinality(Done) + 1
        /\ Cardinality(Cutting') = Cardinality(Cutting)
        /\ Cardinality(Clearing') = Cardinality(Clearing)
    BY <1>0, <2>1, ClientMoves DEF RefinementTypes
  <2>4. /\ sem'["barbers"] = sem["barbers"]
        /\ missed'["barbers"] = missed["barbers"] /\ missed'["queue"] = missed["queue"]
        /\ \/ /\ sem["chairs"] > 0 /\ sem'["chairs"] = sem["chairs"] - 1
              /\ missed'["chairs"] = missed["chairs"]
           \/ /\ sem["chairs"] = 0 /\ sem'["chairs"] = sem["chairs"]
              /\ missed'["chairs"] = missed["chairs"] + 1
    BY <1>0, <1>3 DEF ClientDone, aquire, RefinementTypes
  <2>5. Problem!Waiting > 0
    <3>1. c \in Waiting /\ IsFiniteSet(Waiting)
      BY <2>1, CountTypes, Zenon DEF Waiting, At
    <3>2. Cardinality(Waiting) # 0
      BY <3>1, FS_EmptySet
    <3> QED BY <1>0, <3>2 DEF RefinementTypes
  <2>6. Problem!Leave
    BY <2>2, <2>3, <2>4, <2>5 DEF Problem!Leave, Problem!room, Clearing, Done
  <2> QED BY <2>6
<1>4. CASE \/ ClientLock(c) \/ PushCheck(c) \/ PushMeasure(c) \/ PushWrite(c)
           \/ PushEnd(c) \/ ClientUnlock(c)
  <2>1. /\ \/ Move(c, "entering", "pushing")  \/ Move(c, "pushing", "unlocking")
           \/ Move(c, "pushing", "measuring") \/ Move(c, "measuring", "writing")
           \/ Move(c, "writing", "ending")    \/ Move(c, "ending", "unlocking")
           \/ Move(c, "unlocking", "calling")
        /\ sem'["barbers"] = sem["barbers"] /\ sem'["chairs"] = sem["chairs"]
        /\ missed'["queue"] = missed["queue"]
        /\ missed'["barbers"] = missed["barbers"] /\ missed'["chairs"] = missed["chairs"]
    BY <1>0, <1>4 DEF ClientLock, PushCheck, PushMeasure, PushWrite, PushEnd,
                      ClientUnlock, aquire, release, Units, RefinementTypes
  <2>2. Cardinality(Inside') = Cardinality(Inside)
    BY <1>0, <2>1, ClientCounts DEF RefinementTypes
  <2>3. Cardinality(Done') = Cardinality(Done)
        /\ Cardinality(Cutting') = Cardinality(Cutting)
        /\ Cardinality(Clearing') = Cardinality(Clearing)
    BY <1>0, <2>1, ClientMoves DEF RefinementTypes
  <2> QED BY <2>1, <2>2, <2>3
<1> QED BY <1>1, <1>2, <1>3, <1>4 DEF ClientStep

(* A step of a barber answers, finishes, clears or is not seen.            *)
LEMMA BarberRefines ==
  ASSUME IInv, NEW b \in Barbers, BarberStep(b)
  PROVE  Problem!Answer \/ Problem!Finish \/ Problem!Clear \/ UNCHANGED Counts
<1> USE DEF Counts, BarberLocations
<1>0. /\ TypeOK /\ RefinementTypes
      /\ Cardinality(Cutting') \in Nat /\ Cardinality(Clearing') \in Nat
  <2>1. Cutting' \in SUBSET Barbers /\ Clearing' \in SUBSET Barbers
    BY DEF Cutting, Clearing, At
  <2>2. Cardinality(Cutting') \in Nat /\ Cardinality(Clearing') \in Nat
    BY <2>1, ProcessAssumption, FS_Subset, FS_CardinalityType
  <2> QED BY <2>2, AbstractCounts DEF IInv
<1>1. CASE BarberWake(b)
  <2>1. Move(b, "asleep", "checking") /\ pc[b] = "asleep"
    BY <1>1 DEF BarberWake, Move
  <2>2. Cardinality(Cutting') = Cardinality(Cutting) + 1
    BY <1>0, <2>1, BarberCounts DEF RefinementTypes
  <2>3. Cardinality(Cutting) + Cardinality(Clearing) < Cardinality(Barbers)
    BY <1>0, <2>1, AsleepUncounted DEF RefinementTypes
  <2>4. Cardinality(Inside') = Cardinality(Inside)
        /\ Cardinality(Done') = Cardinality(Done)
        /\ Cardinality(Clearing') = Cardinality(Clearing)
    BY <1>0, <2>1, BarberMoves DEF RefinementTypes
  <2>5. /\ sem'["chairs"] = sem["chairs"]
        /\ missed'["queue"] = missed["queue"] /\ missed'["chairs"] = missed["chairs"]
        /\ \/ /\ sem["barbers"] > 0 /\ sem'["barbers"] = sem["barbers"] - 1
              /\ missed'["barbers"] = missed["barbers"]
           \/ /\ sem["barbers"] = 0 /\ sem'["barbers"] = sem["barbers"]
              /\ missed'["barbers"] = missed["barbers"] + 1
    BY <1>0, <1>1 DEF BarberWake, aquire, RefinementTypes
  <2>6. Problem!Answer
    BY <2>2, <2>3, <2>4, <2>5 DEF Problem!Answer, Problem!done, Clearing, Done
  <2> QED BY <2>6
<1>2. CASE BarberReleaseChair(b)
  <2>1. /\ Move(b, "cutting", "freeing") /\ sem' = [sem EXCEPT !["chairs"] = @ + 1]
        /\ missed' = missed
    BY <1>2 DEF BarberReleaseChair, release
  <2>2. Cardinality(Cutting') = Cardinality(Cutting) - 1
    BY <1>0, <2>1, BarberCounts DEF RefinementTypes
  <2>3. Cardinality(Inside') = Cardinality(Inside)
        /\ Cardinality(Done') = Cardinality(Done)
        /\ Cardinality(Clearing') = Cardinality(Clearing) + 1
    BY <1>0, <2>1, BarberMoves DEF RefinementTypes
  <2>4. sem'["barbers"] = sem["barbers"] /\ sem'["chairs"] = sem["chairs"] + 1
    BY <1>0, <2>1 DEF RefinementTypes
  <2>5. Problem!Finish
    BY <1>0, <2>1, <2>2, <2>3, <2>4
    DEF Problem!Finish, Problem!count, Clearing, Done, RefinementTypes
  <2> QED BY <2>5
<1>3. CASE BarberReleaseQueue(b)
  <2>1. /\ Move(b, "freeing", "asleep") /\ sem' = [sem EXCEPT !["queue"] = @ + 1]
        /\ missed' = missed
    BY <1>3 DEF BarberReleaseQueue, release
  <2>2. Cardinality(Cutting') = Cardinality(Cutting)
    BY <1>0, <2>1, BarberCounts DEF RefinementTypes
  <2>3. Cardinality(Inside') = Cardinality(Inside)
        /\ Cardinality(Done') = Cardinality(Done)
        /\ Cardinality(Clearing') = Cardinality(Clearing) - 1
    BY <1>0, <2>1, BarberMoves DEF RefinementTypes
  <2>4. sem'["barbers"] = sem["barbers"] /\ sem'["chairs"] = sem["chairs"]
    BY <1>0, <2>1 DEF RefinementTypes
  <2>5. Problem!Clear
    BY <1>0, <2>1, <2>2, <2>3, <2>4
    DEF Problem!Clear, Problem!done, Problem!count, Clearing, Done, RefinementTypes
  <2> QED BY <2>5
<1>4. CASE \/ PopEmpty(b) \/ PopCheck(b) \/ PopTake(b)
           \/ PopMeasure(b) \/ PopLoad(b) \/ PopStore(b)
  <2>1. /\ \/ Move(b, "checking", "cutting") \/ Move(b, "checking", "taking")
           \/ Move(b, "taking", "shifting")  \/ Move(b, "shifting", "loading")
           \/ Move(b, "loading", "storing")  \/ Move(b, "storing", "cutting")
        /\ sem' = sem /\ missed' = missed
    BY <1>4 DEF PopEmpty, PopCheck, PopTake, PopMeasure, PopLoad, PopStore, Units
  <2>2. Cardinality(Cutting') = Cardinality(Cutting)
    BY <1>0, <2>1, BarberCounts DEF RefinementTypes
  <2>3. Cardinality(Inside') = Cardinality(Inside)
        /\ Cardinality(Done') = Cardinality(Done)
        /\ Cardinality(Clearing') = Cardinality(Clearing)
    BY <1>0, <2>1, BarberMoves DEF RefinementTypes
  <2> QED BY <2>1, <2>2, <2>3
<1> QED BY <1>1, <1>2, <1>3, <1>4 DEF BarberStep

(* Every step of the processes is a step of the abstract shop or a stutter. *)
LEMMA StepRefines == IInv /\ [Next]_vars => [Problem!Next]_(Problem!vars)
<1> SUFFICES ASSUME IInv, [Next]_vars PROVE [Problem!Next]_(Problem!vars)
  OBVIOUS
<1>1. UNCHANGED Counts => UNCHANGED Problem!vars
  BY DEF Counts, Problem!vars, Problem!room, Problem!done, Problem!count, Clearing, Done
<1>2. CASE \E c \in Clients : ClientStep(c)
  BY <1>1, <1>2, ClientRefines DEF Problem!Next
<1>3. CASE \E b \in Barbers : BarberStep(b)
  BY <1>1, <1>3, BarberRefines DEF Problem!Next
<1>4. CASE UNCHANGED vars
  BY <1>4 DEF vars, Problem!vars, Problem!room, Problem!done, Problem!count, Inside,
              Cutting, At
<1> QED BY <1>2, <1>3, <1>4 DEF Next

(* The processes implement ShopProblem, each failure of aquire being one   *)
(* of its interrupted waits (client.c:35-43, barber.c:32-40,               *)
(* utils.c:92-97).                                                         *)
THEOREM Implements == Spec => ImplementsShop
<1>1. Init => Problem!Init
  <2> SUFFICES ASSUME Init PROVE Problem!Init
    OBVIOUS
  <2>1. /\ Inside = {} /\ Cutting = {}
        /\ At(Barbers, {"freeing"}) = {} /\ At(Clients, {"done"}) = {}
    BY ProcessAssumption DEF Init, Processes, At, Inside, Cutting
  <2>2. /\ sem["barbers"] = 0 /\ sem["chairs"] = 0
        /\ missed["queue"] = 0 /\ missed["barbers"] = 0 /\ missed["chairs"] = 0
    BY DEF Init, Semaphores
  <2> QED BY <2>1, <2>2, FS_EmptySet DEF Problem!Init
<1> QED
  BY <1>1, StepRefines, Invariance, PTL
  DEF Spec, ImplementsShop, Problem!Spec

=============================================================================
