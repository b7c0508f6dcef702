----------------------------- MODULE BarberShop -----------------------------
(***************************************************************************)
(* lab7/zad1/v1: barbers and clients as processes that share a string of   *)
(* haircuts in a System V segment and four System V semaphores.            *)
(*                                                                         *)
(* Clients push under buffer_mutex; barbers pop with no lock at all, so    *)
(* pushes and pops are taken apart into their reads and writes of the      *)
(* segment.  memcpy is called on overlapping bytes; it is modelled as the  *)
(* build executes it for so few: the source is loaded, then stored.        *)
(*                                                                         *)
(* random_haircut returns a byte; the byte of a client is the client       *)
(* itself, to tell haircuts apart, or the byte 0, which ends the string.   *)
(* The segment may have served an earlier run, which never removes it.     *)
(*                                                                         *)
(* A semop that sleeps fails when its process is stopped and continued.    *)
(* aquire prints that and returns, and the process goes on without the     *)
(* unit.  The history variable missed counts these failures.               *)
(*                                                                         *)
(* printf, usleep and the test of queue_empty that only decides how long   *)
(* a barber sleeps are left out.  No second simulation is started while    *)
(* one runs: it would remove the semaphores.                               *)
(***************************************************************************)
EXTENDS Integers, FiniteSets

CONSTANTS
  Clients,     \* CUSTOMERS_TOTAL client processes
  Barbers,     \* BARBER_TOTAL barber processes
  NUL,         \* the byte 0
  CHAIR_TOTAL, \* the initial value of sem_queue
  BUFFER_SIZE, \* the size of the shared segment
  LEFTOVER,    \* the bytes of it that earlier runs have used
  MAX_MISSED   \* so many semops fail (bound)

Processes == Clients \cup Barbers
Bytes     == Clients \cup {NUL}
Offsets   == 0..(BUFFER_SIZE - 1)

Semaphores == {"queue", "chairs", "barbers", "buffer_mutex"}

ASSUME ProcessAssumption ==
  /\ IsFiniteSet(Clients) /\ IsFiniteSet(Barbers)
  /\ Clients \cap Barbers = {}
  /\ NUL \notin Clients

\* 8 clients and 1024 bytes in the code.
ASSUME SizeAssumption ==
  /\ CHAIR_TOTAL \in Nat /\ BUFFER_SIZE \in Nat
  /\ LEFTOVER \in Nat /\ MAX_MISSED \in Nat
  /\ LEFTOVER + Cardinality(Clients) + 2 <= BUFFER_SIZE

VARIABLES
  sem,     \* the semaphores sem_queue, sem_chairs, sem_barbers, buffer_mutex
  missed,  \* history: the failures of aquire on each of them
  queue,   \* the shared segment
  pc,      \* where each process is
  size,    \* queue_push's local of each client
  haircut, \* the byte each barber has taken
  length,  \* each barber's strlen(queue) + 1, the argument of memcpy
  chunk    \* the bytes each barber's memcpy has loaded, by target offset

vars == <<sem, missed, queue, pc, size, haircut, length, chunk>>

\* The number of bytes before the first NUL.
strlen(q) == Cardinality({i \in Offsets : \A j \in 0..i : q[j] # NUL})

queue_full  == strlen(queue) + 1 = BUFFER_SIZE
queue_empty == strlen(queue) = 0

(***************************************************************************)
(* A client arrives, waits for its turn with the mutex ("entering"),       *)
(* pushes ("pushing", "measuring", "writing", "ending", "unlocking"),      *)
(* wakes a barber ("calling"), waits for sem_chairs ("waiting") and is     *)
(* "done".  A barber is "asleep", pops ("checking", "taking", "shifting",  *)
(* "loading", "storing"), is "cutting", and gives back ("freeing") a place.*)
(***************************************************************************)
ClientLocations ==
  {"arriving", "entering", "pushing", "measuring", "writing", "ending",
   "unlocking", "calling", "waiting", "done"}

BarberLocations ==
  {"asleep", "checking", "taking", "shifting", "loading", "storing",
   "cutting", "freeing"}

Move(p, from, to) ==
  /\ pc[p] = from
  /\ pc' = [pc EXCEPT ![p] = to]

\* The unit is taken, or the call fails in its sleep (EINTR).
aquire(s) ==
  \/ /\ sem[s] > 0
     /\ sem' = [sem EXCEPT ![s] = @ - 1]
     /\ UNCHANGED missed
  \/ /\ sem[s] = 0
     /\ missed["queue"] + missed["chairs"] + missed["barbers"]
          + missed["buffer_mutex"] < MAX_MISSED
     /\ missed' = [missed EXCEPT ![s] = @ + 1]
     /\ UNCHANGED sem

release(s) ==
  /\ sem' = [sem EXCEPT ![s] = @ + 1]
  /\ UNCHANGED missed

Units    == <<sem, missed>>
Memory   == <<queue, size, haircut, length, chunk>>

-----------------------------------------------------------------------------
(* client.c *)

ClientEnter(c) ==
  /\ Move(c, "arriving", "entering")
  /\ aquire("queue")
  /\ UNCHANGED Memory

ClientLock(c) ==
  /\ Move(c, "entering", "pushing")
  /\ aquire("buffer_mutex")
  /\ UNCHANGED Memory

\* queue_push measures the string twice: is it full,
PushCheck(c) ==
  /\ Move(c, "pushing", IF queue_full THEN "unlocking" ELSE "measuring")
  /\ UNCHANGED <<Units, Memory>>

\* and where does it end?
PushMeasure(c) ==
  /\ Move(c, "measuring", "writing")
  /\ size' = [size EXCEPT ![c] = strlen(queue)]
  /\ UNCHANGED <<Units, queue, haircut, length, chunk>>

PushWrite(c) ==
  /\ Move(c, "writing", "ending")
  /\ \E byte \in {c, NUL} : queue' = [queue EXCEPT ![size[c]] = byte]
  /\ UNCHANGED <<Units, size, haircut, length, chunk>>

PushEnd(c) ==
  /\ Move(c, "ending", "unlocking")
  /\ queue' = [queue EXCEPT ![size[c] + 1] = NUL]
  /\ size' = [size EXCEPT ![c] = 0]
  /\ UNCHANGED <<Units, haircut, length, chunk>>

ClientUnlock(c) ==
  /\ Move(c, "unlocking", "calling")
  /\ release("buffer_mutex")
  /\ UNCHANGED Memory

ClientCall(c) ==
  /\ Move(c, "calling", "waiting")
  /\ release("barbers")
  /\ UNCHANGED Memory

\* Mutant: the client leaves without waiting for a haircut.
ClientDoneUncut(c) ==
  /\ Move(c, "waiting", "done")
  /\ UNCHANGED <<Units, Memory>>

ClientDone(c) ==
  /\ Move(c, "waiting", "done")
  /\ aquire("chairs")
  /\ UNCHANGED Memory

ClientStep(c) ==
  \/ ClientEnter(c) \/ ClientLock(c)
  \/ PushCheck(c) \/ PushMeasure(c) \/ PushWrite(c) \/ PushEnd(c)
  \/ ClientUnlock(c) \/ ClientCall(c) \/ ClientDone(c)

-----------------------------------------------------------------------------
(* barber.c *)

\* Mutant: the place in the queue is free as soon as the barber wakes up.
BarberWakeFreeing(b) ==
  /\ Move(b, "asleep", "checking")
  /\ sem.barbers > 0
  /\ sem' = [sem EXCEPT !.barbers = @ - 1, !.queue = @ + 1]
  /\ UNCHANGED <<missed, Memory>>

BarberWake(b) ==
  /\ Move(b, "asleep", "checking")
  /\ aquire("barbers")
  /\ UNCHANGED Memory

\* Mutant: a barber who finds no haircut goes back to sleep.
PopEmptySleeping(b) ==
  /\ queue_empty
  /\ Move(b, "checking", "asleep")
  /\ UNCHANGED <<Units, Memory>>

\* Mutant: queue_pop returns EOF for an empty queue.
PopEmptyEOF(b) ==
  /\ queue_empty
  /\ Move(b, "checking", "cutting")
  /\ haircut' = [haircut EXCEPT ![b] = -1]
  /\ UNCHANGED <<Units, queue, size, length, chunk>>

\* queue_pop returns the byte 0, and the barber cuts all the same.
PopEmpty(b) ==
  /\ queue_empty
  /\ Move(b, "checking", "cutting")
  /\ UNCHANGED <<Units, Memory>>

PopCheck(b) ==
  /\ ~queue_empty
  /\ Move(b, "checking", "taking")
  /\ UNCHANGED <<Units, Memory>>

PopTake(b) ==
  /\ Move(b, "taking", "shifting")
  /\ haircut' = [haircut EXCEPT ![b] = queue[0]]
  /\ UNCHANGED <<Units, queue, size, length, chunk>>

\* Mutant: the whole segment is moved, not the string in it.
PopMeasureAll(b) ==
  /\ Move(b, "shifting", "loading")
  /\ length' = [length EXCEPT ![b] = BUFFER_SIZE]
  /\ UNCHANGED <<Units, queue, size, haircut, chunk>>

PopMeasure(b) ==
  /\ Move(b, "shifting", "loading")
  /\ length' = [length EXCEPT ![b] = strlen(queue) + 1]
  /\ UNCHANGED <<Units, queue, size, haircut, chunk>>

PopLoad(b) ==
  /\ Move(b, "loading", "storing")
  /\ chunk' = [chunk EXCEPT ![b] =
                [i \in {j \in Offsets : j < length[b]} |-> queue[i + 1]]]
  /\ length' = [length EXCEPT ![b] = 0]
  /\ UNCHANGED <<Units, queue, size, haircut>>

PopStore(b) ==
  /\ Move(b, "storing", "cutting")
  /\ queue' = [i \in Offsets |-> IF i \in DOMAIN chunk[b] THEN chunk[b][i]
                                                         ELSE queue[i]]
  /\ chunk' = [chunk EXCEPT ![b] = [i \in {} |-> NUL]]
  /\ UNCHANGED <<Units, size, haircut, length>>

BarberReleaseChair(b) ==
  /\ Move(b, "cutting", "freeing")
  /\ release("chairs")
  /\ haircut' = [haircut EXCEPT ![b] = NUL]
  /\ UNCHANGED <<queue, size, length, chunk>>

BarberReleaseQueue(b) ==
  /\ Move(b, "freeing", "asleep")
  /\ release("queue")
  /\ UNCHANGED Memory

BarberStep(b) ==
  \/ BarberWake(b)
  \/ PopEmpty(b) \/ PopCheck(b) \/ PopTake(b)
  \/ PopMeasure(b) \/ PopLoad(b) \/ PopStore(b)
  \/ BarberReleaseChair(b) \/ BarberReleaseQueue(b)

-----------------------------------------------------------------------------
Chunks == UNION {[D -> Bytes] : D \in SUBSET Offsets}

TypeOK ==
  /\ sem \in [Semaphores -> Nat]
  /\ missed \in [Semaphores -> 0..MAX_MISSED]
  /\ queue \in [Offsets -> Bytes]
  /\ pc \in [Processes -> ClientLocations \cup BarberLocations]
  /\ \A c \in Clients : pc[c] \in ClientLocations
  /\ \A b \in Barbers : pc[b] \in BarberLocations
  /\ size \in [Clients -> Offsets]
  /\ haircut \in [Barbers -> Bytes]
  /\ length \in [Barbers -> Offsets]
  /\ chunk \in [Barbers -> Chunks]

\* main clears the first byte; what follows is as an earlier run left it.
Init ==
  /\ sem = [s \in Semaphores |->
              CASE s = "queue" -> CHAIR_TOTAL
                [] s = "buffer_mutex" -> 1
                [] OTHER -> 0]
  /\ missed = [s \in Semaphores |-> 0]
  /\ \E old \in [1..(LEFTOVER - 1) -> Bytes] :
       queue = [i \in Offsets |-> IF i \in DOMAIN old THEN old[i] ELSE NUL]
  /\ pc = [p \in Processes |-> IF p \in Clients THEN "arriving" ELSE "asleep"]
  /\ size = [c \in Clients |-> 0]
  /\ haircut = [b \in Barbers |-> NUL]
  /\ length = [b \in Barbers |-> 0]
  /\ chunk = [b \in Barbers |-> [i \in {} |-> NUL]]

Next ==
  \/ \E c \in Clients : ClientStep(c)
  \/ \E b \in Barbers : BarberStep(b)

(***************************************************************************)
(* The kernel schedules every process, and a process blocked in semop is   *)
(* in the queue of its semaphore, so it is served if the semaphore is      *)
(* raised often enough.  Nobody has to stop and continue a process.        *)
(***************************************************************************)
Fairness ==
  /\ \A c \in Clients : SF_vars(ClientStep(c) /\ UNCHANGED missed)
  /\ \A b \in Barbers : SF_vars(BarberStep(b) /\ UNCHANGED missed)

Spec == Init /\ [][Next]_vars

FairSpec == Spec /\ Fairness

-----------------------------------------------------------------------------
At(Procs, locations) == {p \in Procs : pc[p] \in locations}

Inside  == At(Clients, {"entering", "pushing", "measuring", "writing", "ending",
                        "unlocking", "calling"})
Pushed  == At(Clients, {"ending", "unlocking", "calling", "waiting", "done"})
Waiting == At(Clients, {"waiting"})
Cutting == At(Barbers, BarberLocations \ {"asleep", "freeing"})
Busy    == At(Barbers, BarberLocations \ {"asleep"})

(***************************************************************************)
(* A place in the queue is free, or with a client who has not called yet,  *)
(* or with a call nobody has answered, or with a busy barber: it is never  *)
(* lost, although four semaphores pass it on.  There is one more for each  *)
(* client that came in and each barber that went to work after an aquire   *)
(* that failed, and for no other reason.                                   *)
(***************************************************************************)
PlacesCounted ==
  sem["queue"] + Cardinality(Inside) + sem["barbers"] + Cardinality(Busy)
    = CHAIR_TOTAL + missed["queue"] + missed["barbers"]

(***************************************************************************)
(* For every client who waits there is a call nobody has answered, a       *)
(* barber at work or a haircut already finished: no wakeup is lost,        *)
(* whatever the pops find in the shared string.  Each haircut too many is  *)
(* of a barber who was not called or of a client who left without it,      *)
(* after an aquire that failed.                                            *)
(***************************************************************************)
HaircutsCounted ==
  sem["barbers"] + Cardinality(Cutting) + sem["chairs"]
    = Cardinality(Waiting) + missed["barbers"] + missed["chairs"]

(***************************************************************************)
(* queue_push, memcpy and strlen stay in the segment, which none of them   *)
(* checks, although pops go on during a push and, after an aquire of the   *)
(* mutex that failed, pushes do too: whatever order the bytes are stored   *)
(* in, the bytes in use grow by one with each push at most, and a byte 0   *)
(* follows them.                                                           *)
(***************************************************************************)
InsideSegment ==
  /\ \A i \in Offsets : i >= LEFTOVER + Cardinality(Pushed) => queue[i] = NUL
  /\ \A c \in Clients : pc[c] \in {"writing", "ending"} => size[c] + 1 \in Offsets
  /\ \A b \in Barbers : pc[b] = "loading" => length[b] \in Offsets

\* The shop without its semaphores and its string.
Problem == INSTANCE ShopProblem WITH
  PLACES   <- CHAIR_TOTAL,
  BARBERS  <- Cardinality(Barbers),
  CLIENTS  <- Cardinality(Clients),
  entered  <- Cardinality(Inside),
  called   <- sem["barbers"],
  cutting  <- Cardinality(Cutting),
  clearing <- Cardinality(At(Barbers, {"freeing"})),
  finished <- sem["chairs"],
  left     <- Cardinality(At(Clients, {"done"})),
  squeezed <- missed["queue"],
  uncalled <- missed["barbers"],
  uncut    <- missed["chairs"]

(***************************************************************************)
(* The processes implement the abstract shop: whatever the semaphores      *)
(* stand at and whatever the pops find, a client enters a full shop or     *)
(* leaves without a haircut of its own, and a barber cuts uncalled, only   *)
(* in a step that is counted as a failure, and one failure lets one        *)
(* process do so once.                                                     *)
(***************************************************************************)
ImplementsShop == Problem!Spec

(***************************************************************************)
(* However many semops fail, the shop empties: every client leaves, and    *)
(* then all barbers sleep on sem_barbers with nobody to wake them, so that *)
(* the wait() loop of simulation.c never ends.  By HaircutsCounted as many *)
(* finished haircuts are left over as aquires of a barber or of a haircut  *)
(* failed.                                                                 *)
(***************************************************************************)
ShopEmpties ==
  <>[](Busy = {} /\ sem["barbers"] = 0 /\ \A c \in Clients : pc[c] = "done")

(***************************************************************************)
(* lab_07_polecenie.txt:13 asks for "one client served by at most one      *)
(* barber": two barbers never cut the haircut of one client.               *)
(***************************************************************************)
OneBarberPerClient ==
  \A a, b \in Barbers :
    a # b /\ haircut[a] # NUL => haircut[a] # haircut[b]

=============================================================================
