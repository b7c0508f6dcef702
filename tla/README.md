# A TLA+ model of Operating-Systems-AGH-2022-2023

The repository holds the programs of an operating-systems course: one directory
per laboratory, C throughout, each program on its own.  What they have in common
is what the course is about: threads with mutexes and conditions, processes with
semaphores and shared memory, message queues, sockets, signals and pipes.  This
directory models those programs whose correctness depends on how their threads
and processes interleave, and the sequential ones that keep a state of their own.
TLC checks them on small instances.  For every value of the constants, TLAPS proves all of their
invariants, and for two of them that they implement an abstract specification.

## Inventory

| part | state | operations | interaction |
|---|---|---|---|
| `lab9/zad1` Santa | three monitors (mutex, condition, count) | the routines of elves, reindeer and Santa | condition signals |
| `lab7/zad1/v1` barber shop | a string of haircuts, four semaphores | push, pop, `aquire`, `release` | shared memory, semaphores |
| `lab7/zad1/v2` barber shop | three semaphores, `last_served` | client processes that serve themselves | shared memory, semaphores |
| `lab6/zad1` chat | the server's table and count, a queue per process | INNIT, LIST, 2ALL, 2ONE, STOP, SIGINT | message queues |
| `lab10/zad1` chat | the server's table, mutex, descriptors, epoll | connect, nickname, messages, ping, evict | sockets; two threads of the server |
| `lab8/zad01` Game of Life | two grids, a thread per cell | compute, swap, signal | `pthread_kill` and `pause` |
| `lab4/zad3` signals | the catcher's request and counter | command, acknowledgement | queued signals with a value |
| `lab4/zad1` | SIGUSR1's disposition, mask and pending state; stdout's buffer | install, block, raise, report, fork, exec | inheritance |
| `lab4/zad2` | the counters of the handler | raise, nested or following calls, change of flags | signals to itself |
| `lab5/zad2` | the points that split the interval, the open descriptors | pipe, fork, compute, read and add | a pipe per child |
| `lab5/zad3` | the named pipe, the passes of each process | fork, exec, compute, write, read, unlink | one FIFO for all |
| `lab5/zad1` | none | popen of `mail` and `sort` | pipes |
| `lab1` | a table of memory blocks | init, count, show, delete | none (a library and a command loop) |
| `lab2/zad1`, `lab2/zad2` | an input and an output file | replace, reverse, by bytes or by blocks | none |
| `lab2/zad3`, `lab2/zad4` | none | sum of sizes | none |
| `lab3` | none | fork and exec, search in directories | none |

What is hard in them, and what makes each correct:

* **Santa.** A signal that finds nobody waiting is lost; waits are not in loops;
  one signal releases one of several reindeer.  Only complete groups and herds
  may be served, nobody may be left behind, and the program should end.
* **Barber shop.** Barbers pop without the mutex that clients push under;
  `memcpy` runs on overlapping bytes while others write them; the semaphore a
  client waits for does not say whose haircut is finished; and a `semop` that fails in its
  sleep is taken for a success.  Places and haircuts may be lost or doubled only by such
  failures, one by each; the string must stay in its segment, and every client must leave.
* **Queue chat.** STOPs can be lost or come from clients that were refused, so
  the table and its count drift apart; sends block on full queues or meet queues
  that are gone; SIGINT may end the server in the middle of a handler.  A client must be
  refused only when the table is full, must learn its own slot, and must get an answer.
* **Socket chat.** A ping thread deletes slots whose events the main thread still
  has in its batch; slots and descriptors are reused; epoll is edge-triggered and
  each event is answered by one read; a mutex is kept in one error path.  No
  descriptor may leak, a slot may wait only for an answer that is due, and a
  client that is gone must be forgotten.
* **Game of Life.** A signal that comes before the `pause` is lost; threads that
  were signalled run ahead of the others; main draws while the threads compute.  The first
  signals follow the creation of the threads without a sleep, so some end a pause and
  others are lost.  What is drawn must be one generation, and no cell may be read while it
  is written: how far that holds depends on the first signals, not only on main's sleep.
* **Barber shop, version 2.** A semop fails when it is interrupted or when the
  semaphores are removed, and then the clients take other branches, with busy
  loops and units they give back without having taken them.  Barbers must be
  conserved, no chair may be lost, and clients must leave.
* **Signals.** A second pending signal is dropped, a confirmation that comes before
  `sigsuspend` is lost, and a command may overwrite one that was not acted on.  A
  sender must not run ahead, and must wait forever only after such a loss.
* **Inheritance of signals.** The handler is lost over exec while the signal is
  pending, and lines still in stdout's buffer are copied by fork and lost in exec.
  The signal must not end a process, and each raise should be reported.
* **Handler flags.** A handler that raises its own signal nests or not, by its flags;
  the depth it counts must be the real one and no call may be lost.
* **Integral with pipes.** Quotients of floating-point numbers are cut to integers; read
  ends stay open and `pipe` is not checked.  The parts may not overlap, and the sum
  must be of what the children computed.
* **Integral with a named pipe.** The parent reads when the children have ended, so they
  must fit in the pipe; a child whose `execl` fails goes on with its parent's loop, reads
  results and removes the pipe's name.  Each result should be added once.
* **lab1 and lab2.** Guards that are off by one, a block that is cleared before it is
  freed, flags of `open` combined by `||`, and loops over blocks with leftovers.

`PROJECT.json` lists every hazard with its line and the properties that would
catch it.

## Modules

| module | models | extends |
|---|---|---|
| `Santa` | `lab9/zad1/main.c` | |
| `SantaProblem` | the abstract problem: groups and herds that fill up and are served | |
| `SantaProofs` | theorems about `Santa` | `Santa` |
| `BarberShop` | `lab7/zad1/v1` | |
| `ShopProblem` | the abstract shop: places, calls, haircuts under way and finished | |
| `BarberShopProofs` | theorems about `BarberShop` | `BarberShop` |
| `QueueChat` | `lab6/zad1`, server and clients | |
| `QueueChatProofs` | theorems about `QueueChat` | `QueueChat` |
| `ChatServer` | `lab10/zad1`, both threads of the server, the kernel's part, the clients | |
| `ChatServerProofs` | theorems about `ChatServer` | `ChatServer` |
| `Life` | `lab8/zad01`, main and the thread of each cell | |
| `LifeProofs` | theorems about `Life` | `Life` |
| `SelfService` | `lab7/zad1/v2`, main and the clients it forks | |
| `SelfServiceProofs` | theorems about `SelfService` | `SelfService` |
| `Signals` | `lab4/zad3`, the catcher and several senders | |
| `SignalsProofs` | theorems about `Signals` | `Signals` |
| `Inheritance` | `lab4/zad1` | |
| `HandlerFlags` | `lab4/zad2` | |
| `PipeIntegral` | `lab5/zad2` | |
| `FifoIntegral` | `lab5/zad3`, the program and `calculate` | |
| `Files` | `lab2/zad1`, `lab2/zad2`, two programs each | |
| `MemoryBlocks` | `lab1`, the library and the command loop | |
| `MCSanta`, `MCBarberShop`, `MCQueueChat`, `MCChatServer`, `MCLife`, `MCSelfService` | instances for TLC | the module they name |
| `SmallPrograms` | the programs of `lab1`, `lab2`, `lab4` and `lab5` side by side | `Signals`, and INSTANCEs of the six above |
| `SmallProgramsProofs` | theorems about the six | `SmallPrograms`, `SignalsProofs` |
| `MCPrograms` | an instance for TLC | `SmallPrograms` |

**Santa.** A condition is the set of the threads blocked on it.  `pthread_cond_wait`
is the step that joins the set and frees the mutex, and a return that takes it back;
`pthread_cond_signal` removes any one member, or does nothing to an empty set.  POSIX's
spurious wakeups are an action.  The `sleep` that Santa takes with a mutex held is
the time between two steps.  The mutex of the `santa` monitor is left out, since only
Santa uses it.  `SantaProblem` is instantiated with the three counters.

**BarberShop.** The segment is a function from offsets to bytes, and a byte is the
client that pushed it, or NUL.  Each read and write of the segment that can be
interleaved is a step: the two `strlen` of a push (`PushCheck` and `PushMeasure`), its two
stores; the check of a pop, its load of the first byte, its `strlen`, and the load and store of `memcpy`,
which for so few bytes loads all before it stores.  `main` clears only the first byte of a
segment that an earlier run may have left, since no run gets as far as removing it; `Init`
has any bytes in the first `LEFTOVER` places behind it.

`sem[s]` is the value of a semaphore.  `aquire` takes a unit, or it fails while it would
sleep: Linux ends a sleeping `semop` with `EINTR` when a stopped process is continued, and
`utils.c:94-96` prints that and returns, so that the process goes on without the unit.  The
history variable `missed` counts these failures for each semaphore, and the properties say
what each one costs.  With a failure on `sem_queue` a client enters a full shop, on
`buffer_mutex` two clients push at once, on `sem_barbers` a barber cuts uncalled, and on
`sem_chairs` a client leaves uncut.

`ShopProblem` forgets the string and the semaphores: it counts clients on their way in,
calls, barbers who cut and who clear, haircuts nobody has left with, and clients gone, and
how often somebody whose wait was interrupted did not wait.  It is instantiated with the
numbers of processes at sets of locations, the values of two semaphores and `missed`.

**QueueChat.** A client stands for its queue.  A handler without a blocking send is one
step, except for that of INNIT: SIGINT may come between the store into the table
(`Accept`) and the send of SUCCES (`SendSucces`).  A send that may block is a step of its own, and each turn of the loops over
the table too.  A client that has sent LIST takes the next NEW_MESSAGE for its answer,
whatever it is, and no STOP.  The flag `1` in two calls of `msgsnd` is not `IPC_NOWAIT`, so these
block like the others.  A send to a removed queue fails; after `exit(1)` the server is
`"failed"`, after SIGINT it is `"exited"`.

**ChatServer.** The main thread handles one event of its batch at a time, in steps
that end where it reads a socket or takes the mutex; a section under the mutex is one
step, except for the ping thread's round, which holds it from `PingStart` to the last
`SlotDone`.  A stream is the sequence of the messages in it; a read across a nickname,
which has not the size of a message, leaves `"garbled"` ones.  `peer`, `watched`,
`ready` and `backlog` are the kernel's descriptors and epoll.  `misread` is a history
variable: it is only read by `AnswerOutstanding`.  The check of a nickname may end
either way, which covers every content of the table; a write to a connection whose
client is gone may end the process (SIGPIPE) or not (the first one on TCP).

**Life.** A thread is `"computing"`, `"computed"` but not yet in its `pause`, `"paused"` or
`"woken"`; main's loops over the cells, that of `draw_grid` among them, are one step per cell,
and `picture` holds the cells as they were drawn last.  A signal is delivered when it is sent.
`sa_flags` is not initialized, so each call of `game_of_life` may or may not install the
handler for one signal only; the second signal then ends the program.

Three history variables keep apart two things that the grids depend on.  `timely` is the
assumption of `lab_08_polecenie.txt:6`, that main's sleep is long enough: whenever a later
call begins to signal, all threads are in their pauses.  The first call signals the threads
right after it has created them, and no sleep decides what these signals meet: `greeted` is the set
of the threads whose pause such a signal has ended, and `settled` says that all threads were in
their pauses when the first one was sent.  With 900 threads usually some are greeted and
some are not.  A greeted thread is a generation ahead of the others for good.

A thread reads its neighbours and writes its cell in one step.  Where the two properties about
contents apply (`settled`), nothing is written while it is read; elsewhere the contents that a
race leaves are not all modelled, and the properties speak only of who reads and writes, which
the contents do not influence.

**SelfService.** A semop succeeds (`Got`) or fails (`Failed`): always once the semaphores
are removed, and before that only while it sleeps, since Linux ends a sleeping `semop`
with `EINTR` when a stopped process is continued.  Without such failures the branches
with the waiting room are dead code.  Each semaphore starts one above the program's
argument (`SETVAL` and then `free_sem`), so the shop has one barber and one chair more
than asked for.  SIGINT may reach main or a client, and each removes the semaphores for
all.  The read and the write of `last_served` are separate steps.

**Signals.** `pending` and `handling` are the kernel's pending SIGUSR1 of the catcher and
the one its handler runs for; a signal is delivered to a sender when the catcher sends
it.  A sender that starts before the catcher has installed its handler ends it.  `lost`
is a history variable.

**Inheritance.** A process is the parent (before and after exec) or the child of the fork.
A line is who printed it and what it says; `printf` writes it at once on a terminal and
else to the process's buffer, which fork copies, exec drops and exit writes.  The child
does not block the signal, since the code compares its pid with that of `main`.

**HandlerFlags.** `frames` is the stack of handler calls.  `Deliver` is the kernel's: with
`SA_NODEFER` a pending signal is delivered before the handler goes on, else when the stack
is empty.

**PipeIntegral.** Points are counted in blocks and a partial result is the set of blocks it
sums.  A quotient that is a whole number may come out one smaller, in `split_array` and in
the last test of `calculate`'s loop.  `pipe` fails when the descriptors run out, and the
uninitialized `fd` is then no descriptor or an earlier read end.

**FifoIntegral.** A process is the set of passes of the loop at which it and its ancestors
were forked; this names every process that failing `execl`s can make.  A result is the
number of its pass, the pipe a bounded sequence.  `width` is `"zero"` when the block width
vanishes in the six decimals it is passed with.

**Files.** A step opens the files, or is a pass of the program's loop, over a byte or a block,
or is what `reverse2` does with the bytes left over.  The output is the sequence of its bytes; `Garbage` is a byte of a buffer no read has filled.

**MemoryBlocks.** A command is a step.  A block is a number and holds the file counted into
it.  Uses of NULL end the process; reads out of bounds or of freed memory find NULL or
leave the rest of the behaviour `"undefined"`.

**SmallPrograms.** These programs share nothing.  Each behaviour runs one of them, while the
variables of the others stay at a state in which they have ended, so the run is the
union of seven independent ones, and a theorem about one of them needs nothing of the others.

## Runs

| run | instance | shows |
|---|---|---|
| `santa` | 3 elves in groups of 2, 3 reindeer, 2 deliveries | type, `GroupLeaderOnly`, `HerdNotStranded`, `EndsUnlessAllStranded`, `ImplementsProblem` |
| `santa_asleep` | the same | `SantaNotAsleepOnElves` fails: a signal sent while Santa is busy is lost |
| `barbershop` | 2 clients, 2 barbers, 1 chair, 2 failing `semop`s, 1 byte left over | type, `PlacesCounted`, `HaircutsCounted`, `InsideSegment`, `ImplementsShop`, `ShopEmpties` |
| `barber_twice` | 2 clients, 2 barbers, 2 chairs | `OneBarberPerClient` fails: two barbers pop the same byte |
| `queue_chat` | 4 clients, 2 slots, room for 2 and 1 messages | type, `RefusedOnlyWhenFull`, `AnswerComesFirst`, `SlotIsClientId`, `ListWillBeAnswered` |
| `queue_live` | 3 clients, 2 slots, room for 1 and 1 | `RequestsAnswered` |
| `socket_chat` | 2 clients, 2 slots, 1 chat message unread | type, `NoDescriptorLeak`, `AnswerOutstanding` |
| `socket_gone` | 2 clients, 1 slot | `GoneIsForgotten` |
| `life` | 2 x 2 cells | type, `ConflictsByGreeting`, `PicturesFollow` |
| `self_service` | 3 clients; arguments 1, 0, 0, so 2 barbers, 1 chair, 1 place | type, `BarbersConserved`, `ChairsNeverLost`, `EveryoneLeaves` |
| `programs` | `Signals`: 3 senders with 1 or 2 commands | type, `ConfirmedFirst`, `EndsUnlessLost`, `ClosesUnlessOvertaken` |
| | `PipeIntegral`: 6 units, blocks of 1, 2 or 4, up to 3 children, 3 descriptors | type, `BlocksCountedOnce` |
| | `FifoIntegral`: up to 3 parts, 2 failing `execl`s, room for 3 or 2 | type, `ResultsAddedOnce`, `EndsUnlessPipeFull` |
| | `Inheritance`: every command and function | type, `SurvivesSignal`, `ReportsRaises` |
| | `HandlerFlags`: 4 calls | type, `DepthIsNesting` |
| | `Files`: files of 0 to 8 bytes, blocks of 3 | type, `CopiesMatch` |
| | `MemoryBlocks`: tables of 1 or 2, 3 blocks | type, `BlocksOnlyLeak` |
| `socket_full` | 2 clients, 1 slot | `PingsContinue` fails: a refusal keeps the mutex |

**Bounds.** `santa`: one elf more than a group, so a second group forms while the first
leader still waits, and a second delivery, before which reindeer pile up; the source
has 10, 3, 9 and 3.  `barbershop`: fewer chairs than clients, so
that a client waits for a place and enters a full shop when that wait fails, and two
barbers, who pop at once, one of them uncalled.  `MAX_MISSED` bounds the failing `semop`s: two, at
any `aquire` of any processes, which can meet.  The segment of 6 bytes is longer than any
string that arises, as `SizeAssumption` says it is in the source: a run adds a byte per client at most
(`InsideSegment`), so with 8 clients and 1024 bytes that holds as long as the runs before have
used no more than 1014.  `queue_full` is never true then.  `queue_chat`: `MAX_CLIENTS` is 2 in the source too.  A third
client is refused; its STOP lowers the count, and then a fourth one is let in without a
slot, which three clients never reach.  Rooms of 1 and 2 messages make queues
full at once.  `queue_live` needs no client without a slot and has three.  `socket_chat` has
as many slots as clients, for events of slots that were reused; `socket_gone` has fewer, for the refusal.  The clients never leave more
chat messages unread than `StreamRoom`; answers and disconnects are not bounded by it.
`socket_gone` has none, and chats there come from uninitialized messages.  In
`queue_chat` and `socket_chat` clients are interchangeable and checked up to symmetry
(safety only).

`life`: with four threads there can be some that are greeted, some that are not and some
still to be signalled, and sleeps of every length; on two by two cells
cells are born, live on and die, and all are neighbours (`Neighbours` of larger boards is only in
the proofs).  All initial contents of both arrays are tried.  The
constraint `Timely` ends a behaviour when a sleep was too short: `ConflictsByGreeting` and `PicturesFollow`
say nothing of the rest, since `timely` never becomes true again, and `TypeOK` is proved of it.  `self_service`: with fewer
chairs than barbers and fewer barbers than clients, all three semaphores run out.

`programs`, by module.  `Signals`: with three senders a signal can be handled, another one
pending and a third one dropped; the scripts have a command before and after a close and
an unknown one.  `PipeIntegral`: a width that divides the interval and the parts, one that
divides only the interval, and one that does neither; three descriptors beside the standard
ones are too few for a third child.  `FifoIntegral`: three parts make children of children of
children; pipe and buffer are large enough, or the buffer is too small, or the pipe is.
`HandlerFlags`: `MAX_CALLS` is 4 in the source.  `Files`: with blocks of 3, inputs of up to 8
bytes have no, one and two whole blocks with every number of bytes left over; the source's
1024 differs in scale only.  `MemoryBlocks`: indices from -1 to one past the capacity, a
file that is missing, and one block more than the greatest table holds.

Deadlock is not checked where the program may stop for good: when clients have all
left, when all are blocked, or when the process has ended.

**Fairness.** `Santa`: strong fairness for Santa and the reindeer, weak for an elf: they
sleep for seconds between two uses of a mutex that is free again and again; no
assumption on spurious wakeups.  `BarberShop`: strong fairness for each process, since
the kernel keeps the processes that wait for a semaphore in a queue; nobody has to
interrupt a process, so only steps that do not fail are fair.  `QueueChat`: weak
for the server's polling loop, strong for each client, but not for typing a command
or pressing CTRL+C.  `ChatServer`: weak for the ping thread, strong for the main
thread, which gets the mutex in one of the 20-second sleeps between two rounds;
nothing for the clients.  `SelfService`: strong for each client, as in
`BarberShop`, but not for interruptions.
`Signals`: weak for each process; none waits for another except in `sigsuspend`.
`FifoIntegral`: weak for each process, which waits for nothing but its children and room
in the pipe; fork and `execl` may fail or succeed as they like.

**Disagreements with the assignments.** Three runs end in a counterexample to what
an assignment text asks or says; `PROJECT.json` quotes the lines.  Santa misses
the elves' signal in 8 steps, two barbers cut the haircut of one client, and the ping thread stops
when the second client meets a full table.  Two more show in properties that hold: `ClosesUnlessOvertaken` has to except
a command that comes right after the one to close, and the server of `lab6` ends at
`"failed"`, without removing its queue, when a client is gone.

More disagreements show in what the properties have to say:

* `ConflictsByGreeting`: `lab_08_polecenie.txt:5-6` says that the arrays need no
  synchronisation and that waiting between the pictures is enough.  However long main sleeps, threads that were greeted and
  threads that were not read and write the same array, and main draws cells while threads that
  were not greeted write them.
* `BlocksCountedOnce`: with the makefile's 2000 and 5000 children the descriptors of
  `lab5/zad2` run out, and the parent adds the last result once more for each child without a
  pipe; `lab_05_polecenie.txt` (zad. 2) asks for the sum of the partial results.
* `CopiesMatch`: `reverse2` leaves out bytes, although `lab_02_polecenie.txt` says "plik wynikowy
  powinien być identyczny jak w wariancie 1."; `zamien` needs an existing output file and
  leaves what was behind the new bytes in it, where the text asks for the output of `tr`.
* `BlocksOnlyLeak`: a deleted block is never freed and `size` is not lowered.
* `ReportsRaises`: in a file, the lines before fork appear twice and those before exec never;
  `lab4/zad1/fork.txt` shows each once.
* `ListWillBeAnswered`: a client in LIST does not take the server's STOP and waits forever.

## Proofs

`SantaProofs` proves, for any finite non-empty set of reindeer, any set of elves and any
positive group size and number of deliveries: `TypeOK`, `GroupLeaderOnly`,
`HerdNotStranded`, and that `Santa` implements `SantaProblem`.  None of them is
inductive.  The invariant `IInv` adds who holds each mutex at each location (a thread
between lock and unlock is the owner), who is in a condition (exactly the threads at
`"waiting"`), that a leader at `"waking"` or `"parking"` means a complete group, and that
below the full count the blocked reindeer are not all: a delivery releases one of them,
and only the mutex owner can complete the herd and park.  There is one lemma per
kind of thread, with a step per action.  `StepRefines` maps each step to an action of
`SantaProblem` or a stutter; `IInv` is needed for the counters' bounds.

`BarberShopProofs` proves `TypeOK`, `PlacesCounted`, `HaircutsCounted`, `InsideSegment`, that no more
clients push at a time than one and the failures of `aquire(buffer_mutex)` (`PushersFew`), and that
`BarberShop` implements `ShopProblem`, for any number of clients, barbers and chairs, any number of
failing `semop`s, and any segment with room for the leftovers and a byte per client.
`MoveCounts` says what one process's move does to the number of processes in a set
of locations (by the cardinality theorems); `ClientSums` and `BarberSums` add these
up against the change of a semaphore or of `missed`.  Nothing is assumed of what the unprotected pops
read, nor that the pushes exclude each other: that no store leaves the segment follows from a bound on the
non-zero bytes (`StringBounded`), which `strlen`, `memcpy` and the stores of a push keep
(`StrlenBound`, `ClientString`, `BarberString`) in whatever order they come.
`ClientRefines` and `BarberRefines` map each step to an action of `ShopProblem` or a stutter.
The guards of `Enter` follow from the sums: a positive `sem_queue` leaves a place, and `sem_queue` at
zero none (`PlacesCounted`), and with a client still to come not all are inside, waiting or
gone (`HaircutsCounted` and `ArrivingUncounted`); that of `Answer` follows from the barber who
was asleep (`AsleepUncounted`).

`QueueChatProofs` proves `TypeOK`, `RefusedOnlyWhenFull`, `AnswerComesFirst`, `SlotIsClientId` and
`ListWillBeAnswered`, for any number of clients, any table and any room in the queues.  The
properties speak of the ends of two queues; the invariant says what is between them.  A
client sends INNIT once and before all else (`InnitFirst`), the server sends to nobody it has
not heard INNIT from (`TableMet`, `TargetMet`), and a client has one slot (`OneSlot`).  The
message at hand is split from the queue by `FirstOut`-like lemmas, and each handler is a lemma.
`SlotIsClientId` excepts one client at most, whose SUCCES SIGINT has cut off: it is the one being
accepted, or the server has stopped (`Untold`).

`ChatServerProofs` proves `TypeOK` with the mutual exclusion of the ping thread's round,
`NoDescriptorLeak` and `AnswerOutstanding`, for any number of clients and slots.  The table, the
descriptors and epoll are changed by two threads in steps of their own, so the invariant
relates them pairwise: epoll reports a descriptor to the slot that has it (`WatchedBySlot`), a
slot between `new_client` and `epoll_ctl` is lost only together with its descriptor
(`AddingSlot`), a batch has at most one event about the sockets, with a connection to accept
(`SocketEvents`), and a client has one connection (`OneConnection`).  For the pings, a slot
that waits has its ping unread, answered, or taken and not yet noted (`Asked`).  The proof showed
that `AnswerOutstanding` was too weak to be kept and in one case false: with five clients and two
slots, an event of an evicted slot makes the main thread read the ping answer of the client that has
got the descriptor since (`server.c:176-199` with line 61), and the new slot waits for an answer
that has come.  The history variable `misread` records this case, as it does a cut message.

`LifeProofs` proves `TypeOK`, `ConflictsByGreeting` and `PicturesFollow` for a board of any size.
`ConflictsByGreeting` holds for any outcome of the first signals, and so does the main part of the
invariant (`Phase`): which array a thread reads follows from main's place and from whether the
thread was greeted (`Reads`), and each thread has started on it, or has been or will be woken for it.  With
`settled`, all threads are greeted (`InStep`), read the same array (`ReadsSource`), and what is
computed into the other one is the next step of it (`Computed`, `Drawn`).  `timely` and `settled` are
assumptions of these theorems that the code does not ensure.
`LoopStep` shows that main's loops visit each cell once.

`SelfServiceProofs` proves `TypeOK`, `BarbersConserved` and `ChairsNeverLost`.  A client does not record
what it holds; the invariant says from which branch of the program each place can be reached
(`FoundInFirstBranch`) and that the waiting room is dead code until a semop is interrupted
(`WaitingInterrupted`).

`SignalsProofs` proves `TypeOK` and `ConfirmedFirst`, for any senders and scripts.  The invariant
follows the one signal a sender has not confirmed: pending, or counted and in its handler.

`SmallProgramsProofs` proves seven invariants, one per program and the types of them all:

* `DepthIsNesting`: only the call on top may still have to begin, and the next one to be delivered
  has the next id.
* `BlocksOnlyLeak`: the blocks are the numbers counted so far, and `size` has grown by one for each
  block that is in the table.
* `SurvivesSignal`: a process that is about to raise the signal has installed its disposition.
* `BlocksCountedOnce`, for any interval, width and number of children and every rounding.  The
  points of the interval are a function chosen by `split_array`; that they grow and that the last
  one is the last block or the one before is `SplitArray`, by induction over the parts
  (`InductionUpTo`) and integer division (`NextPoint`: the quotient of the rest by the parts
  left).  While the program runs, each partial result is one of its part (`PipeResults`), and
  `added` is a function of `results` and `unpiped` (`PipeAdded`).  A block is in the part before
  the lowest point beyond it.
* `ResultsAddedOnce`, for any number of parts.  The process tree is unbounded in depth up to
  `Parts`; `FifoNames` says that `fork` always makes a process that is not there yet, since a loop that
  goes on after a failed `execl` is past the passes of its ancestors.  Then results are conserved
  (`Conserved`): each step adds one to the pipe and to what is written, or moves a part of the
  pipe to one process's sum, which is shown by a bijection (`SameSize`).  `MainAdds` is the case
  without failures: the written parts are in the pipe until main, whose children have all
  written, takes them.
* `CopiesMatch`, for any files and any size of the block.  The invariant `FilesCopied` says for each
  of the four programs what the output holds when the input has been read up to, or down to, `pos`;
  for `reverse2` that is a number of blocks, each but for its first byte.  `Overwritten` and `Joined`
  say what `fwrite` does to the bytes of the file, and `WithinBlocks` and `QuotientAndRest` place a
  byte of the output in its block.
* `ReportsRaises`.  `InheritPrinted` counts each line in the output and in the two buffers: what
  a process has said since its program started (`Said`), which the child shares with its parent
  from the fork on.  `PrintfCounts` says what `printf` adds to these counts, on a terminal and in a file,
  and `InheritCommand` which process finds its signal pending and which is blocked.
* `ProgramsTypeOK`.  The bounds need more than the types: that a pipe has room when it is written
  (`FifoBounds`), that both ends of the pipe at hand are within the limit of descriptors
  (`PipeBounds`), and that a program raises its signal once and is executed once more at most
  (`InheritBounds`).

`InductionUpTo` is induction over `0..n` by the lowest counterexample (`WFMin` of the library), so
that no theorem with an operator as its parameter is needed.

The assumptions are the named `ASSUME`s of the modules: finite or disjoint sets of
processes, positive sizes.  `ProgramsAssumption` and `FilesAssumption` say that there is something to
choose from (a width, a program, a file) and that files are sequences of bytes or missing.  They
exclude no argument for which the code is defined: `lab5/zad2` with 0 children makes an array of
size 0.

**Only model-checked.** The liveness properties, since the prover handles neither fairness nor
`ENABLED`: `EndsUnlessAllStranded`, `ShopEmpties`, `RequestsAnswered`, `GoneIsForgotten`,
`EveryoneLeaves`, `EndsUnlessLost`, `ClosesUnlessOvertaken` and `EndsUnlessPipeFull`.  Every
invariant and action property of the runs that pass is proved, and so is each refinement.

## Not modelled

`lab3`, `lab2/zad3`, `lab2/zad4` and `lab5/zad1` are input and output without state of
their own; `lab6/zad2` is empty.  Within the modelled programs:

* texts, logs, delays, measurements of time, creation and removal of IPC objects before and
  after the concurrent part;
* `lab7/zad1/v1`: a second simulation started while one runs, which removes its semaphores
  (`EIDRM`), and barbers of an earlier run that are still alive and pop from the same segment;
* `lab6`: identifiers outside of the table in 2ONE, which read outside of it.
  `lab10`: the contents of nicknames (their check may end either way), and blocking writes to
  a socket whose reader does not read;
* `lab1`: commands without their argument; `zadanie2_dl.c`, which runs the same loop on a library
  loaded at run time, and the copies in `zad3a` and `zad3b`;
* `lab2`: `fwrite`s that fail, which nothing checks;
* `lab5`: rounding that loses more than one block of a part, an uninitialized `fd` that names a
  standard descriptor, a result cut at the end of `read_buffer`, two programs that share
  `FIFO_PATH`.

Three hazards have no property: the unchecked index of 2ONE (undefined behaviour), and two of
`lab10/zad1/server.c` that the model has as behaviours but no property may forbid, since the
code allows them: a ping answer lost in the read of a nickname (line 43), and SIGPIPE (38).

## Plan

1. The modules of the table, their runs and the abstract specifications (done).
2. Proofs: `Santa`, `BarberShop` and their refinements (done).
3. Proofs: the invariants of `QueueChat`, `ChatServer`, `Life`, `SelfService`, `Signals` and of the
   programs of `SmallPrograms` (done).
4. Left: the safety part of what the liveness properties rest on, for example that a lost
   confirmation is the only state of `Signals` in which a sender cannot go on, as invariants of their own.
