----------------------------- MODULE FifoIntegral -----------------------------
(***************************************************************************)
(* lab5/zad3: a program runs the program calculate for each part of the    *)
(* interval; all of them write to one named pipe, which it reads once,     *)
(* when its children have ended.                                           *)
(*                                                                         *)
(* When execl fails, the child goes on with the loop as its parent does:   *)
(* it starts children of its own, waits for them, reads the pipe, adds up  *)
(* and removes the pipe's name.  A process is the set of the passes of the *)
(* loop at which it and its ancestors were forked, and {} is the program   *)
(* itself.  The result of a part is the number of its pass.                *)
(*                                                                         *)
(* Every process holds the read end that main has opened, with O_NONBLOCK, *)
(* so opening the write end never waits and no write meets a pipe without  *)
(* readers.  A result is a line shorter than PIPE_BUF.                     *)
(*                                                                         *)
(* The width is passed with six decimals: a smaller one becomes 0, and     *)
(* the loop of calculate does not end.                                     *)
(***************************************************************************)
EXTENDS Naturals, Sequences, FiniteSets, FiniteSetsExt, Functions

CONSTANTS
  Parts,    \* the greatest number_of_children
  Sizes,    \* how many results may fit in the pipe (65536 bytes) and in
            \* read_buffer (BUFFSIZE bytes)
  MaxFaults \* bounds the calls of execl that fail

VARIABLES
  number_of_children,
  width,  \* as calculate gets it: "positive" or "zero"
  size,   \* the sizes of the pipe and the buffer, of Sizes
  pc,     \* where each process is
  pass,   \* i of each process
  exists, \* whether FIFO_PATH exists
  fifo,   \* the results in the pipe
  sums,   \* the results each process has added up
  failed  \* history: the processes in which execl has failed

vars == <<number_of_children, width, size, pc, pass, exists, fifo, sums, failed>>

parameters == <<number_of_children, width, size>>

Capacity == size[1]
BuffSize == size[2]

Processes == SUBSET (0..(Parts - 1))
main == {}
Part(p) == Max(p)
Parent(p) == p \ {Max(p)}

Ended == {"written", "lost", "done", "failed"}

-----------------------------------------------------------------------------
Init ==
  /\ number_of_children \in 1..Parts
  /\ width \in {"positive", "zero"}
  /\ size \in Sizes
  /\ pc = [p \in Processes |-> IF p = main THEN "loop" ELSE "none"]
  /\ pass = [p \in Processes |-> 0]
  /\ exists = TRUE
  /\ fifo = <<>>
  /\ sums = [p \in Processes |-> <<>>]
  /\ failed = {}

Fork(p) ==
  /\ pc[p] = "loop" /\ pass[p] < number_of_children
  /\ LET child == p \cup {pass[p]}
     IN  /\ pc' = [pc EXCEPT ![child] = "exec"]
         /\ pass' = [pass EXCEPT ![p] = @ + 1, ![child] = pass[p]]
  /\ UNCHANGED <<parameters, exists, fifo, sums, failed>>

ForkFails(p) ==
  /\ pc[p] = "loop" /\ pass[p] < number_of_children
  /\ pc' = [pc EXCEPT ![p] = "failed"]
  /\ UNCHANGED <<parameters, pass, exists, fifo, sums, failed>>

Exec(p) ==
  /\ pc[p] = "exec"
  /\ pc' = [pc EXCEPT ![p] = "open"]
  /\ UNCHANGED <<parameters, pass, exists, fifo, sums, failed>>

ExecFails(p) ==
  /\ pc[p] = "exec" /\ Cardinality(failed) < MaxFaults
  /\ pc' = [pc EXCEPT ![p] = "loop"]
  /\ pass' = [pass EXCEPT ![p] = @ + 1]
  /\ failed' = failed \cup {p}
  /\ UNCHANGED <<parameters, exists, fifo, sums>>

\* Once the result is computed.  Without the name, open fails, and the
\* result is written to nowhere.
Open(p) ==
  /\ pc[p] = "open" /\ width = "positive"
  /\ pc' = [pc EXCEPT ![p] = IF exists THEN "write" ELSE "lost"]
  /\ UNCHANGED <<parameters, pass, exists, fifo, sums, failed>>

\* Mutant: one result at a time.
WriteToEmpty(p) ==
  /\ pc[p] = "write"
  /\ fifo = <<>>
  /\ fifo' = Append(fifo, Part(p))
  /\ pc' = [pc EXCEPT ![p] = "written"]
  /\ UNCHANGED <<parameters, pass, exists, sums, failed>>

Write(p) ==
  /\ pc[p] = "write"
  /\ Len(fifo) < Capacity
  /\ fifo' = Append(fifo, Part(p))
  /\ pc' = [pc EXCEPT ![p] = "written"]
  /\ UNCHANGED <<parameters, pass, exists, sums, failed>>

Waited(p) ==
  \A q \in Processes \ {main} : Parent(q) = p => pc[q] \in Ended \cup {"none"}

\* Mutant: the parent does not wait.
ReadAtOnce(p) ==
  /\ pc[p] = "loop" /\ pass[p] = number_of_children
  /\ sums' = [sums EXCEPT ![p] = SubSeq(fifo, 1, Min({BuffSize, Len(fifo)}))]
  /\ fifo' = SubSeq(fifo, BuffSize + 1, Len(fifo))
  /\ pc' = [pc EXCEPT ![p] = "remove"]
  /\ UNCHANGED <<parameters, pass, exists, failed>>

\* A read of the empty pipe fails while a process has it open for writing.
Read(p) ==
  /\ pc[p] = "loop" /\ pass[p] = number_of_children
  /\ Waited(p)
  /\ LET again == fifo = <<>> /\ \E q \in Processes : pc[q] = "write"
     IN  pc' = [pc EXCEPT ![p] = IF again THEN "failed" ELSE "remove"]
  /\ sums' = [sums EXCEPT ![p] = SubSeq(fifo, 1, Min({BuffSize, Len(fifo)}))]
  /\ fifo' = SubSeq(fifo, BuffSize + 1, Len(fifo))
  /\ UNCHANGED <<parameters, pass, exists, failed>>

Remove(p) ==
  /\ pc[p] = "remove"
  /\ exists' = FALSE
  /\ pc' = [pc EXCEPT ![p] = "done"]
  /\ UNCHANGED <<parameters, pass, fifo, sums, failed>>

Step(p) ==
  \/ Fork(p) \/ ForkFails(p) \/ Exec(p) \/ ExecFails(p)
  \/ Open(p) \/ Write(p) \/ Read(p) \/ Remove(p)

Next == \E p \in Processes : Step(p)

Spec == Init /\ [][Next]_vars

\* No process waits for anything but its children and room in the pipe.
Fairness == \A p \in Processes : WF_vars(Step(p))

FairSpec == Spec /\ Fairness

-----------------------------------------------------------------------------
TypeOK ==
  /\ number_of_children \in 1..Parts /\ size \in Sizes
  /\ width \in {"positive", "zero"}
  /\ pc \in [Processes -> Ended \cup {"none", "loop", "exec", "open", "write", "remove"}]
  /\ pass \in [Processes -> 0..Parts]
  /\ exists \in BOOLEAN
  /\ fifo \in Seq(0..(Parts - 1)) /\ Len(fifo) <= Capacity
  /\ sums \in [Processes -> Seq(0..(Parts - 1))]
  /\ failed \subseteq Processes

(***************************************************************************)
(* If no execl fails, main adds every part once, or as many as its buffer  *)
(* has room for.  Whatever fails, a result that was written is in the pipe *)
(* or added by one process, although each of them computes what it can of  *)
(* the rest, reads for itself and removes the pipe's name.                 *)
(***************************************************************************)
ResultsAddedOnce ==
  /\ pc[main] = "done" /\ failed = {} =>
       /\ IsInjective(sums[main])
       /\ Len(sums[main]) = Min({number_of_children, BuffSize})
  /\ \A part \in 0..(Parts - 1) :
       LET waiting == {k \in DOMAIN fifo : fifo[k] = part}
           summed  == {r \in Processes \X (1..BuffSize) :
                         r[2] \in DOMAIN sums[r[1]] /\ sums[r[1]][r[2]] = part}
           written == {p \in Processes : pc[p] = "written" /\ Part(p) = part}
       IN  Cardinality(waiting) + Cardinality(summed) = Cardinality(written)

(***************************************************************************)
(* All processes end, unless the results do not fit in the pipe: then the  *)
(* calculating processes wait for room, and their parents for them; or     *)
(* unless the width is too small for six decimals: then the calculating    *)
(* processes never end, and all the others do or wait for their children.  *)
(***************************************************************************)
EndsUnlessPipeFull ==
  \/ <>[](\A p \in Processes : pc[p] \in Ended \cup {"none"})
  \/ <>[](Len(fifo) = Capacity /\ \E p \in Processes : pc[p] = "write")
  \/ /\ width = "zero"
     /\ <>[](\A p \in Processes :
                \/ pc[p] \in Ended \cup {"none", "open"}
                \/ pc[p] = "loop" /\ ~Waited(p))

=============================================================================
