----------------------------- MODULE PipeIntegral -----------------------------
(***************************************************************************)
(* lab5/zad2: a process splits the interval from 0 to 1 among children and *)
(* adds up what each of them writes to a pipe of its own.                  *)
(*                                                                         *)
(* The interval has One units and a block has width units; points of the   *)
(* interval are counted in blocks.  The quotients are computed in floating *)
(* point: one that is a whole number may come out just below it, and the   *)
(* conversion to int then loses one; so does the last test of the loop of  *)
(* calculate.  A partial result is the set of the blocks in it.            *)
(*                                                                         *)
(* The parent closes no read end, so each child costs it a descriptor.  An *)
(* element of fd that pipe has not filled is uninitialized: it names no    *)
(* descriptor or the read end of an earlier child's pipe (its other values *)
(* 0, 1 and 2 are left out).                                               *)
(***************************************************************************)
EXTENDS Integers, Sequences, FiniteSets

CONSTANTS
  One,       \* units in the interval
  Widths,    \* the widths of a block, in units
  Children,  \* the numbers of children
  MaxFds     \* descriptors the process may open beside the standard ones

VARIABLES
  width,   \* block_width
  range,   \* the points where the parts begin and end, in blocks
  i,       \* the child that is next, or running
  status,  \* "pipe", "fork", "child", "read", "done" or "failed"
  fds,     \* the descriptors that are open between two children
  unpiped, \* the children whose pipe could not be created
  buffer,  \* what is in the pipe of child i
  out,     \* the last partial result read
  results, \* history: the partial results computed
  added    \* the partial results added to result

vars == <<width, range, i, status, fds, unpiped, buffer, out, results, added>>

parameters == <<width, range>>

number_of_children == Cardinality(DOMAIN range) - 1

Blocks == One \div width

Uninitialized == {-1}  \* the value of out before the first read

\* The blocks that fit in the rest of the way to the end of part j, which
\* starts after k blocks.
PartSizes(n, w, j, k) ==
  LET left == (j + 1) * One - n * k * w
      size == left \div (n * w)
  IN  IF size > 0 /\ left % (n * w) = 0 THEN {size - 1, size} ELSE {size}

split_array(n, w) ==
  {r \in [0..n -> 0..(One \div w)] :
     r[0] = 0 /\ \A j \in 0..(n - 1) : r[j + 1] - r[j] \in PartSizes(n, w, j, r[j])}

\* Mutant: the loop goes on while i <= b.
calculate_inclusive(a, b) == {a..b}

\* The sum over a part may miss its last block.
calculate(a, b) == {a..(b - 1), a..(b - 2)}

-----------------------------------------------------------------------------
Init ==
  /\ width \in Widths
  /\ range \in UNION {split_array(n, width) : n \in Children}
  /\ i = 0
  /\ status = "pipe"
  /\ fds = 0
  /\ unpiped = {}
  /\ buffer = <<>>
  /\ out = Uninitialized
  /\ results = <<>>
  /\ added = <<>>

\* pipe is not checked.
Pipe ==
  /\ status = "pipe" /\ i < number_of_children
  /\ unpiped' = IF fds + 2 <= MaxFds THEN unpiped ELSE unpiped \cup {i}
  /\ status' = "fork"
  /\ UNCHANGED <<parameters, i, fds, buffer, out, results, added>>

Fork ==
  /\ status = "fork"
  /\ status' = "child"
  /\ UNCHANGED <<parameters, i, fds, unpiped, buffer, out, results, added>>

ForkFails ==
  /\ status = "fork"
  /\ status' = "failed"
  /\ UNCHANGED <<parameters, i, fds, unpiped, buffer, out, results, added>>

\* The child computes and writes; the parent is in wait.
Child ==
  /\ status = "child"
  /\ \E result \in calculate(range[i], range[i + 1]) :
       /\ results' = Append(results, result)
       /\ buffer' = IF i \in unpiped THEN <<>> ELSE <<result>>
  /\ status' = "read"
  /\ UNCHANGED <<parameters, i, fds, unpiped, out, added>>

\* The write end is closed.  Without a pipe, close may hit an earlier read
\* end, and read leaves out as it is.
Read ==
  /\ status = "read"
  /\ fds' \in IF i \in unpiped THEN {fds, fds - 1} \cap Nat ELSE {fds + 1}
  /\ out' = IF buffer = <<>> THEN out ELSE buffer[1]
  /\ added' = Append(added, out')
  /\ buffer' = <<>>
  /\ i' = i + 1
  /\ status' = "pipe"
  /\ UNCHANGED <<parameters, unpiped, results>>

Return ==
  /\ status = "pipe" /\ i = number_of_children
  /\ status' = "done"
  /\ UNCHANGED <<parameters, i, fds, unpiped, buffer, out, results, added>>

Next == Pipe \/ Fork \/ ForkFails \/ Child \/ Read \/ Return

Spec == Init /\ [][Next]_vars

-----------------------------------------------------------------------------
PartialResults == (SUBSET (0..(Blocks - 1))) \cup {Uninitialized}

TypeOK ==
  /\ width \in Widths
  /\ range \in UNION {[0..n -> 0..Blocks] : n \in Children}
  /\ i \in 0..number_of_children
  /\ status \in {"pipe", "fork", "child", "read", "done", "failed"}
  /\ fds \in 0..MaxFds
  /\ unpiped \subseteq 0..(number_of_children - 1)
  /\ \A s \in {buffer, results, added} :
       DOMAIN s \subseteq 1..number_of_children
         /\ \A k \in DOMAIN s : s[k] \in PartialResults
  /\ out \in PartialResults

Times(b) == Cardinality({k \in DOMAIN added : b \in added[k]})

(***************************************************************************)
(* The parent should add what each child computed (lab_05_polecenie.txt,   *)
(* zad. 2); for a child without a pipe it adds the result before again.    *)
(* If every child has its pipe, no block is counted twice, since the parts *)
(* that split_array makes do not overlap, and at most the last block of    *)
(* each part and of the interval are missed.                               *)
(***************************************************************************)
BlocksCountedOnce ==
  LET ends == {range[j] - 1 : j \in DOMAIN range} \cup {Blocks - 1}
  IN  /\ \A k \in DOMAIN added :
           added[k] = IF k - 1 \notin unpiped THEN results[k]
                      ELSE IF k = 1 THEN Uninitialized ELSE added[k - 1]
      /\ unpiped = {} =>
           \A b \in 0..(Blocks - 1) :
             /\ Times(b) <= 1
             /\ status = "done" /\ Times(b) = 0 => b \in ends

=============================================================================
