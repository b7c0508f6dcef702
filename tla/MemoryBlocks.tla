----------------------------- MODULE MemoryBlocks -----------------------------
(***************************************************************************)
(* lab1: a table of blocks that hold what wc has printed about files, and  *)
(* the command loop that works on it (zad1/memoryBlock.c and               *)
(* zad2/zadanie2.c; zad3a and zad3b have copies of both).                  *)
(*                                                                         *)
(* A block is a number, and what it holds is the file counted into it.  wc *)
(* prints nothing about a missing file, and its block has no bytes.  A use *)
(* of NULL ends the process at once ("crashed"); a read or write that is   *)
(* out of bounds, or of freed memory, finds NULL, or makes all that        *)
(* follows "undefined".                                                    *)
(***************************************************************************)
EXTENDS Integers, FiniteSets

CONSTANTS
  Capacities, \* the arguments of init
  FileNames,  \* the arguments of count
  Missing,    \* those of them that do not exist
  MaxBlocks   \* bounds the blocks allocated

NULL == 0

VARIABLES
  data,     \* "NULL", "table", or "freed"
  capacity, size, \* of the table
  memory,   \* its slots: a block or NULL
  heap,     \* the blocks that are allocated
  contents, \* the file counted into each block so far
  status    \* "running", "done", "failed", "crashed" or "undefined"

vars == <<data, capacity, size, memory, heap, contents, status>>

Indices == -1..(capacity + 1)

Slots == 0..(capacity - 1)

Stop(how) ==
  /\ status' = how
  /\ UNCHANGED <<data, capacity, size, memory, heap, contents>>

-----------------------------------------------------------------------------
Init ==
  /\ data = "NULL"
  /\ capacity = 0 /\ size = 0
  /\ memory = [k \in {} |-> NULL]
  /\ heap = {}
  /\ contents = [b \in {} |-> 0]
  /\ status = "running"

\* A table that is there already is forgotten.
initializeNewBlock(numberOfElements) ==
  /\ data' = "table"
  /\ capacity' = numberOfElements
  /\ size' = 0
  /\ memory' = [k \in 0..(numberOfElements - 1) |-> NULL]
  /\ UNCHANGED <<heap, contents, status>>

\* Every command but init uses the table.
NoTable ==
  \/ data = "NULL" /\ Stop("crashed")
  \/ data = "freed" /\ Stop("undefined")

Free == {k \in Slots : memory[k] = NULL}

countLinesAndWords(file) ==
  /\ data = "table" /\ Free # {}
  /\ Cardinality(DOMAIN contents) < MaxBlocks
  /\ LET block == Cardinality(DOMAIN contents) + 1
         indexToWrite == CHOOSE k \in Free : \A l \in Free : k <= l
     IN  /\ memory' = [memory EXCEPT ![indexToWrite] = block]
         /\ heap' = heap \cup {block}
         /\ contents' = [b \in 1..block |-> IF b = block THEN file ELSE contents[b]]
  /\ size' = size + 1
  /\ UNCHANGED <<data, capacity, status>>

\* There is no room, or the result file cannot be opened.
countFails == data = "table" /\ Stop("failed")

OutOfRange(index) == index > capacity \/ index < 0

\* The index capacity is one too many: what is read there may be NULL.
getBlock(index) ==
  /\ data = "table"
  /\ \/ index \notin Slots /\ Stop("failed")
     \/ index = capacity /\ Stop("undefined")
     \/ /\ index \in Slots
        /\ \/ memory[index] = NULL /\ Stop("failed")
           \/ memory[index] # NULL /\ UNCHANGED vars
           \/ memory[index] # NULL /\ contents[memory[index]] \in Missing /\ Stop("undefined")

\* Mutant: the block is freed, and its slot is not cleared.
deleteDangling(index) ==
  /\ data = "table"
  /\ index \in Slots
  /\ heap' = heap \ {memory[index]}
  /\ UNCHANGED <<data, capacity, size, memory, contents, status>>

\* The slot is cleared, and then NULL is freed.
deleteBlock(index) ==
  /\ data = "table"
  /\ \/ OutOfRange(index) /\ Stop("failed")
     \/ index = capacity /\ (Stop("undefined") \/ UNCHANGED vars)
     \/ /\ index \in Slots
        /\ memory' = [memory EXCEPT ![index] = NULL]
        /\ UNCHANGED <<data, capacity, size, heap, contents, status>>

\* The array of slots is not freed.
deleteDataBlock ==
  /\ data = "table"
  /\ data' = "freed"
  /\ memory' = [k \in Slots |-> NULL]
  /\ UNCHANGED <<capacity, size, heap, contents, status>>

EndOfInput == Stop("done")

Next ==
  /\ status = "running"
  /\ \/ \E n \in Capacities : initializeNewBlock(n)
     \/ NoTable
     \/ \E file \in FileNames : countLinesAndWords(file)
     \/ countFails
     \/ \E index \in Indices : getBlock(index) \/ deleteBlock(index)
     \/ deleteDataBlock
     \/ EndOfInput

Spec == Init /\ [][Next]_vars

-----------------------------------------------------------------------------
TypeOK ==
  /\ data \in {"NULL", "table", "freed"}
  /\ capacity \in Capacities \cup {0} /\ size \in 0..MaxBlocks
  /\ memory \in [Slots -> 0..MaxBlocks]
  /\ contents \in UNION {[1..n -> FileNames] : n \in 0..MaxBlocks}
  /\ heap \subseteq DOMAIN contents
  /\ status \in {"running", "done", "failed", "crashed", "undefined"}

(***************************************************************************)
(* The blocks in the table are allocated and no two slots share one; size  *)
(* counts them and the ones deleted since init, and nothing that was       *)
(* deleted, or was in an earlier table, is ever freed.                     *)
(***************************************************************************)
BlocksOnlyLeak ==
  LET held == {memory[k] : k \in Slots} \ {NULL}
  IN  /\ held \subseteq heap
      /\ \A k, l \in Slots : memory[k] = memory[l] /\ memory[k] # NULL => k = l
      /\ Cardinality(held) <= size
      /\ heap = DOMAIN contents

=============================================================================
