---------------------------- MODULE SmallPrograms ----------------------------
(***************************************************************************)
(* The programs of lab1, lab2, lab4 and lab5.  They share nothing, and one *)
(* of them runs in each behaviour, while the others have ended.            *)
(***************************************************************************)
EXTENDS Signals, FiniteSets

CONSTANTS
  One, Widths, Children, MaxFds,            \* PipeIntegral
  Parts, Sizes, MaxFaults,                  \* FifoIntegral
  MAX_CALLS,                                \* HandlerFlags
  Programs, Inputs, Outputs, search, replace,
  BLOCK_SIZE, Garbage,                      \* Files
  Capacities, FileNames, Missing, MaxBlocks \* MemoryBlocks

ASSUME ProgramsAssumption ==
  /\ One \in Nat \ {0}
  /\ Widths \subseteq Nat \ {0} /\ Widths # {}
  /\ Children \subseteq Nat \ {0} /\ Children # {}
  /\ MaxFds \in Nat
  /\ Parts \in Nat \ {0}
  /\ Sizes \subseteq (Nat \ {0}) \X (Nat \ {0}) /\ Sizes # {}
  /\ MAX_CALLS \in Nat \ {0}
  /\ Programs \subseteq {"zamien", "zamien2", "reverse", "reverse2"} /\ Programs # {}
  /\ Inputs # {} /\ Outputs # {}
  /\ BLOCK_SIZE \in Nat \ {0}
  /\ Capacities \subseteq Nat /\ MaxBlocks \in Nat

VARIABLES
  width, range, i, pipeStatus, fds, unpiped, pipeBuffer, out, results, added,
  number_of_children, fifoWidth, fifoSizes, fifoPc, pass, exists, fifo, sums, failed,
  command, function, terminal, argc, inheritPc, disposition, blocked,
  inheritPending, stdout, output, raised,
  flag, mainRaised, flagPending, frames, call_id, call_depth,
  program, input, old, fileStatus, pos, fileOutput,
  data, capacity, size, memory, heap, contents, loopStatus

pipe == <<width, range, i, pipeStatus, fds, unpiped, pipeBuffer, out, results, added>>
named == <<number_of_children, fifoWidth, fifoSizes, fifoPc, pass, exists, fifo, sums, failed>>
inherit == <<command, function, terminal, argc, inheritPc, disposition, blocked,
             inheritPending, stdout, output, raised>>
flags == <<flag, mainRaised, flagPending, frames, call_id, call_depth>>
copy == <<program, input, old, fileStatus, pos, fileOutput>>
table == <<data, capacity, size, memory, heap, contents, loopStatus>>

P == INSTANCE PipeIntegral WITH status <- pipeStatus, buffer <- pipeBuffer
F == INSTANCE FifoIntegral WITH width <- fifoWidth, size <- fifoSizes, pc <- fifoPc
I == INSTANCE Inheritance WITH pc <- inheritPc, pending <- inheritPending, buffer <- stdout
H == INSTANCE HandlerFlags WITH raised <- mainRaised, pending <- flagPending
C == INSTANCE Files WITH status <- fileStatus, output <- fileOutput
B == INSTANCE MemoryBlocks WITH status <- loopStatus

ASSUME FilesAssumption == Inputs \cup Outputs \subseteq Seq(C!Bytes) \cup {None}

-----------------------------------------------------------------------------
(* The programs that do not run *)

SignalsEnded ==
  /\ catcher = "exited" /\ pending = None /\ handling = None
  /\ current_request = "none" /\ lost = {}
  /\ todo = [s \in Senders |-> <<>>] /\ pc = [s \in Senders |-> "done"]
  /\ sent = [s \in Senders |-> 0] /\ handled = [s \in Senders |-> 0]

PipeEnded ==
  /\ width \in Widths /\ \A w \in Widths : width <= w
  /\ range = [k \in 0..(CHOOSE n \in Children : TRUE) |-> 0]
  /\ i = 0 /\ pipeStatus = "failed" /\ fds = 0 /\ unpiped = {}
  /\ pipeBuffer = <<>> /\ out = P!Uninitialized /\ results = <<>> /\ added = <<>>

FifoEnded ==
  /\ number_of_children = 1 /\ fifoWidth = "positive" /\ fifoSizes = (CHOOSE s \in Sizes : TRUE)
  /\ fifoPc = [p \in F!Processes |-> IF p = {} THEN "failed" ELSE "none"]
  /\ pass = [p \in F!Processes |-> 0] /\ exists = TRUE /\ fifo = <<>>
  /\ sums = [p \in F!Processes |-> <<>>] /\ failed = {}

InheritanceEnded ==
  /\ command = "ignore" /\ function = "exec" /\ terminal = TRUE /\ argc = 4
  /\ inheritPc = [parent |-> "done", child |-> "none"]
  /\ disposition = [p \in I!Processes |-> "default"]
  /\ blocked = [p \in I!Processes |-> FALSE]
  /\ inheritPending = [p \in I!Processes |-> FALSE]
  /\ stdout = [p \in I!Processes |-> <<>>] /\ output = <<>>
  /\ raised = [p \in I!Processes |-> 0]

FlagsEnded ==
  /\ flag = "done" /\ mainRaised = FALSE /\ flagPending = FALSE
  /\ frames = <<>> /\ call_id = 0 /\ call_depth = 0

FilesEnded ==
  /\ program = (CHOOSE p \in Programs : TRUE)
  /\ input = (CHOOSE f \in Inputs : TRUE) /\ old = (CHOOSE f \in Outputs : TRUE)
  /\ fileStatus = "failed" /\ pos = 0 /\ fileOutput = None

BlocksEnded ==
  /\ data = "NULL" /\ capacity = 0 /\ size = 0 /\ memory = <<>>
  /\ heap = {} /\ contents = <<>> /\ loopStatus = "done"

ProgramsInit ==
  \/ Init /\ PipeEnded /\ FifoEnded /\ InheritanceEnded /\ FlagsEnded /\ FilesEnded /\ BlocksEnded
  \/ SignalsEnded /\ P!Init /\ FifoEnded /\ InheritanceEnded /\ FlagsEnded /\ FilesEnded /\ BlocksEnded
  \/ SignalsEnded /\ PipeEnded /\ F!Init /\ InheritanceEnded /\ FlagsEnded /\ FilesEnded /\ BlocksEnded
  \/ SignalsEnded /\ PipeEnded /\ FifoEnded /\ I!Init /\ FlagsEnded /\ FilesEnded /\ BlocksEnded
  \/ SignalsEnded /\ PipeEnded /\ FifoEnded /\ InheritanceEnded /\ H!Init /\ FilesEnded /\ BlocksEnded
  \/ SignalsEnded /\ PipeEnded /\ FifoEnded /\ InheritanceEnded /\ FlagsEnded /\ C!Init /\ BlocksEnded
  \/ SignalsEnded /\ PipeEnded /\ FifoEnded /\ InheritanceEnded /\ FlagsEnded /\ FilesEnded /\ B!Init

ProgramsNext ==
  \/ Next /\ UNCHANGED <<pipe, named, inherit, flags, copy, table>>
  \/ P!Next /\ UNCHANGED <<vars, named, inherit, flags, copy, table>>
  \/ F!Next /\ UNCHANGED <<vars, pipe, inherit, flags, copy, table>>
  \/ I!Next /\ UNCHANGED <<vars, pipe, named, flags, copy, table>>
  \/ H!Next /\ UNCHANGED <<vars, pipe, named, inherit, copy, table>>
  \/ C!Next /\ UNCHANGED <<vars, pipe, named, inherit, flags, table>>
  \/ B!Next /\ UNCHANGED <<vars, pipe, named, inherit, flags, copy>>

programs == <<vars, pipe, named, inherit, flags, copy, table>>

ProgramsSpec == ProgramsInit /\ [][ProgramsNext]_programs /\ Fairness /\ F!Fairness

-----------------------------------------------------------------------------
(* The state of each program has its type. *)
ProgramsTypeOK ==
  TypeOK /\ P!TypeOK /\ F!TypeOK /\ I!TypeOK /\ H!TypeOK /\ C!TypeOK /\ B!TypeOK

(* lab5/zad2: see PipeIntegral. *)
BlocksCountedOnce == P!BlocksCountedOnce

(* lab5/zad3: see FifoIntegral. *)
ResultsAddedOnce == F!ResultsAddedOnce

(* lab5/zad3: see FifoIntegral. *)
EndsUnlessPipeFull == F!EndsUnlessPipeFull

(* lab4/zad1: see Inheritance. *)
SurvivesSignal == I!SurvivesSignal

(* lab4/zad1: see Inheritance. *)
ReportsRaises == I!ReportsRaises

(* lab4/zad2: see HandlerFlags. *)
DepthIsNesting == H!DepthIsNesting

(* lab2: see Files. *)
CopiesMatch == C!CopiesMatch

(* lab1: see MemoryBlocks. *)
BlocksOnlyLeak == B!BlocksOnlyLeak

=============================================================================
