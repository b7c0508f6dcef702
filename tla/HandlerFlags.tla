----------------------------- MODULE HandlerFlags -----------------------------
(***************************************************************************)
(* lab4/zad2: a handler that raises its own signal again, installed with   *)
(* SA_NODEFER, where the next call runs inside of it, and with SA_RESTART, *)
(* where SIGUSR1 is blocked while it runs and the next call follows it.    *)
(* With SA_SIGINFO, first, another handler runs once.                      *)
(***************************************************************************)
EXTENDS Naturals, Sequences, FiniteSets

CONSTANT MAX_CALLS

VARIABLES
  flag,       \* "SIGINFO", "NODEFER", "RESTART" or "done"
  raised,     \* whether main has raised the signal for this flag
  pending,    \* whether SIGUSR1 is pending
  frames,     \* the calls on the stack: current_id, and whether it has raised
  call_id, call_depth

vars == <<flag, raised, pending, frames, call_id, call_depth>>

top == frames[Len(frames)]

Init ==
  /\ flag = "SIGINFO"
  /\ raised = FALSE
  /\ pending = FALSE
  /\ frames = <<>>
  /\ call_id = 0 /\ call_depth = 0

Raise ==
  /\ flag # "done" /\ ~raised
  /\ raised' = TRUE
  /\ pending' = TRUE
  /\ UNCHANGED <<flag, frames, call_id, call_depth>>

\* A pending signal is delivered before the code that it interrupts goes on.
Deliver ==
  /\ pending
  /\ frames = <<>> \/ flag = "NODEFER"
  /\ pending' = FALSE
  /\ frames' = Append(frames, [id |-> call_id, begun |-> FALSE])
  /\ UNCHANGED <<flag, raised, call_id, call_depth>>

\* Mutant: the handler raises before it counts the call.
HandlerBeginRaising ==
  /\ frames # <<>> /\ ~top.begun
  /\ frames' = [frames EXCEPT ![Len(frames)].begun = TRUE]
  /\ IF flag = "SIGINFO"
       THEN UNCHANGED <<pending, call_id, call_depth>>
       ELSE /\ call_id' = call_id + 1
            /\ call_depth' = call_depth + 1
            /\ pending' = (call_id < MAX_CALLS)
  /\ UNCHANGED <<flag, raised>>

\* depth_handler up to its raise; info_handler does nothing of this.
HandlerBegin ==
  /\ frames # <<>> /\ ~top.begun
  /\ frames' = [frames EXCEPT ![Len(frames)].begun = TRUE]
  /\ IF flag = "SIGINFO"
       THEN UNCHANGED <<pending, call_id, call_depth>>
       ELSE /\ call_id' = call_id + 1
            /\ call_depth' = call_depth + 1
            /\ pending' = (call_id' < MAX_CALLS)
  /\ UNCHANGED <<flag, raised>>

HandlerEnd ==
  /\ frames # <<>> /\ top.begun
  /\ pending => flag # "NODEFER"
  /\ frames' = SubSeq(frames, 1, Len(frames) - 1)
  /\ call_depth' = IF flag = "SIGINFO" THEN call_depth ELSE call_depth - 1
  /\ UNCHANGED <<flag, raised, pending, call_id>>

\* main installs the handler with the next flag.
NextFlag ==
  /\ raised /\ frames = <<>> /\ ~pending
  /\ flag' = CASE flag = "SIGINFO" -> "NODEFER"
               [] flag = "NODEFER" -> "RESTART"
               [] flag = "RESTART" -> "done"
  /\ raised' = FALSE
  /\ IF flag' = "done" THEN UNCHANGED <<call_id, call_depth>>
                       ELSE call_id' = 0 /\ call_depth' = 0
  /\ UNCHANGED <<pending, frames>>

Next == Raise \/ Deliver \/ HandlerBegin \/ HandlerEnd \/ NextFlag

Spec == Init /\ [][Next]_vars

-----------------------------------------------------------------------------
Frames == [id : Nat, begun : BOOLEAN]

TypeOK ==
  /\ flag \in {"SIGINFO", "NODEFER", "RESTART", "done"}
  /\ raised \in BOOLEAN /\ pending \in BOOLEAN
  /\ frames \in Seq(Frames)
  /\ call_id \in 0..MAX_CALLS /\ call_depth \in 0..MAX_CALLS

(***************************************************************************)
(* call_depth is the number of calls on the stack that have begun, so each *)
(* call ends at the depth it began at; a call inside of another one has    *)
(* the next id; with SA_RESTART the calls do not nest; and none of the     *)
(* MAX_CALLS calls is lost (lab4/zad2/raport.txt).                         *)
(***************************************************************************)
DepthIsNesting ==
  /\ flag # "SIGINFO" =>
       call_depth = Cardinality({k \in DOMAIN frames : frames[k].begun})
  /\ \A k \in DOMAIN frames : k > 1 => frames[k].id = frames[k - 1].id + 1
  /\ flag = "RESTART" => Len(frames) <= 1
  /\ flag \in {"NODEFER", "RESTART"} /\ raised /\ frames = <<>> /\ ~pending =>
       call_id = MAX_CALLS

=============================================================================
