------------------------------ MODULE Inheritance ------------------------------
(***************************************************************************)
(* lab4/zad1: what a process inherits of SIGUSR1's disposition, mask and   *)
(* pending state over fork and over exec.                                  *)
(*                                                                         *)
(* Over exec a handler becomes the default action, which ends the process; *)
(* an ignored signal stays ignored, and the mask and pending signals stay. *)
(* The child of a fork has no pending signals.  What printf leaves in the  *)
(* buffer of stdout is copied by fork, lost in exec and written at the     *)
(* end; on a terminal each line is written at once.                        *)
(*                                                                         *)
(* A line is the process that printed it and what it says.                 *)
(***************************************************************************)
EXTENDS Naturals, Sequences, FiniteSets

Processes == {"parent", "child"}
Commands == {"ignore", "handler", "mask", "pending"}
Functions == {"fork", "exec"}

VARIABLES
  command, function, \* the first two arguments
  terminal,    \* whether stdout is a terminal
  argc,        \* of the running program: execl passes a fourth argument
  pc,          \* where each process is
  disposition, \* of SIGUSR1: "default", "ignore" or "handler"
  blocked,     \* whether SIGUSR1 is blocked
  pending,     \* whether SIGUSR1 is pending
  buffer,      \* the lines in the buffer of stdout
  output,      \* the lines written
  raised       \* history: how often each process has raised the signal

vars == <<command, function, terminal, argc, pc, disposition, blocked,
          pending, buffer, output, raised>>

parameters == <<command, function, terminal>>

\* printf of some lines by process p.
printf(p, lines) ==
  LET printed == [k \in DOMAIN lines |-> <<p, lines[k]>>]
  IN  /\ output' = IF terminal THEN output \o printed ELSE output
      /\ buffer' = IF terminal THEN buffer ELSE [buffer EXCEPT ![p] = @ \o printed]

-----------------------------------------------------------------------------
Init ==
  /\ command \in Commands
  /\ function \in Functions
  /\ terminal \in BOOLEAN
  /\ argc \in {3, 4}
  /\ pc = [p \in Processes |-> IF p = "parent" THEN "main" ELSE "none"]
  /\ disposition = [p \in Processes |-> "default"]
  /\ blocked = [p \in Processes |-> FALSE]
  /\ pending = [p \in Processes |-> FALSE]
  /\ buffer = [p \in Processes |-> <<>>]
  /\ output = <<>>
  /\ raised = [p \in Processes |-> 0]

Main(p) ==
  /\ pc[p] = "main"
  /\ pc' = [pc EXCEPT ![p] = IF command = "handler" /\ function = "exec"
                               THEN "exit" ELSE "install"]
  /\ UNCHANGED <<parameters, argc, disposition, blocked, pending, buffer, output, raised>>

\* Ignoring a signal discards it if it is pending.
Install(p) ==
  /\ pc[p] = "install"
  /\ disposition' = [disposition EXCEPT ![p] = IF command = "ignore" THEN "ignore" ELSE "handler"]
  /\ pending' = [pending EXCEPT ![p] = @ /\ command # "ignore"]
  /\ pc' = [pc EXCEPT ![p] = IF command \in {"ignore", "handler"} THEN "raise" ELSE "block"]
  /\ UNCHANGED <<parameters, argc, blocked, buffer, output, raised>>

\* Mutant: the executed program relies on the mask it has inherited, and
\* unblocks the signal.
BlockOnce(p) ==
  /\ pc[p] = "block"
  /\ blocked' = [blocked EXCEPT ![p] = ~@ /\ p = "parent"]
  /\ pc' = [pc EXCEPT ![p] = IF p = "parent" THEN "raise" ELSE "report"]
  /\ UNCHANGED <<parameters, argc, disposition, pending, buffer, output, raised>>

\* The child is not the process that main has run in.
Block(p) ==
  /\ pc[p] = "block"
  /\ blocked' = [blocked EXCEPT ![p] = @ \/ p = "parent"]
  /\ pc' = [pc EXCEPT ![p] = IF p = "parent" THEN "raise" ELSE "report"]
  /\ UNCHANGED <<parameters, argc, disposition, pending, buffer, output, raised>>

raise_signal(p) ==
  /\ pc[p] = "raise"
  /\ raised' = [raised EXCEPT ![p] = @ + 1]
  /\ printf(p, IF disposition[p] = "handler" /\ ~blocked[p]
                THEN <<"raising", "handling">> ELSE <<"raising">>)
  /\ pending' = [pending EXCEPT ![p] = @ \/ (blocked[p] /\ disposition[p] # "ignore")]
  /\ pc' = [pc EXCEPT ![p] = IF disposition[p] = "default" /\ ~blocked[p]
                               THEN "killed" ELSE "report"]
  /\ UNCHANGED <<parameters, argc, disposition, blocked>>

print_is_pending(p) ==
  /\ pc[p] = "report"
  /\ printf(p, IF command # "pending" THEN <<>>
              ELSE IF pending[p] THEN <<"pending">> ELSE <<"not pending">>)
  /\ pc' = [pc EXCEPT ![p] = IF p = "parent" THEN function ELSE "exit"]
  /\ UNCHANGED <<parameters, argc, disposition, blocked, pending, raised>>

\* Mutant: pending signals are inherited as the mask is.
ForkPending ==
  /\ pc["parent"] = "fork"
  /\ pc' = [parent |-> "wait", child |-> "install"]
  /\ disposition' = [disposition EXCEPT !["child"] = disposition["parent"]]
  /\ blocked' = [blocked EXCEPT !["child"] = blocked["parent"]]
  /\ pending' = [pending EXCEPT !["child"] = pending["parent"]]
  /\ buffer' = [buffer EXCEPT !["child"] = buffer["parent"]]
  /\ UNCHANGED <<parameters, argc, output, raised>>

Fork ==
  /\ pc["parent"] = "fork"
  /\ pc' = [parent |-> "wait", child |-> "install"]
  /\ disposition' = [disposition EXCEPT !["child"] = disposition["parent"]]
  /\ blocked' = [blocked EXCEPT !["child"] = blocked["parent"]]
  /\ buffer' = [buffer EXCEPT !["child"] = buffer["parent"]]
  /\ UNCHANGED <<parameters, argc, pending, output, raised>>

ForkFails ==
  /\ pc["parent"] = "fork"
  /\ pc' = [pc EXCEPT !["parent"] = "wait"]
  /\ UNCHANGED <<parameters, argc, disposition, blocked, pending, buffer, output, raised>>

Wait ==
  /\ pc["parent"] = "wait"
  /\ pc["child"] \in {"none", "done", "killed"}
  /\ pc' = [pc EXCEPT !["parent"] = "exit"]
  /\ UNCHANGED <<parameters, argc, disposition, blocked, pending, buffer, output, raised>>

\* The executed program counts four arguments and does not execute another.
Exec ==
  /\ pc["parent"] = "exec" /\ argc = 3
  /\ argc' = 4
  /\ disposition' = [disposition EXCEPT !["parent"] = IF @ = "handler" THEN "default" ELSE @]
  /\ buffer' = [buffer EXCEPT !["parent"] = <<>>]
  /\ pc' = [pc EXCEPT !["parent"] = "main"]
  /\ UNCHANGED <<parameters, blocked, pending, output, raised>>

ExecNot ==
  /\ pc["parent"] = "exec"
  /\ pc' = [pc EXCEPT !["parent"] = "exit"]
  /\ UNCHANGED <<parameters, argc, disposition, blocked, pending, buffer, output, raised>>

Exit(p) ==
  /\ pc[p] = "exit"
  /\ output' = output \o buffer[p]
  /\ buffer' = [buffer EXCEPT ![p] = <<>>]
  /\ pc' = [pc EXCEPT ![p] = "done"]
  /\ UNCHANGED <<parameters, argc, disposition, blocked, pending, raised>>

Next ==
  \/ Fork \/ ForkFails \/ Wait \/ Exec \/ ExecNot
  \/ \E p \in Processes :
       \/ Main(p) \/ Install(p) \/ Block(p) \/ raise_signal(p)
       \/ print_is_pending(p) \/ Exit(p)

Spec == Init /\ [][Next]_vars

-----------------------------------------------------------------------------
Reports == {"raising", "handling", "pending", "not pending"}

Lines == Processes \X Reports

TypeOK ==
  /\ command \in Commands /\ function \in Functions /\ terminal \in BOOLEAN
  /\ argc \in {3, 4}
  /\ pc \in [Processes -> {"none", "main", "install", "block", "raise", "report", "fork",
                            "exec", "wait", "exit", "done", "killed"}]
  /\ disposition \in [Processes -> {"default", "ignore", "handler"}]
  /\ blocked \in [Processes -> BOOLEAN] /\ pending \in [Processes -> BOOLEAN]
  /\ buffer \in [Processes -> Seq(Lines)]
  /\ output \in Seq(Lines)
  /\ raised \in [Processes -> 0..2]

Times(line) == Cardinality({k \in DOMAIN output : output[k] = line})

(***************************************************************************)
(* The signal never ends a process, although exec takes the handler away   *)
(* while the signal is pending: what is pending stays blocked, from the    *)
(* program that raised it to the one that is executed.                     *)
(***************************************************************************)
SurvivesSignal ==
  \A p \in Processes : pc[p] # "killed" /\ (pending[p] => blocked[p])

(***************************************************************************)
(* On a terminal each raise is reported once.  In a file, as the makefile  *)
(* makes it, what the parent printed before fork appears twice, and before *)
(* exec not at all.  Only the parent reports a pending signal, and the     *)
(* handler runs in the child too (lab4/zad1/wnioski).                      *)
(***************************************************************************)
ReportsRaises ==
  (\A p \in Processes : pc[p] \in {"none", "done"}) =>
    \A p \in Processes :
      LET copies == IF terminal THEN raised[p]
                    ELSE IF p = "parent" /\ function = "fork" /\ pc["child"] = "done"
                      THEN 2 * raised[p]
                    ELSE IF raised[p] = 0 THEN 0 ELSE 1
      IN  /\ Times(<<p, "raising">>) = copies
          /\ command = "handler" => Times(<<p, "handling">>) = copies
          /\ Times(<<p, "pending">>) = IF command = "pending" THEN copies ELSE 0
          /\ p = "parent" => Times(<<p, "not pending">>) = 0

=============================================================================
