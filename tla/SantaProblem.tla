---------------------------- MODULE SantaProblem ----------------------------
(***************************************************************************)
(* What lab9/zad1 promises, without threads, mutexes or conditions: groups *)
(* of elves and herds of reindeer fill up one by one, Santa serves only    *)
(* complete ones, serving empties them, and he makes at most DELIVERIES    *)
(* deliveries.                                                             *)
(***************************************************************************)
EXTENDS Naturals

CONSTANTS ELVES_REQUIRED, REINDEER_TOTAL, DELIVERIES

VARIABLES group, herd, deliveries

vars == <<group, herd, deliveries>>

Init == group = 0 /\ herd = 0 /\ deliveries = 0

ElfArrives ==
  /\ group < ELVES_REQUIRED
  /\ group' = group + 1
  /\ UNCHANGED <<herd, deliveries>>

SolveProblems ==
  /\ group = ELVES_REQUIRED
  /\ group' = 0
  /\ UNCHANGED <<herd, deliveries>>

ReindeerArrives ==
  /\ herd < REINDEER_TOTAL
  /\ herd' = herd + 1
  /\ UNCHANGED <<group, deliveries>>

DeliverToys ==
  /\ herd = REINDEER_TOTAL
  /\ deliveries < DELIVERIES
  /\ herd' = 0
  /\ deliveries' = deliveries + 1
  /\ UNCHANGED group

Next == ElfArrives \/ SolveProblems \/ ReindeerArrives \/ DeliverToys

Spec == Init /\ [][Next]_vars

=============================================================================
