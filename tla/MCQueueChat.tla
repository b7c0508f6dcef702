---------------------------- MODULE MCQueueChat ----------------------------
(* QueueChat with a few clients and queues of a few messages. *)
EXTENDS QueueChat, TLC

\* Clients are interchangeable in the invariants.
Symmetry == Permutations(Clients)
=============================================================================
