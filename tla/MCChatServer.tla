---------------------------- MODULE MCChatServer ----------------------------
(* ChatServer with two clients and a table of one slot or of two. *)
EXTENDS ChatServer

Symmetry == Permutations(Clients)
=============================================================================
