------------------------------ MODULE MCSanta ------------------------------
(* Santa with a few reindeer and elves. *)
EXTENDS Santa
=============================================================================
