------------------------------- MODULE MCLife -------------------------------
(***************************************************************************)
(* Life on a board of two by two cells, where cells die, survive and are   *)
(* born.                                                                   *)
(***************************************************************************)
EXTENDS Life

\* A state in which a sleep was too short has no successor in the run.  The
\* properties say nothing of what follows it, since timely stays FALSE.
Timely == timely

=============================================================================
