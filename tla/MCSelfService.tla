---------------------------- MODULE MCSelfService ----------------------------
(* SelfService with a few clients. *)
EXTENDS SelfService
=============================================================================
