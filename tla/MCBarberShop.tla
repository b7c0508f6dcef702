---------------------------- MODULE MCBarberShop ----------------------------
(* BarberShop with a few processes and a segment of a few bytes. *)
EXTENDS BarberShop
=============================================================================
