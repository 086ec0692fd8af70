--------------------------- MODULE MCDropCounter ---------------------------
(* Model checking of DropCounter on a small instance. *)
EXTENDS DropCounter
=============================================================================
