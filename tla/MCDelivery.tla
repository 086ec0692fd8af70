----------------------------- MODULE MCDelivery -----------------------------
(* Model checking of Collector, JSONLWriter and Delivery on small instances. *)
EXTENDS Delivery
=============================================================================
