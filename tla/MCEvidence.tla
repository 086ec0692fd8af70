----------------------------- MODULE MCEvidence -----------------------------
(* Model checking of Egress and Evidence on small instances. *)
EXTENDS Evidence
=============================================================================
