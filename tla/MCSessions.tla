----------------------------- MODULE MCSessions -----------------------------
(* Model checking of Workers and SessionTracker on a small instance. *)
EXTENDS SessionTracker
=============================================================================
