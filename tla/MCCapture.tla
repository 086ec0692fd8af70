----------------------------- MODULE MCCapture -----------------------------
(* Model checking of Capture on small instances. *)
EXTENDS Capture, TLC

\* Blocks are interchangeable, and so are requests.
Symmetry == Permutations(Blocks) \cup Permutations(Requests)

\* What a pooled block still contains is never read: Get resets it.
View == <<pool, [b \in Blocks \ pool |-> blk[b]], queueVars, readerVars, asmVars>>
=============================================================================
