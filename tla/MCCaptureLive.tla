--------------------------- MODULE MCCaptureLive ---------------------------
(* The liveness properties of Capture on a small instance. *)
EXTENDS Capture

\* The liveness run, which cannot use symmetry: one request with a body of
\* MaxBody units and others of one unit.  Close before the end covers what is
\* shorter.
CONSTANT Long
ASSUME LongAssumption == Long \in Requests
MCInit == Init /\ body = [r \in Requests |-> IF r = Long THEN MaxBody ELSE 1]

\* Only the readers are scheduled: the assembler may stall for ever.  Properties
\* that need more say so themselves.
MCFairSpec == MCInit /\ [][Next]_vars /\ ReaderFairness
=============================================================================
