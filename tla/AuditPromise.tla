---------------------------- MODULE AuditPromise ----------------------------
(***************************************************************************)
(* What the capture path promises about each request, whatever blocks,     *)
(* queues and goroutines are behind it:                                    *)
(*                                                                         *)
(*   - upstream's body is passed on, and nothing the audit does stops it;  *)
(*   - the audit records a request at most once, after the last unit was   *)
(*     passed on, and then exactly the units upstream got;                 *)
(*   - or the request is lost, which is counted, and never recorded.       *)
(***************************************************************************)
EXTENDS Integers, Sequences

CONSTANTS Requests, MaxBody

VARIABLES
    passed,   \* units of the body upstream got
    record,   \* what the audit recorded, a sequence of payloads
    lost      \* some counter says the request was not audited

vars == <<passed, record, lost>>

Init ==
    /\ passed = [r \in Requests |-> 0]
    /\ record = [r \in Requests |-> <<>>]
    /\ lost = [r \in Requests |-> FALSE]

\* Allowed whether the request is lost already or not: capture fails open.
Pass(r) ==
    /\ record[r] = <<>>
    /\ \E n \in (passed[r] + 1)..MaxBody : passed' = [passed EXCEPT ![r] = n]
    /\ UNCHANGED <<record, lost>>

Record(r) ==
    /\ record[r] = <<>> /\ ~lost[r]
    /\ passed[r] > 0
    /\ record' = [record EXCEPT ![r] = <<[k \in 1..passed[r] |-> k]>>]
    /\ UNCHANGED <<passed, lost>>

Lose(r) ==
    /\ record[r] = <<>>
    /\ lost' = [lost EXCEPT ![r] = TRUE]
    /\ UNCHANGED <<passed, record>>

Next == \E r \in Requests : Pass(r) \/ Record(r) \/ Lose(r)

Spec == Init /\ [][Next]_vars
=============================================================================
