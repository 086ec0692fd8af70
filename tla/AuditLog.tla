------------------------------ MODULE AuditLog ------------------------------
(***************************************************************************)
(* What batching, files and evidence promise about the entries they are    *)
(* given, whatever fails and however often the process ends:               *)
(*                                                                         *)
(*   - the log that can be read has entries in the order in which they     *)
(*     were accepted, each at most once; it grows by one entry at its end  *)
(*     and forgets from its beginning;                                     *)
(*   - the evidence reports exactly what was written, entry for entry and  *)
(*     once, unless the process ends before.                               *)
(***************************************************************************)
EXTENDS Integers, Sequences

CONSTANT MaxEntries

VARIABLES
    accepted,    \* the entry accepted last; they are numbered from 1 on
    log,         \* the entries that can be read
    last,        \* the entry written last
    unreported,  \* entries that this process has written and not yet reported
    reported     \* entries that this process has reported

vars == <<accepted, log, last, unreported, reported>>

Init == accepted = 0 /\ log = <<>> /\ last = 0 /\ unreported = <<>> /\ reported = <<>>

Accept ==
    /\ accepted < MaxEntries
    /\ accepted' = accepted + 1
    /\ UNCHANGED <<log, last, unreported, reported>>

\* An entry that is skipped is never written.
Write(e) ==
    /\ last < e /\ e <= accepted
    /\ last' = e
    /\ log' = Append(log, e)
    /\ unreported' = Append(unreported, e)
    /\ UNCHANGED <<accepted, reported>>

Forget(n) ==
    /\ log' = SubSeq(log, n + 1, Len(log))
    /\ UNCHANGED <<accepted, last, unreported, reported>>

Report ==
    /\ reported' = reported \o unreported
    /\ unreported' = <<>>
    /\ UNCHANGED <<accepted, log, last>>

\* The log is on disk, the rest is not.
Restart ==
    /\ unreported' = <<>> /\ reported' = <<>>
    /\ UNCHANGED <<accepted, log, last>>

Next ==
    \/ Accept \/ Report \/ Restart
    \/ \E e \in 1..MaxEntries : Write(e)
    \/ \E n \in 1..Len(log) : Forget(n)

Spec == Init /\ [][Next]_vars
=============================================================================
