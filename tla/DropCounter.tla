---------------------------- MODULE DropCounter ----------------------------
(***************************************************************************)
(* dropcounter.go: two atomic counters, incremented on the hot path, and   *)
(* the goroutine that polls them and logs how many payloads were dropped.  *)
(*                                                                         *)
(* Increment and Poll are two atomic operations each, and nothing keeps    *)
(* one apart from the other: every atomic operation is a step here.  A     *)
(* goroutine that increments again is another member of Callers, or the    *)
(* same one: who increments makes no difference.                           *)
(***************************************************************************)
EXTENDS Integers, FiniteSets

CONSTANTS
    Callers,   \* goroutines that may be inside Increment at the same time
    MaxDrops   \* bound: drops in a behaviour (the counters are 64 bits wide)

ASSUME CallersAssumption == IsFiniteSet(Callers) /\ MaxDrops \in Nat

VARIABLES
    Total, Interval,  \* the counters
    half,      \* callers between the two additions of Increment
    n,         \* intervalDrops of the Poll in progress
    poller,    \* the goroutine: at its select, in Poll, or returned
    stop,      \* the stop function, which polls once more itself
    warned,    \* history: the sum of all the intervals that were logged
    total,     \* history: the total that the last Poll returned
    pending    \* history: the drops counted when stop was called

vars == <<Total, Interval, half, n, poller, stop, warned, total, pending>>

TypeOK ==
    /\ Total \in 0..MaxDrops /\ Interval \in 0..MaxDrops /\ n \in 0..MaxDrops
    /\ half \subseteq Callers
    /\ poller \in {"select", "poll", "returned"}
    /\ stop \in {"uncalled", "wait", "poll", "returned"}
    /\ warned \in 0..MaxDrops /\ total \in 0..MaxDrops /\ pending \in 0..MaxDrops

Init ==
    /\ Total = 0 /\ Interval = 0 /\ n = 0
    /\ half = {}
    /\ poller = "select" /\ stop = "uncalled"
    /\ warned = 0 /\ total = 0 /\ pending = 0

\* Increment: d.Total.Add(1), then d.Interval.Add(1).
AddTotal(c) ==
    /\ c \notin half
    /\ Total < MaxDrops
    /\ Total' = Total + 1
    /\ half' = half \cup {c}
    /\ UNCHANGED <<Interval, n, poller, stop, warned, total, pending>>

\* Mutant of AddInterval: only Total is incremented.
AddNothing(c) ==
    /\ c \in half
    /\ half' = half \ {c}
    /\ UNCHANGED <<Total, Interval, n, poller, stop, warned, total, pending>>

AddInterval(c) ==
    /\ c \in half
    /\ Interval' = Interval + 1
    /\ half' = half \ {c}
    /\ UNCHANGED <<Total, n, poller, stop, warned, total, pending>>

\* Mutant of Swap: d.Interval.Load().
LoadInterval == n' = Interval /\ UNCHANGED <<Interval, warned, total>>

\* Poll: d.Interval.Swap(0) ...
Swap == n' = Interval /\ Interval' = 0 /\ UNCHANGED <<warned, total>>

\* ... then d.Total.Load(); the caller logs both when the interval had drops.
LoadTotal ==
    /\ total' = Total
    /\ warned' = warned + n
    /\ n' = 0
    /\ UNCHANGED Interval

\* The ticker fires; a tick is still possible once stop has cancelled.
PollerSwap ==
    /\ poller = "select" /\ poller' = "poll"
    /\ Swap
    /\ UNCHANGED <<Total, half, stop, pending>>
PollerLoad ==
    /\ poller = "poll" /\ poller' = "select"
    /\ LoadTotal
    /\ UNCHANGED <<Total, half, stop, pending>>

\* stop: cancel, wait for the goroutine to return, poll for the last time.
Cancel ==
    /\ stop = "uncalled" /\ stop' = "wait"
    /\ pending' = warned + n + Interval
    /\ UNCHANGED <<Total, Interval, half, n, poller, warned, total>>
PollerReturns ==
    /\ stop = "wait"
    /\ poller = "select" /\ poller' = "returned"
    /\ UNCHANGED <<Total, Interval, half, n, stop, warned, total, pending>>

\* Mutant of StopSwap: what accumulated since the last tick is not flushed.
StopWithoutPoll ==
    /\ stop = "wait" /\ poller = "returned"
    /\ stop' = "returned"
    /\ UNCHANGED <<Total, Interval, half, n, poller, warned, total, pending>>

StopSwap ==
    /\ stop = "wait" /\ poller = "returned"
    /\ stop' = "poll"
    /\ Swap
    /\ UNCHANGED <<Total, half, poller, pending>>
StopLoad ==
    /\ stop = "poll" /\ stop' = "returned"
    /\ LoadTotal
    /\ UNCHANGED <<Total, half, poller, pending>>

Increment(c) == AddTotal(c) \/ AddInterval(c)
Poll == PollerSwap \/ PollerLoad
Stop == PollerReturns \/ StopSwap \/ StopLoad

\* Increments may go on after stop: nothing joins the goroutines that drop.
Terminating ==
    /\ stop = "returned" /\ half = {}
    /\ UNCHANGED vars

Next == (\E c \in Callers : Increment(c)) \/ Poll \/ Cancel \/ Stop \/ Terminating

\* A goroutine inside Increment goes on, and the ticker keeps ticking.
Fairness == WF_vars(Poll) /\ \A c \in Callers : WF_vars(AddInterval(c))

Spec == Init /\ [][Next]_vars
FairSpec == Spec /\ Fairness

-----------------------------------------------------------------------------
\* No drop is counted twice or forgotten between the two counters and the log.
Accounted == warned + n + Interval + Cardinality(half) = Total

\* A warning says "Dropped n ... (total: t)": added up, the warnings so far
\* never exceed the total that the last one gives.  It takes Increment to
\* count in Total first and Poll to read Total last.
WarningsWithinTotal == warned <= total

\* The stop function leaves no drop unreported that was counted before it was
\* called, whatever a poll in progress had already taken.
StopFlushes == stop = "returned" => warned >= pending

\* The log catches up: a drop is reported at some poll, as long as there are any.
DropsAreReported ==
    \A k \in 1..MaxDrops : Total >= k ~> warned >= k \/ stop # "uncalled"

IInv ==
    /\ TypeOK
    /\ Accounted
    /\ WarningsWithinTotal
    /\ StopFlushes
    /\ total <= Total
    /\ poller # "poll" /\ stop # "poll" => n = 0
    /\ stop = "uncalled" => pending = 0
    /\ stop # "uncalled" => pending <= warned + n + Interval
    /\ stop \in {"poll", "returned"} => poller = "returned"
    /\ stop \in {"poll", "returned"} => pending <= warned + n
=============================================================================
