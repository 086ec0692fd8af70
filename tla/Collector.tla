----------------------------- MODULE Collector -----------------------------
(***************************************************************************)
(* collector.go: the goroutine that batches telemetry entries and the      *)
(* goroutine, at most one at a time, that flushes a batch.                 *)
(*                                                                         *)
(* Only startCollector's own goroutine appends to activeBatch.  The flush  *)
(* goroutine clears the `flushing` flag before it leaves the wait group,   *)
(* two steps between which the next flush may start.                       *)
(***************************************************************************)
EXTENDS Integers, Sequences

CONSTANTS
    MaxEntries,  \* bound: entries in a behaviour, numbered as they are sent
    InputCap,    \* capacity of collectorInput
    BatchSize,   \* cfg.batchSize
    MaxBacklog   \* bound: ticks skipped in a row because a flush is running

ASSUME CollectorAssumption ==
    /\ MaxEntries \in Nat /\ MaxBacklog \in Nat
    /\ InputCap \in Nat \ {0} /\ BatchSize \in Nat \ {0}

VARIABLES
    sent,         \* the entry sent last
    input,        \* collectorInput
    inputOpen,    \* FALSE once it is closed
    cpc,          \* the collector: in its select, waiting for flushes, in its
                  \* own final flush, or returned
    activeBatch,
    flushBatch,   \* what the flush goroutine was given
    flushing,     \* the flag
    flusher,      \* the flush goroutine: none, flushing, or about to clear the flag
    flushWg,      \* goroutines that have not left the wait group
    flushBacklog  \* collectorStats

collectorVars == <<sent, input, inputOpen, cpc, activeBatch, flushBatch,
                   flushing, flusher, flushWg, flushBacklog>>

CollectorTypeOK ==
    /\ sent \in 0..MaxEntries
    /\ input \in Seq(1..MaxEntries) /\ Len(input) <= InputCap
    /\ inputOpen \in BOOLEAN
    /\ cpc \in {"select", "wait", "final", "returned"}
    /\ activeBatch \in Seq(1..MaxEntries)
    /\ flushBatch \in Seq(1..MaxEntries)
    /\ flushing \in BOOLEAN
    /\ flusher \in {"none", "flush", "clear"}
    /\ flushWg \in 0..MaxEntries
    /\ flushBacklog \in Nat

CollectorInit ==
    /\ sent = 0
    /\ input = <<>> /\ inputOpen = TRUE
    /\ cpc = "select"
    /\ activeBatch = <<>> /\ flushBatch = <<>>
    /\ flushing = FALSE /\ flusher = "none"
    /\ flushWg = 0 /\ flushBacklog = 0

\* A new process, after a stop or a crash: what was in memory is gone.
CollectorRestart ==
    /\ input' = <<>> /\ inputOpen' = TRUE
    /\ cpc' = "select"
    /\ activeBatch' = <<>> /\ flushBatch' = <<>>
    /\ flushing' = FALSE /\ flusher' = "none"
    /\ flushWg' = 0 /\ flushBacklog' = 0
    /\ UNCHANGED sent

\* The tracker's emit succeeds (what it does when there is no room, see
\* SessionTracker).
Feed ==
    /\ inputOpen
    /\ sent < MaxEntries
    /\ Len(input) < InputCap
    /\ sent' = sent + 1
    /\ input' = Append(input, sent + 1)
    /\ UNCHANGED <<inputOpen, cpc, activeBatch, flushBatch, flushing, flusher,
                   flushWg, flushBacklog>>

\* waitPipeline: close(collectorInput)
CloseInput ==
    /\ inputOpen
    /\ inputOpen' = FALSE
    /\ UNCHANGED <<sent, input, cpc, activeBatch, flushBatch, flushing, flusher,
                   flushWg, flushBacklog>>

\* tryFlush, b being the batch so far: hand it to a flush goroutine unless
\* one is running.
StartFlush(b) ==
    /\ ~flushing
    /\ flushing' = TRUE
    /\ flusher' = "flush"
    /\ flushBatch' = b
    /\ activeBatch' = <<>>
    /\ flushWg' = flushWg + 1
    /\ UNCHANGED flushBacklog
SkipFlush(b) ==
    /\ flushing
    /\ activeBatch' = b
    /\ flushBacklog' = flushBacklog + 1
    /\ UNCHANGED <<flushBatch, flushing, flusher, flushWg>>

\* Mutant of tryFlush: the flag is not looked at.
FlushAnyway(b) ==
    /\ flushing' = TRUE
    /\ flusher' = "flush"
    /\ flushBatch' = b
    /\ activeBatch' = <<>>
    /\ flushWg' = flushWg + 1
    /\ UNCHANGED flushBacklog

tryFlush(b) == StartFlush(b) \/ SkipFlush(b)

\* case entry := <-cfg.input
Receive ==
    /\ cpc = "select"
    /\ input # <<>>
    /\ input' = Tail(input)
    /\ LET b == Append(activeBatch, Head(input))
       IN  IF Len(b) >= BatchSize THEN tryFlush(b)
           ELSE /\ activeBatch' = b
                /\ UNCHANGED <<flushBatch, flushing, flusher, flushWg, flushBacklog>>
    /\ UNCHANGED <<sent, inputOpen, cpc>>

\* Mutant of Tick: only full batches are flushed.
TickFull ==
    /\ cpc = "select"
    /\ Len(activeBatch) >= BatchSize
    /\ flushing => flushBacklog < MaxBacklog
    /\ tryFlush(activeBatch)
    /\ UNCHANGED <<sent, input, inputOpen, cpc>>

\* case <-ticker.C
Tick ==
    /\ cpc = "select"
    /\ activeBatch # <<>>
    /\ flushing => flushBacklog < MaxBacklog
    /\ tryFlush(activeBatch)
    /\ UNCHANGED <<sent, input, inputOpen, cpc>>

\* The input is closed and drained.
SeeClosed ==
    /\ cpc = "select"
    /\ ~inputOpen /\ input = <<>>
    /\ cpc' = "wait"
    /\ UNCHANGED <<sent, input, inputOpen, activeBatch, flushBatch, flushing,
                   flusher, flushWg, flushBacklog>>

\* flushWg.Wait() returns.
FlushesDone == flushWg = 0

Waited ==
    /\ cpc = "wait"
    /\ FlushesDone
    /\ cpc' = IF activeBatch = <<>> THEN "returned" ELSE "final"
    /\ UNCHANGED <<sent, input, inputOpen, activeBatch, flushBatch, flushing,
                   flusher, flushWg, flushBacklog>>

\* cfg.flush returns to the flush goroutine ...
AsyncFlushed ==
    /\ flusher = "flush"
    /\ flusher' = "clear"
    /\ flushBatch' = <<>>
    /\ UNCHANGED <<sent, input, inputOpen, cpc, activeBatch, flushing, flushWg,
                   flushBacklog>>

\* ... or to the collector, which returns.
FinalFlushed ==
    /\ cpc = "final"
    /\ cpc' = "returned"
    /\ activeBatch' = <<>>
    /\ UNCHANGED <<sent, input, inputOpen, flushBatch, flushing, flusher,
                   flushWg, flushBacklog>>

\* The deferred calls of the flush goroutine, last one first.
ClearFlag ==
    /\ flusher = "clear"
    /\ flushing' = FALSE
    /\ flusher' = "none"
    /\ UNCHANGED <<sent, input, inputOpen, cpc, activeBatch, flushBatch, flushWg,
                   flushBacklog>>

\* Mutants of LeaveGroup: flushWg.Done() is called twice, or never.
LeaveTwice ==
    /\ flushWg > IF flusher = "none" THEN 0 ELSE 1
    /\ flushWg' = flushWg - 2
    /\ UNCHANGED <<sent, input, inputOpen, cpc, activeBatch, flushBatch, flushing,
                   flusher, flushBacklog>>
LeaveNever == FALSE /\ UNCHANGED collectorVars

\* flushWg.Done()
LeaveGroup ==
    /\ flushWg > IF flusher = "none" THEN 0 ELSE 1
    /\ flushWg' = flushWg - 1
    /\ UNCHANGED <<sent, input, inputOpen, cpc, activeBatch, flushBatch, flushing,
                   flusher, flushBacklog>>

CollectorStep == Receive \/ Tick \/ SeeClosed \/ Waited
FlusherStep == ClearFlag \/ LeaveGroup
=============================================================================
