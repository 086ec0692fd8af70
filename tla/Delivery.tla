------------------------------ MODULE Delivery ------------------------------
(***************************************************************************)
(* From the tracker's output to the telemetry files and the counts of the  *)
(* evidence: Collector, the flush callback of run.go, and JSONLWriter,     *)
(* through failing file systems, crashes and restarts.                     *)
(***************************************************************************)
EXTENDS Collector, JSONLWriter

CONSTANT MaxRestarts    \* bound: processes started after the first one
ASSUME RestartsAssumption == MaxRestarts \in Nat

VARIABLES
    ingested,   \* entries the aggregator and the metrics have counted
    ioErrors,   \* batches whose Flush returned an error
    handled,    \* history: entries whose Flush has returned
    persisted,  \* history: entries whose line was written, by any process
    base,       \* history: the entry sent last by the former processes
    former,     \* history: how many entries the former processes wrote
    restarts

deliveryVars == <<ingested, ioErrors, handled, persisted, base, former, restarts>>
vars == <<collectorVars, writerVars, deliveryVars>>

TypeOK ==
    /\ CollectorTypeOK /\ WriterTypeOK
    /\ ingested \in Seq(Nat) /\ handled \in Seq(Nat) /\ persisted \in Seq(Nat)
    /\ ioErrors \in 0..MaxEntries
    /\ base \in 0..sent /\ former \in 0..Len(persisted)
    /\ restarts \in 0..MaxRestarts

Init ==
    /\ CollectorInit /\ WriterInit
    /\ ingested = <<>> /\ ioErrors = 0
    /\ handled = <<>> /\ persisted = <<>>
    /\ base = 0 /\ former = 0 /\ restarts = 0

\* cfg.flush(flushBatch), in the flush goroutine, and cfg.flush(activeBatch),
\* in the collector's: the writer has no lock of its own.
StartWriting ==
    /\ \/ flusher = "flush" /\ FlushCall(flushBatch)
       \/ cpc = "final" /\ FlushCall(activeBatch)
    /\ UNCHANGED <<collectorVars, deliveryVars>>

Writing ==
    /\ WriterStep
    /\ persisted' = IF written' > written THEN Append(persisted, batch[written'])
                    ELSE persisted
    /\ UNCHANGED <<collectorVars, ingested, ioErrors, handled, base, former,
                   restarts>>

\* Mutant of Persisted: the whole batch is reported.
AllOfBatch == batch

\* batch[:written]
Persisted == SubSeq(batch, 1, written)

\* Flush returns: errors are counted, what was persisted is reported.
Report ==
    /\ wpc = "return"
    /\ wpc' = "idle" /\ batch' = <<>> /\ written' = 0 /\ totalBytes' = 0
    /\ failed' = FALSE
    /\ ioErrors' = IF failed THEN ioErrors + 1 ELSE ioErrors
    /\ ingested' = ingested \o Persisted
    /\ handled' = handled \o batch
    /\ IF cpc = "final" THEN FinalFlushed ELSE AsyncFlushed
    /\ UNCHANGED <<fileVars, diskVars, faults, persisted, base, former, restarts>>

\* The process ends, at any point or regularly, and another one starts.
Restart ==
    /\ restarts < MaxRestarts
    /\ restarts' = restarts + 1
    /\ CollectorRestart /\ Reopen
    /\ ingested' = <<>> /\ ioErrors' = 0 /\ handled' = <<>>
    /\ base' = sent /\ former' = Len(persisted)
    /\ UNCHANGED persisted

Outside == UNCHANGED <<writerVars, deliveryVars>>
Terminating == cpc = "returned" /\ flusher = "none" /\ flushWg = 0 /\ UNCHANGED vars

Next ==
    \/ (Feed \/ CloseInput \/ CollectorStep \/ FlusherStep) /\ Outside
    \/ Age /\ UNCHANGED <<collectorVars, deliveryVars>>
    \/ StartWriting \/ Writing \/ Report
    \/ Restart
    \/ Terminating

Spec == Init /\ [][Next]_vars

\* The goroutines run on, the ticker ticks and the file system answers.
Fairness ==
    /\ WF_vars((Receive \/ SeeClosed \/ Waited) /\ Outside)
    /\ WF_vars(Tick /\ Outside)
    /\ WF_vars(FlusherStep /\ Outside)
    /\ WF_vars(StartWriting) /\ WF_vars(Writing) /\ WF_vars(Report)

FairSpec == Spec /\ Fairness

-----------------------------------------------------------------------------
(* Properties *)

\* The double buffer loses, doubles and reorders nothing, though a final flush
\* follows the asynchronous ones and nothing but the collector serialises them: what this process
\* was sent is, in this order, flushed, being flushed, batched or still queued.
InOrderNoLoss ==
    handled \o flushBatch \o activeBatch \o input = [i \in 1..(sent - base) |-> base + i]

Quiet == flusher # "flush" /\ cpc # "final"

\* What the evidence counts is what this process has written, entry for entry,
\* and a batch of which an entry is missing was counted as an error.
CountedIsPersisted ==
    Quiet => /\ ingested = SubSeq(persisted, former + 1, Len(persisted))
             /\ ioErrors = 0 => ingested = handled

\* Rotation, retention, failures and restarts forget the oldest entries only:
\* what the files hold is the end of everything ever written.
OldestForgotten == IsSuffix(OnDisk, persisted)

\* "the entire triggering batch goes to the new file, never split across files"
BatchInOneFile ==
    \A i, j \in DOMAIN Disk : i # j =>
        {c.of : c \in ToSet(Disk[i])} \cap {c.of : c \in ToSet(Disk[j])} = {}

\* "so needsRotation sees the correct on-disk size": also after partial
\* writes, failed rotations and restarts.
SizeTracked == file /\ wpc = "idle" => currentBytes = Size(active)

\* The disk does not fill up: every failure of the retention, and every process
\* that ended before it, leaves at most one file more than configured.
DiskBounded == Len(rotated) <= MaxFiles + 1 + faults + restarts

\* Whatever fails in the writer, the collector and its flushes drain the input
\* and return: shutdown does not wait for ever.
DrainsAtClose == ~inputOpen ~> cpc = "returned" \/ inputOpen

\* No entry is forgotten in a batch that no longer fills up, or one that a
\* running flush has put off: whenever traffic pauses, everything that this
\* process was sent has been flushed after a while.
EntriesAreFlushed == []<>(base + Len(handled) = sent)

-----------------------------------------------------------------------------
(* Refinement *)

\* The entry written last, in this process or in a former one.
LastWritten == IF persisted = <<>> THEN 0 ELSE Last(persisted)

Log == INSTANCE AuditLog WITH
    accepted <- sent,
    log <- OnDisk,
    last <- LastWritten,
    unreported <- SubSeq(batch, 1, written),
    reported <- ingested

\* Seen from outside, collector, writer and flush callback keep a log, step by
\* step: batches, rotations, torn lines, failures and restarts do not show in it
\* but as entries that are missing, and the evidence counts what is written.
KeepsLog == Log!Spec

-----------------------------------------------------------------------------
(* What the comments say and the code does not do *)

\* jsonlwriter.go:32, "one JSON object per line": a line is not appended to the
\* torn one that a failed write has left.
OneObjectPerLine ==
    \A i \in DOMAIN Disk : \A k \in 2..Len(Disk[i]) :
        Whole(Disk[i][k]) => Whole(Disk[i][k - 1])
=============================================================================
