------------------------------ MODULE Evidence ------------------------------
(***************************************************************************)
(* The evidence summaries: aggregator.go, the ticker goroutine of run.go   *)
(* that closes a window and dispatches its summary (Egress), and the       *)
(* shutdown that makes the final report.                                   *)
(*                                                                         *)
(* The aggregator's methods are atomic under its mutex.  Drops and I/O     *)
(* errors are counted outside of it, by atomics that the ticker and, at    *)
(* the end, the main goroutine read; what they reported last is in plain   *)
(* variables that the two goroutines share.                                *)
(***************************************************************************)
EXTENDS Egress, Functions

CONSTANTS
    MaxRequests,  \* bound: requests in a behaviour
    MaxWindows    \* bound: windows the ticker closes

ASSUME EvidenceAssumption == MaxRequests \in Nat /\ MaxWindows \in Nat

VARIABLES
    open,              \* requests that arrived and have had no outcome yet
    requestsAudited,   \* Aggregator: since the window started ...
    latencySamples,    \* ... and the requests that arrived in it
    Total, ioErrors,   \* DropCounter.Total; batches that were not written
    lastDropsReported, lastIOErrsReported,
    ticker,            \* where the ticker goroutine is
    tDrops, tIOErrs,   \* its windowDrops and windowIOErrs
    main,              \* where Run is
    fDrops,            \* its finalDrops
    pipelineUp,        \* the collector may still flush
    pipelineStopped, tickerStopped,  \* what Run has seen of them
    cancelled,         \* tickerCancel has been called
    budget,            \* FALSE once the 5 s flush budget is used up
    writerOpen,        \* jsonlWriter has not been closed
    windows,           \* history: the summaries made, in order
    audited, dropped, failed  \* history: outcomes of all requests so far

countVars == <<open, requestsAudited, latencySamples, Total, ioErrors, audited,
               dropped, failed>>
lastVars == <<lastDropsReported, lastIOErrsReported>>
tickerVars == <<ticker, tDrops, tIOErrs>>
mainVars == <<main, fDrops, pipelineUp, pipelineStopped, tickerStopped, cancelled,
              budget, writerOpen>>
vars == <<countVars, lastVars, tickerVars, mainVars, windows, egressVars>>

\* EvidenceSummary.
Summary == [processed : Nat, audited : Nat, dropped : Nat, io : Nat,
            partial : BOOLEAN]

TypeOK ==
    /\ EgressTypeOK
    /\ open \in 0..MaxRequests
    /\ requestsAudited \in 0..audited /\ latencySamples \in 0..MaxRequests
    /\ Total \in Nat /\ ioErrors \in Nat
    /\ lastDropsReported \in 0..Total /\ lastIOErrsReported \in 0..ioErrors
    /\ ticker \in {"select", "drops", "io", "snapshot", "dispatch", "returned"}
    /\ tDrops \in Nat /\ tIOErrs \in Nat /\ fDrops \in Nat
    /\ main \in {"serving", "pipeline", "ticker", "finalDrops", "final", "close",
                 "metrics", "poller", "done"}
    /\ {pipelineUp, pipelineStopped, tickerStopped, cancelled, budget, writerOpen}
         \subseteq BOOLEAN
    /\ windows \in Seq(Summary)
    /\ audited \in Nat /\ dropped \in Nat /\ failed \in Nat

Init ==
    /\ EgressInit
    /\ open = 0 /\ requestsAudited = 0 /\ latencySamples = 0
    /\ Total = 0 /\ ioErrors = 0
    /\ lastDropsReported = 0 /\ lastIOErrsReported = 0
    /\ ticker = "select" /\ tDrops = 0 /\ tIOErrs = 0
    /\ main = "serving" /\ fDrops = 0
    /\ pipelineUp = TRUE /\ pipelineStopped = FALSE /\ tickerStopped = FALSE
    /\ cancelled = FALSE /\ budget = TRUE /\ writerOpen = TRUE
    /\ windows = <<>>
    /\ audited = 0 /\ dropped = 0 /\ failed = 0

NotCounting == UNCHANGED <<lastVars, tickerVars, mainVars, windows, egressVars>>

-----------------------------------------------------------------------------
(* What happens to requests *)

\* RecordLatency, in the proxy's Rewrite.
Arrive ==
    /\ main = "serving"
    /\ open + audited + dropped + failed < MaxRequests
    /\ open' = open + 1
    /\ latencySamples' = latencySamples + 1
    /\ UNCHANGED <<requestsAudited, Total, ioErrors, audited, dropped, failed>>
    /\ NotCounting

\* Ingest of a record.
Ingest ==
    /\ pipelineUp
    /\ open > 0 /\ open' = open - 1
    /\ requestsAudited' = requestsAudited + 1
    /\ audited' = audited + 1
    /\ UNCHANGED <<latencySamples, Total, ioErrors, dropped, failed>>
    /\ NotCounting

\* Capture gives up.  Handlers that outlive the shutdown's drain may still.
Drop ==
    /\ open > 0 /\ open' = open - 1
    /\ Total' = Total + 1
    /\ dropped' = dropped + 1
    /\ UNCHANGED <<requestsAudited, latencySamples, ioErrors, audited, failed>>
    /\ NotCounting

\* The record's batch is not written.
WriteError ==
    /\ pipelineUp
    /\ open > 0 /\ open' = open - 1
    /\ ioErrors' = ioErrors + 1
    /\ failed' = failed + 1
    /\ UNCHANGED <<requestsAudited, latencySamples, Total, audited, dropped>>
    /\ NotCounting

-----------------------------------------------------------------------------
(* SnapshotAndReset *)

\* Mutant of Reset: the audited requests are not reset.
ResetLatency == latencySamples' = 0 /\ UNCHANGED requestsAudited

Reset == requestsAudited' = 0 /\ latencySamples' = 0

SnapshotAndReset(io, drops, partial) ==
    /\ windows' = Append(windows,
           [processed |-> latencySamples, audited |-> requestsAudited,
            dropped |-> drops, io |-> io, partial |-> partial])
    /\ Reset
    /\ UNCHANGED <<open, Total, ioErrors, audited, dropped, failed>>

-----------------------------------------------------------------------------
(* The ticker goroutine *)

\* A tick, and the check that it is not one too late.
Tick ==
    /\ ticker = "select"
    /\ Len(windows) < MaxWindows
    /\ ticker' = IF cancelled THEN "returned" ELSE "drops"
    /\ UNCHANGED <<countVars, lastVars, tDrops, tIOErrs, mainVars, windows, egressVars>>

\* drops.Total.Load()
LoadDrops ==
    /\ ticker = "drops" /\ ticker' = "io"
    /\ tDrops' = Total - lastDropsReported
    /\ UNCHANGED <<countVars, lastVars, tIOErrs, mainVars, windows, egressVars>>

\* Mutant of Reported: the counter is loaded a second time.
ReportedAfresh == lastDropsReported' = Total

\* lastDropsReported = currentDrops
Reported == lastDropsReported' = lastDropsReported + tDrops

\* ioErrors.Load(), and what has been reported with it.
LoadIOErrs ==
    /\ ticker = "io" /\ ticker' = "snapshot"
    /\ tIOErrs' = ioErrors - lastIOErrsReported
    /\ lastIOErrsReported' = ioErrors
    /\ Reported
    /\ UNCHANGED <<countVars, tDrops, mainVars, windows, egressVars>>

TickerSnapshot ==
    /\ ticker = "snapshot" /\ ticker' = "dispatch"
    /\ SnapshotAndReset(tIOErrs, tDrops, FALSE)
    /\ StartDispatch(Len(windows) + 1, cancelled)
    /\ UNCHANGED <<lastVars, tDrops, tIOErrs, mainVars>>

Dispatching ==
    /\ DispatchStep \/ Timeout \/ Receive
    /\ UNCHANGED <<countVars, lastVars, tickerVars, mainVars, windows>>

Dispatched ==
    /\ ticker = "dispatch" /\ ticker' = "select"
    /\ dispatch = "none"
    /\ UNCHANGED <<countVars, lastVars, tDrops, tIOErrs, mainVars, windows, egressVars>>

\* case <-tickerCtx.Done()
TickerReturns ==
    /\ ticker = "select" /\ ticker' = "returned"
    /\ cancelled
    /\ UNCHANGED <<countVars, lastVars, tDrops, tIOErrs, mainVars, windows, egressVars>>

TickerStep == LoadDrops \/ LoadIOErrs \/ TickerSnapshot \/ Dispatched \/ TickerReturns

-----------------------------------------------------------------------------
(* Run, from the signal on *)

NotMain == UNCHANGED <<countVars, lastVars, tickerVars, windows>>

\* The signal; the server has drained or was closed; the audit queue is closed
\* and the flush budget starts.
Signal ==
    /\ main = "serving" /\ main' = "pipeline"
    /\ NotMain
    /\ UNCHANGED <<fDrops, pipelineUp, pipelineStopped, tickerStopped, cancelled,
                   budget, writerOpen, egressVars>>

\* waitPipeline returns, in time or not.
PipelineEnds ==
    /\ main # "serving"
    /\ pipelineUp /\ pipelineUp' = FALSE
    /\ NotMain
    /\ UNCHANGED <<main, fDrops, pipelineStopped, tickerStopped, cancelled, budget,
                   writerOpen, egressVars>>

BudgetEnds ==
    /\ main # "serving"
    /\ budget /\ budget' = FALSE
    /\ NotMain
    /\ UNCHANGED <<main, fDrops, pipelineUp, pipelineStopped, tickerStopped,
                   cancelled, writerOpen, egressVars>>

\* Mutant of OutOfBudget: the waits have no time limit.
NoBudget == FALSE

\* case <-flushCtx.Done() of both selects, and of Server.Shutdown.
OutOfBudget == ~budget

\* The first select, and tickerCancel().
PipelineAwaited ==
    /\ main = "pipeline" /\ main' = "ticker"
    /\ \/ ~pipelineUp /\ pipelineStopped' = TRUE
       \/ OutOfBudget /\ pipelineStopped' = FALSE
    /\ cancelled' = TRUE
    /\ IF dispatch = "none" THEN UNCHANGED ctxDone ELSE EndContext
    /\ NotMain
    /\ UNCHANGED <<fDrops, pipelineUp, tickerStopped, budget, writerOpen, dispatch,
                   summary, attempt, key, lastKey, sent, receiverVars>>

\* Mutant of BothStopped: the ticker is not looked at, so that it may still be
\* at work with lastDropsReported and the windows.
PipelineOnly == pipelineStopped

BothStopped == pipelineStopped /\ tickerStopped'

\* The second select: the final report and the writer's Close are skipped if
\* anything still runs.
TickerAwaited ==
    /\ main = "ticker"
    /\ \/ ticker = "returned" /\ tickerStopped' = TRUE
       \/ OutOfBudget /\ tickerStopped' = FALSE
    /\ main' = IF BothStopped THEN "finalDrops" ELSE "metrics"
    /\ NotMain
    /\ UNCHANGED <<fDrops, pipelineUp, pipelineStopped, cancelled, budget, writerOpen,
                   egressVars>>

FinalDrops ==
    /\ main = "finalDrops" /\ main' = "final"
    /\ fDrops' = Total - lastDropsReported
    /\ NotMain
    /\ UNCHANGED <<pipelineUp, pipelineStopped, tickerStopped, cancelled, budget,
                   writerOpen, egressVars>>

\* The final summary goes to the local target only, under no context.
FinalReport ==
    /\ main = "final" /\ main' = "close"
    /\ SnapshotAndReset(ioErrors - lastIOErrsReported, fDrops, TRUE)
    /\ UNCHANGED <<lastVars, tickerVars, fDrops, pipelineUp, pipelineStopped,
                   tickerStopped, cancelled, budget, writerOpen, egressVars>>

CloseWriter ==
    /\ main = "close" /\ main' = "metrics"
    /\ writerOpen' = FALSE
    /\ NotMain
    /\ UNCHANGED <<fDrops, pipelineUp, pipelineStopped, tickerStopped, cancelled,
                   budget, egressVars>>

\* metricsServer.Shutdown(flushCtx) waits for its connections to be idle.
MetricsStopped ==
    /\ main = "metrics" /\ main' = "poller"
    /\ NotMain
    /\ UNCHANGED <<fDrops, pipelineUp, pipelineStopped, tickerStopped, cancelled,
                   budget, writerOpen, egressVars>>
MetricsGivenUp == OutOfBudget /\ MetricsStopped

StopPoller ==
    /\ main = "poller" /\ main' = "done"
    /\ NotMain
    /\ UNCHANGED <<fDrops, pipelineUp, pipelineStopped, tickerStopped, cancelled,
                   budget, writerOpen, egressVars>>

\* Steps that wait for nobody, or whose wait the budget ends.
MainStep ==
    \/ PipelineAwaited \/ TickerAwaited \/ FinalDrops \/ FinalReport
    \/ CloseWriter \/ MetricsGivenUp \/ StopPoller

Terminating == main = "done" /\ UNCHANGED vars

Next ==
    \/ Arrive \/ Ingest \/ Drop \/ WriteError
    \/ Tick \/ TickerStep \/ Dispatching
    \/ Signal \/ PipelineEnds \/ BudgetEnds \/ MainStep \/ MetricsStopped
    \/ Terminating

Spec == Init /\ [][Next]_vars

\* Only Run itself and the clock: the pipeline, the ticker, the metrics server's
\* clients and the receiver may hang.
Fairness == WF_vars(MainStep) /\ WF_vars(BudgetEnds)
FairSpec == Spec /\ Fairness

-----------------------------------------------------------------------------
(* Properties *)

SumOver(f(_)) == SumFunction([i \in DOMAIN windows |-> f(windows[i])])

\* Every request is counted as processed in exactly one window, and every
\* audited one as audited in exactly one, however their arrivals, their flushes
\* and the windows' ends interleave.
CountedOnce ==
    /\ SumOver(LAMBDA w : w.processed) + latencySamples
         = open + audited + dropped + failed
    /\ SumOver(LAMBDA w : w.audited) + requestsAudited = audited

\* Every drop and every write error that a window reports happened and is
\* reported by that window only; up to the final report, lastDropsReported and
\* lastIOErrsReported are what the windows have reported.
DropsOnce ==
    /\ SumOver(LAMBDA w : w.dropped) <= dropped
    /\ SumOver(LAMBDA w : w.io) <= failed
    /\ /\ ticker \in {"select", "drops", "dispatch", "returned"}
       /\ \A i \in DOMAIN windows : ~windows[i].partial
       => /\ SumOver(LAMBDA w : w.dropped) = lastDropsReported
          /\ SumOver(LAMBDA w : w.io) = lastIOErrsReported

\* The final report closes the books: once there is one, no window is opened
\* after it, by the ticker or by Run, and whatever the pipeline audited or failed
\* to write, until then or later, is in some window; and Run closes the writer
\* only when nobody writes any more.  It takes a ticker goroutine and a pipeline
\* that are both known to have returned.
FinalIsFinal ==
    /\ \A i \in DOMAIN windows : windows[i].partial =>
         /\ i = Len(windows)
         /\ SumOver(LAMBDA w : w.audited) = audited
         /\ SumOver(LAMBDA w : w.io) = failed
    /\ ~writerOpen => ~pipelineUp

\* The receiver processes a summary at most once, however often it is sent and
\* however late a request that the client has given up reaches it: the attempts
\* of a push share their key, and no two pushes do.
WebhookOnce ==
    \A i, j \in DOMAIN processed : i # j => processed[i] # processed[j]

\* Run returns, whatever hangs.
ShutdownEnds == main # "serving" ~> main = "done"

-----------------------------------------------------------------------------
(* What the documents say and the code does not do *)

\* SCHEMA.md:40, "once per aggregation window ... the source data for both the
\* local JSON evidence file": no summary is discarded before the local target
\* was tried.
EveryWindowIsFiled == [][BreakOff => dispatch # "local"]_vars
=============================================================================
