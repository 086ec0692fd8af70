------------------------------ MODULE Records ------------------------------
(***************************************************************************)
(* From a flushed batch to the numbers an auditor reads: the flush         *)
(* callback of run.go counts the logs that were persisted in Aggregator    *)
(* and in the Prometheus counters of metrics.go, while proxy handlers      *)
(* record latencies and the ticker closes windows.                         *)
(*                                                                         *)
(* How logs are made is in Processing, how they are merged and delivered   *)
(* in SessionTracker and Delivery; here the two logs of an exchange reach  *)
(* the collector merged or each alone.                                     *)
(***************************************************************************)
EXTENDS Aggregator

CONSTANTS
    Found,          \* by exchange: [request, response], the categories in each
    MaxRequests,    \* bound: requests whose latency is recorded
    MaxWindows      \* bound: windows the ticker closes

Exchanges == DOMAIN Found

ASSUME RecordsAssumption ==
    /\ MaxRequests \in Nat /\ MaxWindows \in Nat
    /\ IsFiniteSet(Exchanges)
    /\ \A e \in Exchanges : Found[e].request \cup Found[e].response \subseteq Categories

Directions == {"request", "response"}

VARIABLES
    delivered,      \* by exchange: directions whose log the collector has
    merged,         \* history: exchanges of which both came in one log
    batch,          \* delivered logs, to be flushed
    flush,          \* where the flush callback is
    persisted,      \* its batch[:written]
    requestsTotal, requestsAuditedTotal, piiDetectedTotal, flushErrors,
    evidenceReports,    \* outbandMetrics
    recording,      \* handlers between RecordLatency and requestsTotal.Inc
    ticker,         \* where the ticker goroutine is
    windows         \* history: the summaries, in order

flushVars == <<delivered, merged, batch, flush, persisted, flushErrors>>
countVars == <<requestsAuditedTotal, piiDetectedTotal>>
handlerVars == <<recording, requestsTotal>>
tickerVars == <<ticker, windows, evidenceReports>>
vars == <<flushVars, countVars, handlerVars, tickerVars, aggregatorVars>>

Init ==
    /\ delivered = [e \in Exchanges |-> {}] /\ merged = {} /\ batch = <<>>
    /\ flush = "idle" /\ persisted = <<>> /\ flushErrors = 0
    /\ requestsAuditedTotal = 0 /\ piiDetectedTotal = [c \in Categories |-> 0]
    /\ recording = 0 /\ requestsTotal = 0
    /\ ticker = "select" /\ windows = <<>> /\ evidenceReports = 0
    /\ AggregatorInit

-----------------------------------------------------------------------------
(* The flush callback *)

\* The logs of directions ds, as one TelemetryLog.
TelemetryLog(e, ds) ==
    [cats |-> IF "request" \in ds THEN Found[e].request ELSE {},
     resp |-> "response" \in ds,
     respCats |-> IF "response" \in ds THEN Found[e].response ELSE {}]

Deliver(e, ds) ==
    /\ ds # {} /\ ds \cap delivered[e] = {}
    /\ delivered' = [delivered EXCEPT ![e] = @ \cup ds]
    /\ merged' = merged \cup IF ds = Directions THEN {e} ELSE {}
    /\ batch' = Append(batch, TelemetryLog(e, ds))
    /\ UNCHANGED <<flush, persisted, flushErrors, countVars, handlerVars, tickerVars,
                   aggregatorVars>>

FlushStep(from, to) ==
    /\ flush = from /\ flush' = to
    /\ UNCHANGED <<delivered, merged, handlerVars, tickerVars, latencyVars>>

\* jsonlWriter.Flush returns how many logs of the batch are written.
Flush(n) ==
    /\ FlushStep("idle", "ingest")
    /\ batch # <<>> /\ batch' = <<>>
    /\ persisted' = SubSeq(batch, 1, n)
    /\ flushErrors' = flushErrors + IF n < Len(batch) THEN 1 ELSE 0
    /\ UNCHANGED <<countVars, auditVars>>

\* aggregator.Ingest(persisted)
FlushIngest ==
    /\ FlushStep("ingest", "audited")
    /\ Ingest(persisted)
    /\ UNCHANGED <<batch, persisted, flushErrors, countVars>>

\* metrics.requestsAudited.Add
FlushAudited ==
    /\ FlushStep("audited", "pii")
    /\ requestsAuditedTotal' = requestsAuditedTotal + Len(persisted)
    /\ UNCHANGED <<batch, persisted, flushErrors, piiDetectedTotal, auditVars>>

\* metrics.piiDetected, Inc by Inc: no other goroutine changes it.
FlushPII ==
    /\ FlushStep("pii", "idle")
    /\ piiDetectedTotal' = [c \in Categories |->
           piiDetectedTotal[c] + Having(RequestCats(persisted), c)]
    /\ persisted' = <<>>
    /\ UNCHANGED <<batch, flushErrors, requestsAuditedTotal, auditVars>>

-----------------------------------------------------------------------------
(* cfg.RecordOverhead, on the proxy's goroutines, and the ticker *)

RecordOverhead(ms) ==
    /\ requestsTotal + recording < MaxRequests
    /\ RecordLatency(ms)
    /\ recording' = recording + 1
    /\ UNCHANGED <<requestsTotal, flushVars, countVars, tickerVars, auditVars>>

\* metrics.requestsTotal.Inc
CountRequest ==
    /\ recording > 0 /\ recording' = recording - 1
    /\ requestsTotal' = requestsTotal + 1
    /\ UNCHANGED <<flushVars, countVars, tickerVars, aggregatorVars>>

\* The dispatch that follows is in Evidence.
SnapshotAndReset ==
    /\ ticker = "select" /\ ticker' = "reports"
    /\ Len(windows) < MaxWindows
    /\ windows' = Append(windows, Summary)
    /\ Reset
    /\ UNCHANGED <<evidenceReports, flushVars, countVars, handlerVars>>

\* metrics.evidenceReports.Inc
CountReport ==
    /\ ticker = "reports" /\ ticker' = "select"
    /\ evidenceReports' = evidenceReports + 1
    /\ UNCHANGED <<windows, flushVars, countVars, handlerVars, aggregatorVars>>

Terminating ==
    /\ \A e \in Exchanges : delivered[e] = Directions
    /\ batch = <<>> /\ flush = "idle"
    /\ requestsTotal = MaxRequests /\ evidenceReports = MaxWindows
    /\ UNCHANGED vars

Next ==
    \/ \E e \in Exchanges : \E ds \in SUBSET Directions : Deliver(e, ds)
    \/ \E n \in 0..Len(batch) : Flush(n)
    \/ FlushIngest \/ FlushAudited \/ FlushPII
    \/ \E ms \in 0..maxLatencyBucketMS : RecordOverhead(ms)
    \/ CountRequest \/ SnapshotAndReset \/ CountReport
    \/ Terminating

Spec == Init /\ [][Next]_vars

-----------------------------------------------------------------------------
(* Properties *)

Counts == 0..7

\* The nearest rank: the smallest latency that p percent of the samples do not
\* exceed, those beyond the histogram counting as its end.
NearestRank ==
    \A h \in [0..maxLatencyBucketMS -> Counts] : \A p \in Percentiles :
        LET N == SumFunction(h)
            v == computePercentile(N, [b \in Buckets |-> h[b]], p)
        IN IF N = 0 THEN v = 0
           ELSE /\ 100 * SumFunctionOnSet(h, 0..v) >= p * N
                /\ 100 * SumFunctionOnSet(h, 0..(v - 1)) < p * N

\* The percentiles of a window are those of the requests it counts as processed.
PercentilesTrue ==
    NearestRank /\ latencySamples = latencyOverflow + SumFunction(latencyBuckets)

\* The evidence so far: what the closed windows report and the current one holds.
Reported(f(_)) ==
    SumFunction([i \in DOMAIN windows |-> f(windows[i])]) + f(Summary)

\* The evidence and Prometheus count the same, but for what the flush, the
\* handlers and the ticker have counted in one of the two only.
EvidenceMatchesMetrics ==
    /\ Reported(LAMBDA w : w.processed) = requestsTotal + recording
    /\ Reported(LAMBDA w : w.audited)
         = requestsAuditedTotal + IF flush = "audited" THEN Len(persisted) ELSE 0
    /\ \A c \in Categories :
         Reported(LAMBDA w : w.events[c])
           = piiDetectedTotal[c] + IF flush \in {"audited", "pii"}
                                   THEN Having(RequestCats(persisted), c)
                                   ELSE 0
    /\ Len(windows) = evidenceReports + IF ticker = "reports" THEN 1 ELSE 0

Delivered(d) == {e \in Exchanges : d \in delivered[e]}

\* How many logs the collector was given.
Logs == Cardinality(Delivered("request")) + Cardinality(Delivered("response"))
          - Cardinality(merged)

\* No write has failed and nothing is on its way to the aggregator.
Settled == batch = <<>> /\ flush # "ingest" /\ flushErrors = 0
AtMost(n, bound) == n <= bound /\ (Settled => n = bound)

\* However the two logs of an exchange are delivered, flushed and spread over
\* windows, each finding is reported at most once and for its own direction, an
\* answer counts as one response, an exchange as one audited request or, if its
\* logs came apart, as one for each; exactly once while no write has failed and
\* nothing is under way.  A window's total is the sum of its categories.
CountedOnce ==
    /\ \A c \in Categories :
         /\ AtMost(Reported(LAMBDA w : w.events[c]),
                   Cardinality({e \in Delivered("request") : c \in Found[e].request}))
         /\ AtMost(Reported(LAMBDA w : w.responseEvents[c]),
                   Cardinality({e \in Delivered("response") : c \in Found[e].response}))
    /\ AtMost(Reported(LAMBDA w : w.responses), Cardinality(Delivered("response")))
    /\ AtMost(Reported(LAMBDA w : w.audited), Logs)
    /\ \A w \in ToSet(windows) : /\ w.pii = SumFunction(w.events)
                                  /\ w.responsePII = SumFunction(w.responseEvents)
=============================================================================
