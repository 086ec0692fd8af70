--------------------------- MODULE EvidenceProofs ---------------------------
(***************************************************************************)
(* Proofs about Evidence: every window is exact, the final report closes   *)
(* the books, and the receiver of the webhook processes no summary twice.  *)
(***************************************************************************)
EXTENDS Evidence, FoldLemmas

-----------------------------------------------------------------------------
(* The inductive invariant *)

\* What windows ws add up to.
Processed(ws) == SumFunction([i \in DOMAIN ws |-> ws[i].processed])
Audited(ws) == SumFunction([i \in DOMAIN ws |-> ws[i].audited])
Dropped(ws) == SumFunction([i \in DOMAIN ws |-> ws[i].dropped])
NotWritten(ws) == SumFunction([i \in DOMAIN ws |-> ws[i].io])

\* The windows closed and the open one have every request and every outcome.
CountsInv ==
    /\ Processed(windows) + latencySamples = open + audited + dropped + failed
    /\ open + audited + dropped + failed <= MaxRequests
    /\ Audited(windows) + requestsAudited = audited
    /\ Total = dropped /\ ioErrors = failed

\* The last window is the final report's.
FinalMade == windows # <<>> /\ windows[Len(windows)].partial

\* What is reported is what the ticker remembers as reported, except while it
\* takes a window's numbers to its summary; and what it took is there to report.
ReportedInv ==
    /\ ticker = "io" => lastDropsReported + tDrops <= Total
    /\ main = "final" => lastDropsReported + fDrops <= Total
    /\ ~FinalMade =>
         /\ Dropped(windows) + (IF ticker = "snapshot" THEN tDrops ELSE 0)
              = lastDropsReported
         /\ NotWritten(windows) + (IF ticker = "snapshot" THEN tIOErrs ELSE 0)
              = lastIOErrsReported
    /\ FinalMade => /\ Dropped(windows) <= Total
                    /\ NotWritten(windows) = ioErrors
                    /\ requestsAudited = 0

\* The stages of Run.
RunStages == {"serving", "pipeline", "ticker", "finalDrops", "final", "close",
              "metrics", "poller", "done"}

\* The final report and the writer's Close are the work of a main goroutine that
\* has seen both others end, and it makes one report.
StagesInv ==
    /\ main = "ticker" /\ pipelineStopped => ~pipelineUp
    /\ main \in {"finalDrops", "final", "close"} => ~pipelineUp /\ ticker = "returned"
    /\ FinalMade => /\ main \in {"close", "metrics", "poller", "done"}
                    /\ ~pipelineUp /\ ticker = "returned"
    /\ \A i \in DOMAIN windows : windows[i].partial => i = Len(windows)
    /\ ~writerOpen => ~pipelineUp

\* A dispatch is the ticker's and has the last window.  Its push has sent the
\* window under its key; before, only earlier windows have been sent.  A window
\* is sent under one key, and what the receiver has processed was sent under a
\* key it has seen.
WebhookInv ==
    /\ dispatch # "none" => ticker = "dispatch" /\ summary = Len(windows)
    /\ dispatch \in {"post", "backoff"} => [key |-> key, window |-> summary] \in sent
    /\ \A r \in sent : /\ r.window <= Len(windows)
                       /\ dispatch \in {"local", "webhook"} => r.window < summary
    /\ \A q, r \in sent : q.window = r.window => q.key = r.key
    /\ \A i \in DOMAIN processed : \E r \in sent : r.window = processed[i] /\ r.key \in seen
    /\ WebhookOnce

IInv == TypeOK /\ CountsInv /\ ReportedInv /\ StagesInv /\ WebhookInv

-----------------------------------------------------------------------------
(* Sums over windows *)

\* A window more adds its numbers to what the windows add up to.
LEMMA AppendSums ==
    ASSUME NEW ws \in Seq(Summary), NEW w \in Summary
    PROVE  /\ Processed(Append(ws, w)) = Processed(ws) + w.processed
           /\ Audited(Append(ws, w)) = Audited(ws) + w.audited
           /\ Dropped(Append(ws, w)) = Dropped(ws) + w.dropped
           /\ NotWritten(Append(ws, w)) = NotWritten(ws) + w.io
           /\ Processed(ws) \in Nat /\ Audited(ws) \in Nat
           /\ Dropped(ws) \in Nat /\ NotWritten(ws) \in Nat
<1> DEFINE n == Len(ws)
           more == Append(ws, w)
<1>1. /\ n \in Nat /\ DOMAIN ws = 1..n /\ DOMAIN more = 1..(n + 1)
      /\ \A i \in 1..n : more[i] = ws[i] /\ ws[i] \in Summary
      /\ more[n + 1] = w
  OBVIOUS
<1> HIDE DEF n, more
<1>2. Processed(more) = Processed(ws) + w.processed /\ Processed(ws) \in Nat
  <2> DEFINE f == [i \in DOMAIN ws |-> ws[i].processed]
             g == [i \in DOMAIN more |-> more[i].processed]
  <2>1. /\ DOMAIN f = 1..n /\ DOMAIN g = 1..(n + 1)
        /\ \A i \in 1..n : f[i] \in Nat /\ g[i] = f[i]
        /\ g[n + 1] = w.processed /\ w.processed \in Nat
    BY <1>1, SMTT(30) DEF Summary
  <2> HIDE DEF f, g
  <2>2. SumFunction(g) = SumFunction(f) + w.processed /\ SumFunction(f) \in Nat
    BY <1>1, <2>1, SumAppend
  <2> QED
    BY <2>2 DEF f, g, Processed
<1>3. Audited(more) = Audited(ws) + w.audited /\ Audited(ws) \in Nat
  <2> DEFINE f == [i \in DOMAIN ws |-> ws[i].audited]
             g == [i \in DOMAIN more |-> more[i].audited]
  <2>1. /\ DOMAIN f = 1..n /\ DOMAIN g = 1..(n + 1)
        /\ \A i \in 1..n : f[i] \in Nat /\ g[i] = f[i]
        /\ g[n + 1] = w.audited /\ w.audited \in Nat
    BY <1>1 DEF Summary
  <2> HIDE DEF f, g
  <2>2. SumFunction(g) = SumFunction(f) + w.audited /\ SumFunction(f) \in Nat
    BY <1>1, <2>1, SumAppend
  <2> QED
    BY <2>2 DEF f, g, Audited
<1>4. Dropped(more) = Dropped(ws) + w.dropped /\ Dropped(ws) \in Nat
  <2> DEFINE f == [i \in DOMAIN ws |-> ws[i].dropped]
             g == [i \in DOMAIN more |-> more[i].dropped]
  <2>1. /\ DOMAIN f = 1..n /\ DOMAIN g = 1..(n + 1)
        /\ \A i \in 1..n : f[i] \in Nat /\ g[i] = f[i]
        /\ g[n + 1] = w.dropped /\ w.dropped \in Nat
    BY <1>1 DEF Summary
  <2> HIDE DEF f, g
  <2>2. SumFunction(g) = SumFunction(f) + w.dropped /\ SumFunction(f) \in Nat
    BY <1>1, <2>1, SumAppend
  <2> QED
    BY <2>2 DEF f, g, Dropped
<1>5. NotWritten(more) = NotWritten(ws) + w.io /\ NotWritten(ws) \in Nat
  <2> DEFINE f == [i \in DOMAIN ws |-> ws[i].io]
             g == [i \in DOMAIN more |-> more[i].io]
  <2>1. /\ DOMAIN f = 1..n /\ DOMAIN g = 1..(n + 1)
        /\ \A i \in 1..n : f[i] \in Nat /\ g[i] = f[i]
        /\ g[n + 1] = w.io /\ w.io \in Nat
    BY <1>1 DEF Summary
  <2> HIDE DEF f, g
  <2>2. SumFunction(g) = SumFunction(f) + w.io /\ SumFunction(f) \in Nat
    BY <1>1, <2>1, SumAppend
  <2> QED
    BY <2>2 DEF f, g, NotWritten
<1> QED
  BY <1>2, <1>3, <1>4, <1>5 DEF more

\* Before the first window there is nothing to add up.
LEMMA NoSums ==
    /\ Processed(<<>>) = 0 /\ Audited(<<>>) = 0
    /\ Dropped(<<>>) = 0 /\ NotWritten(<<>>) = 0
<1>1. ASSUME NEW f, DOMAIN f = {} PROVE SumFunction(f) = 0
  BY <1>1, SumEmpty DEF SumFunction
<1> QED
  BY <1>1 DEF Processed, Audited, Dropped, NotWritten

\* The properties in the words of the invariant.
LEMMA SumsAre ==
    /\ SumOver(LAMBDA w : w.processed) = Processed(windows)
    /\ SumOver(LAMBDA w : w.audited) = Audited(windows)
    /\ SumOver(LAMBDA w : w.dropped) = Dropped(windows)
    /\ SumOver(LAMBDA w : w.io) = NotWritten(windows)
BY DEF SumOver, Processed, Audited, Dropped, NotWritten

-----------------------------------------------------------------------------
(* Facts used throughout *)

\* The types of the variables that the invariants compare.
LEMMA Types ==
    ASSUME TypeOK
    PROVE  /\ open \in Nat /\ requestsAudited \in Nat /\ latencySamples \in Nat
           /\ Total \in Nat /\ ioErrors \in Nat
           /\ lastDropsReported \in Nat /\ lastIOErrsReported \in Nat
           /\ lastDropsReported <= Total /\ lastIOErrsReported <= ioErrors
           /\ tDrops \in Nat /\ tIOErrs \in Nat /\ fDrops \in Nat
           /\ audited \in Nat /\ dropped \in Nat /\ failed \in Nat
           /\ requestsAudited <= audited
           /\ windows \in Seq(Summary) /\ Len(windows) \in Nat
           /\ MaxRequests \in Nat /\ maxRetries \in Nat
           /\ processed \in Seq(Nat) /\ seen \subseteq 1..lastKey
           /\ sent \subseteq [key : 1..lastKey, window : Nat]
           /\ summary \in Nat /\ attempt \in Nat /\ key \in Nat /\ lastKey \in Nat
           /\ Processed(windows) \in Nat /\ Audited(windows) \in Nat
           /\ Dropped(windows) \in Nat /\ NotWritten(windows) \in Nat
<1>1. /\ open \in Nat /\ requestsAudited \in Nat /\ latencySamples \in Nat
      /\ Total \in Nat /\ ioErrors \in Nat
      /\ lastDropsReported \in Nat /\ lastIOErrsReported \in Nat
      /\ lastDropsReported <= Total /\ lastIOErrsReported <= ioErrors
      /\ tDrops \in Nat /\ tIOErrs \in Nat /\ fDrops \in Nat
      /\ audited \in Nat /\ dropped \in Nat /\ failed \in Nat
      /\ requestsAudited <= audited
      /\ MaxRequests \in Nat /\ maxRetries \in Nat
  BY EvidenceAssumption, EgressAssumption DEF TypeOK
<1>2. windows \in Seq(Summary) /\ Len(windows) \in Nat
  BY DEF TypeOK
<1>3. /\ processed \in Seq(Nat) /\ seen \subseteq 1..lastKey
      /\ sent \subseteq [key : 1..lastKey, window : Nat]
      /\ summary \in Nat /\ attempt \in Nat /\ key \in Nat /\ lastKey \in Nat
  BY EgressAssumption DEF TypeOK, EgressTypeOK
<1>4. [processed |-> 0, audited |-> 0, dropped |-> 0, io |-> 0, partial |-> FALSE]
        \in Summary
  BY DEF Summary
<1>5. /\ Processed(windows) \in Nat /\ Audited(windows) \in Nat
      /\ Dropped(windows) \in Nat /\ NotWritten(windows) \in Nat
  BY <1>2, <1>4, AppendSums
<1> QED
  BY <1>1, <1>2, <1>3, <1>5

\* The final report is the last window with its mark.
LEMMA Final ==
    ASSUME TypeOK, StagesInv
    PROVE  FinalMade <=> \E i \in DOMAIN windows : windows[i].partial
<1>1. /\ Len(windows) \in Nat /\ DOMAIN windows = 1..Len(windows)
      /\ windows # <<>> => Len(windows) \in 1..Len(windows)
  BY Types
<1> QED
  BY <1>1 DEF FinalMade, StagesInv

\* Initially nothing has happened.
LEMMA InitIInv == Init => IInv
<1> SUFFICES ASSUME Init PROVE IInv
  OBVIOUS
<1> USE DEF Init, EgressInit
<1>1. TypeOK
  <2>1. dispatch = "none" /\ summary = 0 /\ attempt = 0 /\ key = 0 /\ lastKey = 0
    OBVIOUS
  <2>2. ctxDone = FALSE /\ sent = {} /\ processed = <<>> /\ seen = {}
    OBVIOUS
  <2>3. EgressTypeOK
    <3>1. attempt \in 0..maxRetries
      BY EgressAssumption
    <3>2. key \in Nat /\ lastKey \in Nat /\ key <= lastKey /\ seen \subseteq 1..lastKey
      OBVIOUS
    <3>3. sent \subseteq [key : 1..lastKey, window : Nat] /\ processed \in Seq(Nat)
      OBVIOUS
    <3> QED
      BY <2>1, <2>2, <3>1, <3>2, <3>3 DEF EgressTypeOK
  <2>4. windows \in Seq(Summary)
    OBVIOUS
  <2>5. {pipelineUp, pipelineStopped, tickerStopped, cancelled, budget, writerOpen}
          \subseteq BOOLEAN
    OBVIOUS
  <2> QED
    BY <2>3, <2>4, <2>5, EvidenceAssumption DEF TypeOK
<1>2. CountsInv
  BY NoSums, EvidenceAssumption DEF CountsInv
<1>3. ~FinalMade
  BY DEF FinalMade
<1>4. ReportedInv
  BY <1>3, NoSums DEF ReportedInv
<1>5. StagesInv
  BY <1>3 DEF StagesInv
<1>6. WebhookInv
  BY DEF WebhookInv, WebhookOnce
<1> QED
  BY <1>1, <1>2, <1>4, <1>5, <1>6 DEF IInv

\* A step that is not the dispatch's and makes no summary.
LEMMA WebhookUntouched ==
    ASSUME WebhookInv, UNCHANGED <<windows, egressVars>>,
           dispatch # "none" => ticker' = ticker
    PROVE  WebhookInv'
BY DEF WebhookInv, WebhookOnce, egressVars, pushVars, receiverVars

-----------------------------------------------------------------------------
(* Requests *)

\* A request arrives or has its outcome: it moves from one count to another.
LEMMA CountStep ==
    ASSUME IInv, Arrive \/ Ingest \/ Drop \/ WriteError
    PROVE  IInv'
<1> USE DEF IInv
<1>0. /\ UNCHANGED <<windows, lastDropsReported, lastIOErrsReported, ticker, tDrops,
                     tIOErrs, main, fDrops, pipelineUp, pipelineStopped>>
      /\ UNCHANGED <<tickerStopped, cancelled, budget, writerOpen, egressVars>>
  BY DEF Arrive, Ingest, Drop, WriteError, NotCounting, lastVars, tickerVars, mainVars
<1>1. EgressTypeOK'
  BY <1>0 DEF TypeOK, EgressTypeOK, egressVars, pushVars, receiverVars
<1>2. /\ open \in Nat /\ requestsAudited \in Nat /\ latencySamples \in Nat
      /\ audited \in Nat /\ dropped \in Nat /\ failed \in Nat
      /\ Total \in Nat /\ ioErrors \in Nat /\ MaxRequests \in Nat
      /\ Processed(windows) \in Nat /\ Audited(windows) \in Nat
      /\ requestsAudited <= audited
      /\ lastDropsReported <= Total /\ lastIOErrsReported <= ioErrors
  BY Types
<1>3. /\ Processed(windows') = Processed(windows) /\ Audited(windows') = Audited(windows)
      /\ Dropped(windows') = Dropped(windows)
      /\ NotWritten(windows') = NotWritten(windows)
      /\ FinalMade' = FinalMade
  BY <1>0 DEF FinalMade
<1>4. /\ CountsInv'
      /\ open' \in Nat /\ requestsAudited' \in Nat /\ latencySamples' \in Nat
      /\ audited' \in Nat /\ dropped' \in Nat /\ failed' \in Nat
      /\ Total' \in Nat /\ ioErrors' \in Nat
      /\ requestsAudited' <= audited' /\ Total' >= Total /\ ioErrors' >= ioErrors
  <2>1. CASE Arrive
    BY <1>2, <1>3, <2>1 DEF Arrive, CountsInv
  <2>2. CASE Ingest
    BY <1>2, <1>3, <2>2 DEF Ingest, CountsInv
  <2>3. CASE Drop
    BY <1>2, <1>3, <2>3 DEF Drop, CountsInv
  <2>4. CASE WriteError
    BY <1>2, <1>3, <2>4 DEF WriteError, CountsInv
  <2> QED
    BY <2>1, <2>2, <2>3, <2>4
<1>5. open' <= MaxRequests /\ latencySamples' <= MaxRequests
  <2> DEFINE p == Processed(windows')
             o == open'
             l == latencySamples'
             a == audited'
             d == dropped'
             f == failed'
             m == MaxRequests
  <2>1. p \in Nat /\ m \in Nat
    BY <1>2, <1>3
  <2>2. o \in Nat /\ l \in Nat /\ a \in Nat /\ d \in Nat /\ f \in Nat
    BY <1>4
  <2>3. p + l = o + a + d + f /\ o + a + d + f <= m
    BY <1>4 DEF CountsInv
  <2> HIDE DEF p, o, l, a, d, f, m
  <2>5. o <= m /\ l <= m
    BY ONLY <2>1, <2>2, <2>3
  <2> QED
    BY <2>5 DEF o, l, m
<1>6. TypeOK'
  <2>1. /\ open' \in 0..MaxRequests /\ latencySamples' \in 0..MaxRequests
        /\ requestsAudited' \in 0..audited'
        /\ lastDropsReported' \in 0..Total' /\ lastIOErrsReported' \in 0..ioErrors'
    <3>1. /\ lastDropsReported' = lastDropsReported
          /\ lastIOErrsReported' = lastIOErrsReported
          /\ lastDropsReported \in Nat /\ lastIOErrsReported \in Nat
      BY <1>0, Types
    <3> QED
      BY ONLY <3>1, <1>2, <1>4, <1>5
  <2>2. UNCHANGED <<windows, ticker, tDrops, tIOErrs, main, fDrops, pipelineUp,
                    pipelineStopped, tickerStopped, cancelled, budget, writerOpen>>
    BY <1>0
  <2> QED
    BY <1>1, <1>4, <2>1, <2>2 DEF TypeOK
<1>7. ReportedInv'
  <2>1. FinalMade => ioErrors' = ioErrors /\ requestsAudited' = requestsAudited
    <3>1. FinalMade => ~pipelineUp /\ main # "serving"
      BY DEF StagesInv
    <3> QED
      BY <3>1 DEF Arrive, Ingest, Drop, WriteError
  <2>2. lastDropsReported \in Nat /\ tDrops \in Nat /\ fDrops \in Nat
    BY Types
  <2>3. /\ ticker' = "io" => lastDropsReported' + tDrops' <= Total'
        /\ main' = "final" => lastDropsReported' + fDrops' <= Total'
    BY <1>0, <1>2, <1>4, <2>2 DEF ReportedInv
  <2>4. FinalMade => Dropped(windows) <= Total'
    <3>1. FinalMade => Dropped(windows) <= Total
      BY DEF ReportedInv
    <3>2. Dropped(windows) \in Nat
      BY Types
    <3> QED
      BY ONLY <3>1, <3>2, <1>2, <1>4
  <2> QED
    BY <1>0, <1>3, <2>1, <2>3, <2>4 DEF ReportedInv
<1>8. StagesInv'
  BY <1>0, <1>3 DEF StagesInv
<1>9. WebhookInv'
  BY <1>0, WebhookUntouched
<1> QED
  BY <1>4, <1>6, <1>7, <1>8, <1>9

-----------------------------------------------------------------------------
(* The ticker goroutine *)

\* A step that leaves requests, summaries and the dispatch alone.
LEMMA CountsUntouched ==
    ASSUME CountsInv, UNCHANGED <<windows, countVars>>
    PROVE  CountsInv'
BY DEF CountsInv, countVars

\* A tick, a return, and the loads: what is taken for the summary was counted.
LEMMA TickerStepLocal ==
    ASSUME IInv, Tick \/ LoadDrops \/ LoadIOErrs \/ Dispatched \/ TickerReturns
    PROVE  IInv'
<1> USE DEF IInv
<1>0. /\ UNCHANGED <<windows, countVars, egressVars>>
      /\ UNCHANGED <<main, fDrops, pipelineUp, pipelineStopped, tickerStopped,
                     cancelled, budget, writerOpen>>
      /\ ticker # "returned"
  BY DEF Tick, LoadDrops, LoadIOErrs, Dispatched, TickerReturns, mainVars
<1>1. UNCHANGED <<open, requestsAudited, latencySamples, Total, ioErrors, audited,
                  dropped, failed>>
  BY <1>0 DEF countVars
<1>2. EgressTypeOK'
  BY <1>0 DEF TypeOK, EgressTypeOK, egressVars, pushVars, receiverVars
<1>3. /\ FinalMade' = FinalMade
      /\ Dropped(windows') = Dropped(windows)
      /\ NotWritten(windows') = NotWritten(windows)
  BY <1>0 DEF FinalMade
<1>4. ~FinalMade /\ main \notin {"finalDrops", "final", "close"}
  BY <1>0 DEF StagesInv
<1>5. /\ Total \in Nat /\ ioErrors \in Nat /\ tDrops \in Nat /\ tIOErrs \in Nat
      /\ lastDropsReported \in Nat /\ lastIOErrsReported \in Nat
      /\ lastDropsReported <= Total /\ lastIOErrsReported <= ioErrors
      /\ Dropped(windows) \in Nat /\ NotWritten(windows) \in Nat
  BY Types
<1> DEFINE Moves ==
             /\ ticker' \in {"select", "drops", "io", "snapshot", "dispatch", "returned"}
             /\ tDrops' \in Nat /\ tIOErrs' \in Nat
             /\ lastDropsReported' \in Nat /\ lastIOErrsReported' \in Nat
             /\ lastDropsReported' <= Total /\ lastIOErrsReported' <= ioErrors
             /\ ticker' = "io" => lastDropsReported' + tDrops' <= Total
             /\ Dropped(windows) + (IF ticker' = "snapshot" THEN tDrops' ELSE 0)
                  = lastDropsReported'
             /\ NotWritten(windows) + (IF ticker' = "snapshot" THEN tIOErrs' ELSE 0)
                  = lastIOErrsReported'
             /\ dispatch = "none"
<1>6. Moves
  <2>1. CASE Tick \/ Dispatched \/ TickerReturns
    <3>1. /\ UNCHANGED <<tDrops, tIOErrs, lastDropsReported, lastIOErrsReported>>
          /\ ticker' \in {"drops", "returned", "select"}
          /\ ticker \in {"select", "dispatch"} /\ dispatch = "none"
      BY <2>1 DEF Tick, Dispatched, TickerReturns, lastVars, WebhookInv
    <3> QED
      BY <1>4, <1>5, <3>1 DEF ReportedInv
  <2>2. CASE LoadDrops
    <3>1. /\ UNCHANGED <<tIOErrs, lastDropsReported, lastIOErrsReported>>
          /\ ticker = "drops" /\ ticker' = "io" /\ tDrops' = Total - lastDropsReported
          /\ dispatch = "none"
      BY <2>2 DEF LoadDrops, lastVars, WebhookInv
    <3> QED
      BY <1>4, <1>5, <3>1 DEF ReportedInv
  <2>3. CASE LoadIOErrs
    <3>1. /\ UNCHANGED tDrops
          /\ ticker = "io" /\ ticker' = "snapshot"
          /\ tIOErrs' = ioErrors - lastIOErrsReported
          /\ lastIOErrsReported' = ioErrors
          /\ lastDropsReported' = lastDropsReported + tDrops
          /\ dispatch = "none"
      BY <2>3 DEF LoadIOErrs, Reported, WebhookInv
    <3>2. /\ lastDropsReported + tDrops <= Total
          /\ Dropped(windows) = lastDropsReported
          /\ NotWritten(windows) = lastIOErrsReported
      BY <1>4, <1>5, <3>1 DEF ReportedInv
    <3> QED
      BY <1>5, <3>1, <3>2
  <2> QED
    BY <2>1, <2>2, <2>3
<1> HIDE DEF Moves
<1>7. TypeOK'
  <2>1. /\ lastDropsReported' \in 0..Total' /\ lastIOErrsReported' \in 0..ioErrors'
        /\ ticker' \in {"select", "drops", "io", "snapshot", "dispatch", "returned"}
        /\ tDrops' \in Nat /\ tIOErrs' \in Nat
    BY <1>1, <1>5, <1>6 DEF Moves
  <2> QED
    BY <1>0, <1>1, <1>2, <2>1 DEF TypeOK
<1>8. CountsInv'
  BY <1>0, CountsUntouched
<1>9. ReportedInv'
  BY <1>0, <1>1, <1>3, <1>4, <1>6 DEF ReportedInv, Moves
<1>10. StagesInv'
  BY <1>0, <1>3, <1>4 DEF StagesInv
<1>11. WebhookInv'
  BY <1>0, <1>6, WebhookUntouched DEF Moves
<1> QED
  BY <1>7, <1>8, <1>9, <1>10, <1>11

\* The webhook's receiver is not concerned when a dispatch begins: only windows
\* that were closed before have been sent to it.
LEMMA DispatchStarts ==
    ASSUME IInv, TickerSnapshot
    PROVE  WebhookInv' /\ EgressTypeOK'
<1> USE DEF IInv
<1>1. /\ ticker' = "dispatch" /\ dispatch = "none" /\ dispatch' = "local"
      /\ summary' = Len(windows) + 1 /\ ctxDone' = cancelled
      /\ UNCHANGED <<attempt, key, lastKey, sent, seen, processed>>
  BY DEF TickerSnapshot, StartDispatch, receiverVars
<1>2. Len(windows') = Len(windows) + 1 /\ Len(windows) \in Nat
  BY Types DEF TickerSnapshot, SnapshotAndReset
<1>3. \A r \in sent : r.window \in Nat /\ r.window <= Len(windows)
  BY Types DEF WebhookInv
<1>4. \A r \in sent : r.window <= Len(windows') /\ r.window < summary'
  BY <1>1, <1>2, <1>3
<1>5. WebhookInv'
  BY <1>1, <1>2, <1>4 DEF WebhookInv, WebhookOnce
<1>6. EgressTypeOK'
  BY <1>1, <1>2 DEF TypeOK, EgressTypeOK
<1> QED
  BY <1>5, <1>6

\* The window's numbers go from the ticker and the aggregator to the summary.
LEMMA SnapshotStep ==
    ASSUME IInv, TickerSnapshot
    PROVE  IInv'
<1> USE DEF IInv
<1> DEFINE w == [processed |-> latencySamples, audited |-> requestsAudited,
                 dropped |-> tDrops, io |-> tIOErrs, partial |-> FALSE]
<1>1. /\ ticker = "snapshot" /\ ticker' = "dispatch"
      /\ windows' = Append(windows, w)
      /\ requestsAudited' = 0 /\ latencySamples' = 0
      /\ UNCHANGED <<open, Total, ioErrors, audited, dropped, failed>>
      /\ UNCHANGED <<lastDropsReported, lastIOErrsReported, tDrops, tIOErrs>>
      /\ UNCHANGED <<main, fDrops, pipelineUp, pipelineStopped, tickerStopped,
                     cancelled, budget, writerOpen>>
  BY DEF TickerSnapshot, SnapshotAndReset, Reset, lastVars, mainVars
<1>2. /\ w \in Summary /\ windows \in Seq(Summary)
      /\ w.processed = latencySamples /\ w.audited = requestsAudited
      /\ w.dropped = tDrops /\ w.io = tIOErrs /\ w.partial = FALSE
  BY Types DEF Summary
<1> HIDE DEF w
<1>3. /\ windows' \in Seq(Summary) /\ Len(windows) \in Nat
      /\ Len(windows') = Len(windows) + 1
      /\ DOMAIN windows = 1..Len(windows) /\ DOMAIN windows' = 1..(Len(windows) + 1)
      /\ \A i \in 1..Len(windows) : windows'[i] = windows[i]
      /\ windows'[Len(windows) + 1] = w /\ windows' # <<>>
  BY <1>1, <1>2
<1>4. /\ Processed(windows') = Processed(windows) + latencySamples
      /\ Audited(windows') = Audited(windows) + requestsAudited
      /\ Dropped(windows') = Dropped(windows) + tDrops
      /\ NotWritten(windows') = NotWritten(windows) + tIOErrs
  BY <1>1, <1>2, AppendSums
<1>5. ~FinalMade /\ ~FinalMade' /\ main \notin {"finalDrops", "final", "close"}
  BY <1>1, <1>2, <1>3 DEF StagesInv, FinalMade
<1>6. TypeOK'
  <2>1. requestsAudited' \in 0..audited' /\ latencySamples' \in 0..MaxRequests
    BY <1>1, Types
  <2> QED
    BY <1>1, <1>3, <2>1, DispatchStarts DEF TypeOK
<1>7. CountsInv'
  <2>1. /\ Processed(windows) \in Nat /\ Audited(windows) \in Nat
        /\ latencySamples \in Nat /\ requestsAudited \in Nat
    BY Types
  <2>2. /\ Processed(windows') + 0 = Processed(windows) + latencySamples
        /\ Audited(windows') + 0 = Audited(windows) + requestsAudited
    BY ONLY <1>4, <2>1
  <2> QED
    BY <1>1, <2>2 DEF CountsInv
<1>8. ReportedInv'
  <2>1. /\ Dropped(windows) + tDrops = lastDropsReported
        /\ NotWritten(windows) + tIOErrs = lastIOErrsReported
    BY <1>1, <1>5 DEF ReportedInv
  <2>2. /\ lastDropsReported' \in Nat /\ lastIOErrsReported' \in Nat
        /\ Dropped(windows') + 0 = lastDropsReported'
        /\ NotWritten(windows') + 0 = lastIOErrsReported'
    <3>1. /\ lastDropsReported' = lastDropsReported /\ lastDropsReported \in Nat
          /\ lastIOErrsReported' = lastIOErrsReported /\ lastIOErrsReported \in Nat
      BY <1>1, Types
    <3> QED
      BY ONLY <1>4, <2>1, <3>1
  <2> QED
    BY <1>1, <1>5, <2>2 DEF ReportedInv
<1>9. StagesInv'
  <2>1. \A i \in DOMAIN windows : ~windows[i].partial
    BY <1>5, Final
  <2> QED
    BY <1>1, <1>2, <1>3, <1>5, <2>1 DEF StagesInv
<1> QED
  BY <1>6, <1>7, <1>8, <1>9, DispatchStarts

-----------------------------------------------------------------------------
(* The dispatch *)

\* What a step of the dispatch leaves to send: nothing, or the summary it has,
\* under the key it has drawn.
LEMMA DispatchSends ==
    ASSUME IInv, DispatchStep \/ Timeout
    PROVE  /\ UNCHANGED <<summary, seen, processed>>
           /\ dispatch # "none"
           /\ \/ /\ sent' = sent
                 /\ dispatch' \in {"local", "webhook"} => dispatch \in {"local", "webhook"}
                 /\ dispatch' \in {"post", "backoff"} =>
                      dispatch \in {"post", "backoff"} /\ key' = key
              \/ /\ dispatch = "webhook" /\ dispatch' = "post" /\ key' = lastKey + 1
                 /\ sent' = sent \cup {[key |-> key', window |-> summary]}
<1> USE DEF IInv, receiverVars
<1>1. CASE BreakOff \/ PushLocal
  BY <1>1 DEF BreakOff, PushLocal, EndDispatch
<1>2. CASE PushWebhook
  BY <1>2 DEF PushWebhook, Send
<1>3. CASE PostAnswered
  BY <1>3 DEF PostAnswered, EndDispatch
<1>4. CASE PostFails
  BY <1>4 DEF PostFails, EndDispatch, Retry, SameKey
<1>5. CASE BackoffOver
  <2>1. [key |-> key, window |-> summary] \in sent
    BY <1>5 DEF BackoffOver, WebhookInv
  <2>2. sent' = sent
    BY <1>5, <2>1 DEF BackoffOver, Send
  <2> QED
    BY <1>5, <2>2 DEF BackoffOver
<1>6. CASE BackoffCancelled
  BY <1>6 DEF BackoffCancelled, EndDispatch
<1>7. CASE Timeout
  BY <1>7 DEF Timeout
<1> QED
  BY <1>1, <1>2, <1>3, <1>4, <1>5, <1>6, <1>7 DEF DispatchStep

\* The variables of a dispatch keep their types.
LEMMA DispatchTypes ==
    ASSUME IInv, DispatchStep \/ Timeout
    PROVE  EgressTypeOK'
<1>1. /\ dispatch \in {"none", "local", "webhook", "post", "backoff"}
      /\ summary \in Nat /\ attempt \in 0..maxRetries /\ maxRetries \in Nat
      /\ key \in Nat /\ lastKey \in Nat /\ key <= lastKey
      /\ ctxDone \in BOOLEAN
      /\ processed \in Seq(Nat)
      /\ sent \subseteq [key : 1..lastKey, window : Nat]
      /\ seen \subseteq 1..lastKey
  BY EgressAssumption DEF IInv, TypeOK, EgressTypeOK
<1>2. processed' \in Seq(Nat) /\ summary' \in Nat /\ seen' = seen
  BY <1>1, DispatchSends
<1>3. CASE PushWebhook
  <2>1. /\ lastKey' = lastKey + 1 /\ key' = lastKey + 1 /\ attempt' = 0
        /\ sent' = sent \cup {[key |-> lastKey + 1, window |-> summary]}
        /\ dispatch' = "post" /\ ctxDone' = ctxDone
    BY <1>3 DEF PushWebhook, Send
  <2>2. /\ lastKey' \in Nat /\ key' \in Nat /\ key' <= lastKey'
        /\ 1..lastKey \subseteq 1..lastKey' /\ lastKey + 1 \in 1..lastKey'
        /\ attempt' \in 0..maxRetries
    BY <1>1, <2>1
  <2>3. sent' \subseteq [key : 1..lastKey', window : Nat]
    <3>1. [key : 1..lastKey, window : Nat] \subseteq [key : 1..lastKey', window : Nat]
      BY <2>2
    <3>2. [key |-> lastKey + 1, window |-> summary] \in [key : 1..lastKey', window : Nat]
      BY <1>1, <2>2
    <3> QED
      BY <1>1, <2>1, <3>1, <3>2
  <2>4. seen' \subseteq 1..lastKey'
    BY <1>1, <1>2, <2>2
  <2> QED
    BY <1>1, <1>2, <2>1, <2>2, <2>3, <2>4 DEF EgressTypeOK
<1>4. CASE ~PushWebhook
  <2>1. UNCHANGED <<key, lastKey>>
    BY <1>4 DEF DispatchStep, Timeout, BreakOff, PushLocal, PostAnswered, PostFails,
                SameKey, BackoffOver, BackoffCancelled
  <2>2. sent' = sent
    <3>1. ~(dispatch = "webhook" /\ dispatch' = "post")
      BY <1>4 DEF DispatchStep, Timeout, BreakOff, PushLocal, PostAnswered, PostFails,
                  BackoffOver, BackoffCancelled, EndDispatch
    <3> QED
      BY <3>1, DispatchSends
  <2>3. attempt' \in 0..maxRetries
    <3>1. attempt' = attempt \/ (attempt < maxRetries /\ attempt' = attempt + 1)
      BY <1>4 DEF DispatchStep, Timeout, BreakOff, PushLocal, PostAnswered, PostFails,
                  Retry, BackoffOver, BackoffCancelled
    <3> QED
      BY <1>1, <3>1
  <2>4. ctxDone' \in BOOLEAN /\ dispatch' \in {"none", "local", "webhook", "post", "backoff"}
    BY <1>1, <1>4 DEF DispatchStep, Timeout, BreakOff, PushLocal, PostAnswered, PostFails,
                      Retry, BackoffOver, BackoffCancelled, EndDispatch, EndContext
  <2> QED
    BY <1>1, <1>2, <2>1, <2>2, <2>3, <2>4 DEF EgressTypeOK
<1> QED
  BY <1>3, <1>4

\* A step of the dispatch keeps every window to one key.
LEMMA DispatchKeys ==
    ASSUME IInv, DispatchStep \/ Timeout, UNCHANGED <<windows, ticker>>
    PROVE  WebhookInv'
<1> USE DEF IInv
<1>1. /\ summary' = summary /\ summary = Len(windows) /\ ticker = "dispatch"
      /\ seen' = seen /\ processed' = processed /\ dispatch # "none"
  BY DispatchSends DEF WebhookInv
<1>2. CASE /\ sent' = sent
           /\ dispatch' \in {"local", "webhook"} => dispatch \in {"local", "webhook"}
           /\ dispatch' \in {"post", "backoff"} =>
                dispatch \in {"post", "backoff"} /\ key' = key
  BY <1>1, <1>2 DEF WebhookInv, WebhookOnce
<1>3. CASE /\ dispatch = "webhook" /\ dispatch' = "post" /\ key' = lastKey + 1
           /\ sent' = sent \cup {[key |-> key', window |-> summary]}
  <2> DEFINE new == [key |-> key', window |-> summary]
  <2>1. new.key = key' /\ new.window = summary /\ sent' = sent \cup {new}
    BY <1>3
  <2> HIDE DEF new
  <2>2. \A r \in sent : r.window \in Nat /\ r.window < summary /\ summary \in Nat
    BY <1>3, Types DEF WebhookInv
  <2>3. \A r \in sent : r.window # new.window
    BY <2>1, <2>2
  <2>4. \A q, r \in sent' : q.window = r.window => q.key = r.key
    BY <2>1, <2>3 DEF WebhookInv
  <2>5. \A r \in sent' : r.window <= Len(windows')
    <3>1. summary <= Len(windows)
      BY <1>1, Types
    <3> QED
      BY <1>1, <2>1, <3>1 DEF WebhookInv
  <2>6. [key |-> key', window |-> summary'] \in sent'
    BY <1>1, <1>3
  <2>7. \A i \in DOMAIN processed' :
          \E r \in sent' : r.window = processed'[i] /\ r.key \in seen'
    BY <1>1, <2>1 DEF WebhookInv
  <2>8. WebhookOnce'
    BY <1>1 DEF WebhookInv, WebhookOnce
  <2> QED
    BY <1>1, <1>3, <2>4, <2>5, <2>6, <2>7, <2>8 DEF WebhookInv
<1> QED
  BY <1>2, <1>3, DispatchSends

\* A request reaches the receiver, whatever the client is doing by then: it is the
\* first one processed with its key, hence with its window.
LEMMA ReceiveStep ==
    ASSUME IInv, Receive, UNCHANGED <<windows, ticker>>
    PROVE  WebhookInv' /\ EgressTypeOK'
<1> USE DEF IInv
<1>1. /\ UNCHANGED <<dispatch, summary, attempt, key, ctxDone, lastKey, sent>>
      /\ \E q \in sent : /\ q.key \notin seen
                         /\ seen' = seen \cup {q.key}
                         /\ processed' = Append(processed, q.window)
  BY DEF Receive, pushVars
<1>2. PICK q \in sent : /\ q.key \notin seen
                        /\ seen' = seen \cup {q.key}
                        /\ processed' = Append(processed, q.window)
  BY <1>1
<1> DEFINE n == Len(processed)
<1>3. /\ processed \in Seq(Nat) /\ n \in Nat /\ DOMAIN processed = 1..n
      /\ q.window \in Nat /\ q.key \in 1..lastKey
  <2>1. sent \subseteq [key : 1..lastKey, window : Nat] /\ processed \in Seq(Nat)
    BY Types
  <2> QED
    BY <2>1
<1>4. /\ processed' \in Seq(Nat) /\ DOMAIN processed' = 1..(n + 1)
      /\ \A i \in 1..n : processed'[i] = processed[i]
      /\ processed'[n + 1] = q.window
  BY <1>2, <1>3
<1> HIDE DEF n
<1>5. \A i \in 1..(n + 1) : i \in 1..n \/ i = n + 1
  BY <1>3
<1>6. \A i \in 1..n : processed[i] # q.window
  <2>1. SUFFICES ASSUME NEW i \in 1..n, processed[i] = q.window PROVE FALSE
    OBVIOUS
  <2>2. PICK r \in sent : r.window = processed[i] /\ r.key \in seen
    BY <1>3 DEF WebhookInv
  <2> QED
    BY <1>2, <2>1, <2>2 DEF WebhookInv
<1>7. WebhookOnce'
  <2>1. \A i, j \in 1..n : i # j => processed[i] # processed[j]
    BY <1>3 DEF WebhookInv, WebhookOnce
  <2> QED
    BY <1>4, <1>5, <1>6, <2>1 DEF WebhookOnce
<1>8. \A i \in DOMAIN processed' :
        \E r \in sent' : r.window = processed'[i] /\ r.key \in seen'
  <2>1. \A i \in 1..n : \E r \in sent : r.window = processed[i] /\ r.key \in seen
    BY <1>3 DEF WebhookInv
  <2> QED
    BY <1>1, <1>2, <1>4, <1>5, <2>1
<1>9. WebhookInv'
  BY <1>1, <1>7, <1>8 DEF WebhookInv
<1>10. EgressTypeOK'
  BY <1>1, <1>2, <1>3, <1>4 DEF TypeOK, EgressTypeOK
<1> QED
  BY <1>9, <1>10

\* A step of the dispatch or of the receiver.
LEMMA DispatchingStep ==
    ASSUME IInv, Dispatching
    PROVE  IInv'
<1> USE DEF IInv
<1>0. /\ UNCHANGED <<windows, countVars>>
      /\ UNCHANGED <<lastDropsReported, lastIOErrsReported, ticker, tDrops, tIOErrs>>
      /\ UNCHANGED <<main, fDrops, pipelineUp, pipelineStopped, tickerStopped,
                     cancelled, budget, writerOpen>>
  BY DEF Dispatching, lastVars, tickerVars, mainVars
<1>1. UNCHANGED <<open, requestsAudited, latencySamples, Total, ioErrors, audited,
                  dropped, failed>>
  BY <1>0 DEF countVars
<1>2. WebhookInv' /\ EgressTypeOK'
  BY <1>0, DispatchKeys, DispatchTypes, ReceiveStep DEF Dispatching
<1>3. TypeOK'
  BY <1>0, <1>1, <1>2 DEF TypeOK
<1>4. CountsInv'
  BY <1>0, CountsUntouched
<1>5. FinalMade' = FinalMade
  BY <1>0 DEF FinalMade
<1>6. ReportedInv'
  BY <1>0, <1>1, <1>5 DEF ReportedInv
<1>7. StagesInv'
  BY <1>0, <1>5 DEF StagesInv
<1> QED
  BY <1>2, <1>3, <1>4, <1>6, <1>7

-----------------------------------------------------------------------------
(* Run, from the signal on *)

\* Run waits, cancels, and looks at what has returned.
LEMMA RunStep ==
    ASSUME IInv,
           \/ Signal \/ PipelineEnds \/ BudgetEnds
           \/ PipelineAwaited \/ TickerAwaited \/ FinalDrops
           \/ CloseWriter \/ MetricsStopped \/ StopPoller
    PROVE  IInv'
<1> USE DEF IInv
<1>0. /\ UNCHANGED <<windows, countVars>>
      /\ UNCHANGED <<lastDropsReported, lastIOErrsReported, ticker, tDrops, tIOErrs>>
      /\ UNCHANGED <<dispatch, summary, attempt, key, lastKey, sent, seen, processed>>
  BY DEF Signal, PipelineEnds, BudgetEnds, PipelineAwaited, TickerAwaited, FinalDrops,
         CloseWriter, MetricsStopped, StopPoller, NotMain, lastVars, tickerVars,
         egressVars, pushVars, receiverVars
<1>1. UNCHANGED <<open, requestsAudited, latencySamples, Total, ioErrors, audited,
                  dropped, failed>>
  BY <1>0 DEF countVars
<1>2. FinalMade' = FinalMade
  BY <1>0 DEF FinalMade
<1>3. /\ Total \in Nat /\ lastDropsReported \in Nat /\ fDrops \in Nat
      /\ lastDropsReported <= Total
  BY Types
<1>4. EgressTypeOK'
  <2>1. ctxDone' \in BOOLEAN
    BY DEF Signal, PipelineEnds, BudgetEnds, PipelineAwaited, TickerAwaited, FinalDrops,
           CloseWriter, MetricsStopped, StopPoller, EndContext, egressVars, pushVars,
           TypeOK, EgressTypeOK
  <2> QED
    BY <1>0, <2>1 DEF TypeOK, EgressTypeOK
<1>5. CountsInv'
  BY <1>0, CountsUntouched
<1>6. WebhookInv'
  BY <1>0 DEF WebhookInv, WebhookOnce
<1> DEFINE Flags == {pipelineUp, pipelineStopped, tickerStopped, cancelled, budget,
                     writerOpen}
           Moves ==
             /\ main' \in RunStages
             /\ fDrops' \in Nat
             /\ Flags' \subseteq BOOLEAN
             /\ main' = "final" => lastDropsReported + fDrops' <= Total
             /\ main' = "ticker" /\ pipelineStopped' => ~pipelineUp'
             /\ main' \in {"finalDrops", "final", "close"} =>
                  ~pipelineUp' /\ ticker = "returned"
             /\ pipelineUp' => pipelineUp
             /\ main \in {"close", "metrics", "poller", "done"} =>
                  main' \in {"close", "metrics", "poller", "done"}
             /\ ~writerOpen' => ~pipelineUp'
<1>7. Moves
  <2>0. /\ main \in RunStages
        /\ Flags \subseteq BOOLEAN
        /\ ~writerOpen => ~pipelineUp
    BY DEF TypeOK, RunStages, StagesInv
  <2>1. CASE Signal
    BY <1>3, <2>0, <2>1 DEF Signal, RunStages
  <2>2. CASE PipelineEnds \/ BudgetEnds
    <3>1. /\ UNCHANGED <<main, fDrops, pipelineStopped, writerOpen>>
          /\ pipelineUp' => pipelineUp
      BY <2>2 DEF PipelineEnds, BudgetEnds
    <3>2. Flags' \subseteq BOOLEAN
      BY <2>0, <2>2 DEF PipelineEnds, BudgetEnds
    <3> HIDE DEF Flags
    <3> QED
      BY <1>3, <2>0, <3>1, <3>2 DEF ReportedInv, StagesInv
  <2>3. CASE PipelineAwaited
    BY <1>3, <2>0, <2>3 DEF PipelineAwaited, RunStages
  <2>4. CASE TickerAwaited
    <3>1. /\ UNCHANGED <<fDrops, pipelineUp, pipelineStopped, cancelled, budget, writerOpen>>
          /\ main = "ticker" /\ tickerStopped' \in BOOLEAN
          /\ main' = IF BothStopped THEN "finalDrops" ELSE "metrics"
          /\ tickerStopped' => ticker = "returned"
      BY <2>4 DEF TickerAwaited
    <3>2. BothStopped => ~pipelineUp /\ ticker = "returned"
      BY <3>1 DEF BothStopped, StagesInv
    <3> QED
      BY <1>3, <2>0, <3>1, <3>2 DEF RunStages
  <2>5. CASE FinalDrops
    <3>1. fDrops' = Total - lastDropsReported /\ main = "finalDrops" /\ main' = "final"
      BY <2>5 DEF FinalDrops
    <3>2. fDrops' \in Nat /\ lastDropsReported + fDrops' <= Total
      BY <1>3, <3>1
    <3> QED
      BY <2>0, <2>5, <3>1, <3>2 DEF FinalDrops, StagesInv, RunStages
  <2>6. CASE CloseWriter
    BY <1>3, <2>0, <2>6 DEF CloseWriter, StagesInv, RunStages
  <2>7. CASE MetricsStopped \/ StopPoller
    BY <1>3, <2>0, <2>7 DEF MetricsStopped, StopPoller, RunStages
  <2> QED
    BY <2>1, <2>2, <2>3, <2>4, <2>5, <2>6, <2>7
<1> HIDE DEF Moves
<1>8. TypeOK'
  BY <1>0, <1>1, <1>4, <1>7 DEF TypeOK, Moves, RunStages
<1>9. ReportedInv'
  BY <1>0, <1>1, <1>2, <1>7 DEF ReportedInv, Moves
<1>10. StagesInv'
  BY <1>0, <1>2, <1>7 DEF StagesInv, Moves
<1> QED
  BY <1>5, <1>6, <1>8, <1>9, <1>10

\* The final report takes what no window has taken.
LEMMA FinalStep ==
    ASSUME IInv, FinalReport
    PROVE  IInv'
<1> USE DEF IInv
<1> DEFINE w == [processed |-> latencySamples, audited |-> requestsAudited,
                 dropped |-> fDrops, io |-> ioErrors - lastIOErrsReported,
                 partial |-> TRUE]
<1>1. /\ main = "final" /\ main' = "close"
      /\ windows' = Append(windows, w)
      /\ requestsAudited' = 0 /\ latencySamples' = 0
      /\ UNCHANGED <<open, Total, ioErrors, audited, dropped, failed>>
      /\ UNCHANGED <<lastDropsReported, lastIOErrsReported, ticker, tDrops, tIOErrs>>
      /\ UNCHANGED <<fDrops, pipelineUp, pipelineStopped, tickerStopped, cancelled,
                     budget, writerOpen, egressVars>>
  BY DEF FinalReport, SnapshotAndReset, Reset, lastVars, tickerVars
<1>2. /\ ioErrors - lastIOErrsReported \in Nat
      /\ latencySamples \in Nat /\ requestsAudited \in Nat /\ fDrops \in Nat
      /\ windows \in Seq(Summary)
  <2>1. /\ ioErrors \in Nat /\ lastIOErrsReported \in Nat
        /\ lastIOErrsReported <= ioErrors
    BY Types
  <2>2. ioErrors - lastIOErrsReported \in Nat
    BY ONLY <2>1
  <2> QED
    BY <2>2, Types
<1>3. /\ w \in Summary
      /\ w.processed = latencySamples /\ w.audited = requestsAudited
      /\ w.dropped = fDrops /\ w.io = ioErrors - lastIOErrsReported
      /\ w.partial = TRUE
  BY <1>2 DEF Summary
<1> HIDE DEF w
<1>4. /\ windows' \in Seq(Summary) /\ Len(windows) \in Nat
      /\ Len(windows') = Len(windows) + 1
      /\ DOMAIN windows = 1..Len(windows) /\ DOMAIN windows' = 1..(Len(windows) + 1)
      /\ \A i \in 1..Len(windows) : windows'[i] = windows[i]
      /\ windows'[Len(windows) + 1] = w /\ windows' # <<>>
  BY <1>1, <1>2, <1>3
<1>5. /\ Processed(windows') = Processed(windows) + latencySamples
      /\ Audited(windows') = Audited(windows) + requestsAudited
      /\ Dropped(windows') = Dropped(windows) + fDrops
      /\ NotWritten(windows') = NotWritten(windows) + (ioErrors - lastIOErrsReported)
  BY <1>1, <1>2, <1>3, AppendSums
<1>6. /\ ~FinalMade /\ FinalMade'
      /\ ~pipelineUp /\ ticker = "returned"
  BY <1>1, <1>3, <1>4 DEF StagesInv, FinalMade
<1>7. TypeOK'
  <2>2. EgressTypeOK'
    BY <1>1 DEF TypeOK, EgressTypeOK, egressVars, pushVars, receiverVars
  <2>3. requestsAudited' \in 0..audited' /\ latencySamples' \in 0..MaxRequests
    BY <1>1, Types
  <2> QED
    BY <1>1, <1>4, <2>2, <2>3 DEF TypeOK
<1>8. CountsInv'
  <2>1. /\ Processed(windows) \in Nat /\ Audited(windows) \in Nat
    BY Types
  <2>2. /\ Processed(windows') + 0 = Processed(windows) + latencySamples
        /\ Audited(windows') + 0 = Audited(windows) + requestsAudited
    BY ONLY <1>2, <1>5, <2>1
  <2> QED
    BY <1>1, <2>2 DEF CountsInv
<1>9. ReportedInv'
  <2>1. /\ Dropped(windows) = lastDropsReported
        /\ NotWritten(windows) = lastIOErrsReported
        /\ lastDropsReported + fDrops <= Total
    BY <1>1, <1>6, Types DEF ReportedInv
  <2>2. Dropped(windows') <= Total' /\ NotWritten(windows') = ioErrors'
    <3>1. /\ Total' = Total /\ ioErrors' = ioErrors
          /\ ioErrors \in Nat /\ lastIOErrsReported \in Nat
      BY <1>1, Types
    <3>2. Dropped(windows') <= Total'
      BY ONLY <1>5, <2>1, <3>1
    <3>3. NotWritten(windows') = ioErrors'
      BY ONLY <1>5, <2>1, <3>1
    <3> QED
      BY <3>2, <3>3
  <2> QED
    BY <1>1, <1>6, <2>2 DEF ReportedInv
<1>10. StagesInv'
  <2>1. \A i \in DOMAIN windows : ~windows[i].partial
    BY <1>6, Final
  <2>2. \A i \in DOMAIN windows' : windows'[i].partial => i = Len(windows')
    BY <1>4, <2>1
  <2> QED
    BY <1>1, <1>6, <2>2 DEF StagesInv
<1>11. WebhookInv'
  <2>1. /\ UNCHANGED <<dispatch, summary, key, sent, seen, processed>>
        /\ dispatch = "none"
    BY <1>1, <1>6 DEF WebhookInv, egressVars, pushVars, receiverVars
  <2>2. \A r \in sent : r.window <= Len(windows')
    <3>1. \A r \in sent : r.window \in Nat /\ r.window <= Len(windows)
      BY Types DEF WebhookInv
    <3> QED
      BY <1>4, <3>1
  <2> QED
    BY <2>1, <2>2 DEF WebhookInv, WebhookOnce
<1> QED
  BY <1>7, <1>8, <1>9, <1>10, <1>11

-----------------------------------------------------------------------------
(* Theorems *)

\* Every action preserves the invariant.
LEMMA NextIInv == IInv /\ [Next]_vars => IInv'
<1> SUFFICES ASSUME IInv, [Next]_vars PROVE IInv'
  OBVIOUS
<1>1. CASE Arrive \/ Ingest \/ Drop \/ WriteError
  BY <1>1, CountStep
<1>2. CASE Tick \/ LoadDrops \/ LoadIOErrs \/ Dispatched \/ TickerReturns
  BY <1>2, TickerStepLocal
<1>3. CASE TickerSnapshot
  BY <1>3, SnapshotStep
<1>4. CASE Dispatching
  BY <1>4, DispatchingStep
<1>5. CASE \/ Signal \/ PipelineEnds \/ BudgetEnds
           \/ PipelineAwaited \/ TickerAwaited \/ FinalDrops
           \/ CloseWriter \/ MetricsStopped \/ StopPoller
  BY <1>5, RunStep
<1>6. CASE FinalReport
  BY <1>6, FinalStep
<1>7. CASE Terminating \/ UNCHANGED vars
  <2>1. /\ UNCHANGED <<windows, countVars, egressVars>>
        /\ UNCHANGED <<open, requestsAudited, latencySamples, Total, ioErrors,
                       audited, dropped, failed>>
        /\ UNCHANGED <<lastDropsReported, lastIOErrsReported, ticker, tDrops, tIOErrs>>
        /\ UNCHANGED <<main, fDrops, pipelineUp, pipelineStopped, tickerStopped,
                       cancelled, budget, writerOpen>>
    BY <1>7 DEF Terminating, vars, countVars, lastVars, tickerVars, mainVars
  <2>2. TypeOK'
    BY <2>1 DEF IInv, TypeOK, EgressTypeOK, egressVars, pushVars, receiverVars
  <2>3. FinalMade' = FinalMade
    BY <2>1 DEF FinalMade
  <2>4. ReportedInv' /\ StagesInv'
    BY <2>1, <2>3 DEF IInv, ReportedInv, StagesInv
  <2> QED
    BY <2>1, <2>2, <2>4, CountsUntouched, WebhookUntouched DEF IInv
<1> QED
  BY <1>1, <1>2, <1>3, <1>4, <1>5, <1>6, <1>7 DEF Next, TickerStep, MainStep, MetricsGivenUp

\* IInv holds in every reachable state.
THEOREM Inductive == Spec => []IInv
BY InitIInv, NextIInv, PTL DEF Spec

\* Evidence and egress are type correct for any number of requests, windows and
\* retries.
THEOREM TypeCorrect == Spec => []TypeOK
<1>1. IInv => TypeOK
  BY DEF IInv
<1> QED
  BY <1>1, Inductive, PTL

\* No request falls between two windows or into both: RecordLatency, Ingest and
\* SnapshotAndReset may interleave at will.
THEOREM WindowsPartition == Spec => []CountedOnce
<1>1. IInv => CountedOnce
  BY SumsAre DEF IInv, CountsInv, CountedOnce
<1> QED
  BY <1>1, Inductive, PTL

\* What the ticker loads before a snapshot and remembers after it is reported
\* once, by the ticker or by the final report.
THEOREM DropsReportedOnce == Spec => []DropsOnce
<1>1. IInv => DropsOnce
  <2>1. SUFFICES ASSUME IInv
                 PROVE  /\ Dropped(windows) <= dropped
                        /\ NotWritten(windows) <= failed
                        /\ /\ ticker \in {"select", "drops", "dispatch", "returned"}
                           /\ \A i \in DOMAIN windows : ~windows[i].partial
                           => /\ Dropped(windows) = lastDropsReported
                              /\ NotWritten(windows) = lastIOErrsReported
    BY SumsAre DEF DropsOnce
  <2>2. /\ Total = dropped /\ ioErrors = failed
        /\ Total \in Nat /\ ioErrors \in Nat /\ tDrops \in Nat /\ tIOErrs \in Nat
        /\ lastDropsReported \in Nat /\ lastIOErrsReported \in Nat
        /\ lastDropsReported <= Total /\ lastIOErrsReported <= ioErrors
        /\ Dropped(windows) \in Nat /\ NotWritten(windows) \in Nat
    BY <2>1, Types DEF IInv, CountsInv
  <2>3. CASE FinalMade
    <3>1. /\ \E i \in DOMAIN windows : windows[i].partial
          /\ Dropped(windows) <= Total /\ NotWritten(windows) = ioErrors
      BY <2>1, <2>3, Final DEF IInv, ReportedInv
    <3> QED
      BY <2>2, <3>1
  <2>4. CASE ~FinalMade
    <3>1. /\ Dropped(windows) + (IF ticker = "snapshot" THEN tDrops ELSE 0)
               = lastDropsReported
          /\ NotWritten(windows) + (IF ticker = "snapshot" THEN tIOErrs ELSE 0)
               = lastIOErrsReported
      BY <2>1, <2>4 DEF IInv, ReportedInv
    <3>2. CASE ticker = "snapshot"
      <4>1. /\ Dropped(windows) + tDrops = lastDropsReported
            /\ NotWritten(windows) + tIOErrs = lastIOErrsReported
        BY <3>1, <3>2
      <4>2. Dropped(windows) <= Total /\ NotWritten(windows) <= ioErrors
        BY ONLY <2>2, <4>1
      <4> QED
        BY <2>2, <3>2, <4>2
    <3>3. CASE ticker # "snapshot"
      <4>1. /\ Dropped(windows) + 0 = lastDropsReported
            /\ NotWritten(windows) + 0 = lastIOErrsReported
        BY <3>1, <3>3
      <4>2. /\ Dropped(windows) = lastDropsReported
            /\ NotWritten(windows) = lastIOErrsReported
        BY ONLY <2>2, <4>1
      <4> QED
        BY <2>2, <4>2
    <3> QED
      BY <3>2, <3>3
  <2> QED
    BY <2>3, <2>4
<1> QED
  BY <1>1, Inductive, PTL

\* The final report closes the books: where some window is the final report's, no
\* window is opened after it and nothing that is audited or not written is left
\* out, then or later; and the writer is closed when nobody writes any more.
THEOREM BooksAreClosed == Spec => []FinalIsFinal
<1>1. IInv => FinalIsFinal
  <2>1. SUFFICES ASSUME IInv
                 PROVE  /\ \A i \in DOMAIN windows : windows[i].partial =>
                             /\ i = Len(windows)
                             /\ Audited(windows) = audited
                             /\ NotWritten(windows) = failed
                        /\ ~writerOpen => ~pipelineUp
    BY SumsAre DEF FinalIsFinal
  <2>2. ASSUME FinalMade PROVE Audited(windows) = audited /\ NotWritten(windows) = failed
    <3>1. /\ Audited(windows) + requestsAudited = audited
          /\ requestsAudited = 0 /\ NotWritten(windows) = ioErrors /\ ioErrors = failed
      BY <2>1, <2>2 DEF IInv, CountsInv, ReportedInv
    <3>2. Audited(windows) \in Nat
      BY <2>1, Types DEF IInv
    <3> QED
      BY ONLY <3>1, <3>2
  <2>3. (\E i \in DOMAIN windows : windows[i].partial) => FinalMade
    BY <2>1, Final DEF IInv
  <2> QED
    BY <2>1, <2>2, <2>3 DEF IInv, StagesInv
<1> QED
  BY <1>1, Inductive, PTL

\* The receiver processes every summary at most once, however late a request
\* reaches it: a push keeps its key through all its attempts, and no two pushes
\* share one.
THEOREM ReceiverOnce == Spec => []WebhookOnce
<1>1. IInv => WebhookOnce
  BY DEF IInv, WebhookInv
<1> QED
  BY <1>1, Inductive, PTL
=============================================================================
