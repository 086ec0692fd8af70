# A verification development for outband

outband is an audit sidecar for LLM traffic, a reverse proxy in Go. It forwards every
request untouched and copies the request bodies into a pipeline of goroutines that
reassembles, redacts, logs and counts them. The proxy path must never wait for the audit
path, so every hand-over inside the pipeline may fail, and what is lost must be counted.
This directory holds TLA+ specifications of that pipeline, configurations that check them
with TLC, and proofs checked by TLAPS.

Names follow the code: an action is named after the function or branch it models, a
variable after the field or channel. `PROJECT.json` maps every definition to its lines.

## 1. Inventory

```
 client body ─▶ auditReader ──▶ audit queue ─▶ assembler ─▶ workers ─▶ bridge ─┐
                 │     ▲                          │                             ▼
                 │     └────── block pool ◀───────┘      (response side) ─▶ session tracker
                 ▼                                                              │
            drop counter ─▶ poller ─▶ log                                       ▼
                 │                                     JSONL files ◀─ writer ◀─ collector
                 └────────▶ evidence ticker ◀─ aggregator ◀── persisted ──┘
                                   └─▶ dispatcher ─▶ evidence file, webhook
```

| component | state | operations | what makes it hard | what makes it correct |
|---|---|---|---|---|
| Block pool `blockpool.go` | a buffered channel of blocks | `Get`, `Put`, `Reset`, `Write` | shared by all requests and the assembler; `Put` silently drops what does not fit | every block is in one place |
| Audit reader `teereader.go` | current block, `seq`, `abandoned`, `finalized`, `closed` | `Read`, `capture`, `finish`, `abandon`, `Close` | a pool or queue that runs out at any of nine points; queue closed while sending | returns, holds nothing after giving up, counts each loss once |
| Audit queue `run.go` | bounded channel | non-blocking send, receive, close | full or closed | FIFO, no block touched while inside |
| Assembler `assembler.go` | `inflight` map, `inflightBytes`, statistics | `processBlock`, `sweepStale`, exit | gaps, budgets, stale clients, uncounted branches | payload = body; at most one outcome; right total |
| Worker pool `worker.go` | one payload per worker | take, process, non-blocking send | result queue full; awaited at shutdown | no send after close |
| Session tracker `session.go` + bridges `run.go` | `sessions`, a mutex, the sweeper | `SubmitRequest`, `SubmitResponse`, `sweep`, `emit` | either side first, TTL against late side, final sweep against close | one record per request; nothing left behind |
| Collector `collector.go` | `activeBatch`, `flushing`, `flushWg` | receive, tick, `tryFlush`, final flush | asynchronous flush, flag and wait group in two steps | order kept, nothing lost, one flush at a time |
| JSONL writer `jsonlwriter.go` | open file, size and average, files on disk | `Flush`, `rotate`, `enforceRetention`, `Close` | any file system call may fail; crash between two | what is counted is on disk; oldest forgotten first |
| Aggregator `aggregator.go` | window counters by category and direction, latency histogram | `RecordLatency`, `Ingest`, `SnapshotAndReset`, `computePercentile` | flushes race with ends of windows; logs of an exchange merged or apart; ranks at the histogram's ends | every record and finding in one window; percentiles are nearest ranks |
| Evidence ticker, final report `run.go` | `lastDropsReported`, ... | tick, dispatch, shutdown | plain variables of two goroutines; cancellation in a dispatch | each drop in one window; no summary lost |
| Egress `egress.go` | attempt, idempotency key | local file, webhook with retries | late or lost answers, requests received after they were given up | processed at most once |
| Drop counter `dropcounter.go` | two atomics | `Increment`, `Poll`, stop | two atomics, no lock | the log adds up |
| Run `run.go` | channels, contexts | start, drain, budgeted shutdown | order of closes and waits | ends within its budget, panics nowhere |
| Metrics `metrics.go` | exported counters | `Inc`, `Add` | counted next to the aggregator, without its mutex | agree with the evidence |
| Proxy, latency, health | none | handlers | – | – |
| Extractor `extractor.go` | none (pure) | `ExtractContent` | deltas cut anywhere and interleaved, empty parts and messages, streams not recognised | finds every text, whole and under its place |
| Redactor `redactor.go` | none (pure) | `Redact`, `luhnValid`, `validateIPv4` | patterns see each other's markers; checksums and padded numbers | removes what matches and is valid, nothing else |

The response pipeline up to its audit queue (`ResponseWriterFactory`) is not in the
repository. From its assembler on it runs the same code as the request pipeline.

## 2. Modules

| module | models | composed by |
|---|---|---|
| `BlockPool` | the pool, the blocks, the audit queue | `TeeReader`, `Assembler` |
| `TeeReader` | one `auditReader` per request | `Capture` |
| `Assembler` | the assembler goroutine | `Capture` |
| `Capture` | readers + pool + queue + assembler + closing of the queue | – |
| `AuditPromise` | abstract: what the capture path promises of a request | refined by `Capture` |
| `AuditLog` | abstract: what batching, files and evidence promise of the entries | refined by `Delivery` |
| `DropCounter` | two atomics, poller, stop | – |
| `Workers` | the workers of both directions | `SessionTracker` |
| `SessionTracker` | bridges, tracker, sweeper, `waitPipeline` | – |
| `Collector` | batches and flush goroutines | `Delivery` |
| `JSONLWriter` | files, rotation, retention, faults | `Delivery` |
| `Delivery` | collector + flush callback + writer + crashes and restarts | – |
| `Extractor` | fields of requests and streams, for both APIs | `Processing` |
| `Redactor` | patterns, validators, chain | `Processing`, `Aggregator` |
| `Processing` | `processPayload`, fed by clients and upstreams (external) | `MCRecords` |
| `Aggregator` | every counter of a window, the histogram | `Records` |
| `Records` | flush callback, aggregator, Prometheus counters, ticker | `MCRecords` |
| `Egress` | dispatcher, local target, webhook, its receiver (external) | `Evidence` |
| `Evidence` | aggregator, ticker, dispatches, shutdown and final report | – |
| `CaptureProofs`, `DropCounterProofs`, `SessionsProofs`, `DeliveryProofs`, `EvidenceProofs`, `RecordsProofs`, `ProcessingProofs` | theorems about the component they are named after | – |
| `FoldLemmas` | lemmas about sums, folds over sequences and flattened sequences | the modules of theorems |
| `MC*` | instances for TLC: symmetry, view, bodies, texts and findings | – |

### Grain

A step is what lies between two operations on state that somebody else can see: channel
operations, atomics, mutexes, file system calls. Code that runs between two of them on a
goroutine's own variables belongs to one step.

* **TeeReader.** `pc[r]` names the pool or queue operation that reader `r` is about to do;
  the module's header lists them. `capture`'s loop is `GetCurrent`, `WriteBlock`,
  `GetNext`, `SendFull` and their failing counterparts; `abandon` is `SendAbort` or
  `SendAbortFails`; `finish` is `Finish`, `GetSentinel`, `SendFinal` and `PutFinal`. A send
  that fails because the queue is full and one that panics because it is closed have the
  same effect: `sendBlock` recovers and reports false.
* **Assembler.** Receiving a block and processing it are two steps; the branches of
  `processBlock` are one action each and every one returns the block. The statistics are
  kept per request, their sum is the code's counter.
* **Data.** A unit of a body is its position in the body. A payload is intact when it reads
  `1, 2, ..., n`; a block's data also shows whose it is, since its request is recorded in it.
* **DropCounter.** Each atomic addition, swap and load is a step.
* **SessionTracker.** A record is the pair of sides it has. A submission is one step under
  the mutex; an evicting sweep is a step per session, because the collector receives in
  between. `stage` is where `waitPipeline` is: it waits for the assembler, the workers and the
  bridge of the requests, closes the response queue, waits for the same three of the
  responses, then for the sweeper and the collector. The payloads of both sides are there from
  the beginning; that an assembler has closed its workers' input (`payloadsOpen`) is what
  ends their loops.
* **Delivery.** Entries are numbered as they are sent. A file is the sequence of the chunks
  written to it, a chunk being a line or, after a failed write, the beginning of one. `wpc`
  names the file system operation `Flush` is about to do. `Restart` may happen at any step:
  memory is gone, the disk stays.
* **Extractor, Redactor.** A text is a sequence of pieces: plain words, the two halves of a
  candidate (what an expression finds only as a whole), markers. A candidate says which
  expressions match it, and carries the digits or octets that the validators look at. JSON
  is already parsed; of a stream the lines are left, since `isSSE` and `splitSSEChunks`
  look at them, and in a line the deltas with their index, if they have one.
* **Processing.** An answer's stream is written a line at a time and may be processed after
  any of them: a capture that ended early is a stream that ended early.
* **Records.** The statements of the flush callback that count (`Ingest`, the two Prometheus
  counters), those of `RecordOverhead` and those of the ticker are a step each, since a
  window may be closed or a scrape answered between any two. `Evidence` has the same
  aggregator with two counters only, and in exchange the dispatches and the shutdown.
* **Evidence.** A request is open until it is audited, dropped, or in a batch that was not
  written. Loads of the counters, the snapshot and the dispatch are separate steps of the
  ticker; the dispatch in turn has a step per target and attempt. A request that the webhook
  sent stays in `sent`: the receiver may get it (`Receive`) while the client waits, during a
  backoff, after the push was given up, in a later window's dispatch, after `Run` has
  returned, or never. It processes an `Idempotency-Key` once. `Run` has a step for each wait
  and for each piece of cleanup: final counters, final report, the writer's `Close`,
  `metricsServer.Shutdown`, `stopPoller`.

Time is left out: a tick, an age, a TTL or a time limit may come at any moment the code
looks for it. The one exception is the 30 s limit of a dispatch, which does not run out
before the dispatch has tried its first target.

## 3. Runs

Deadlock is checked in all of them; a `Terminating` step is allowed only where every
goroutine has returned.

| run | question | bounds |
|---|---|---|
| `capture` | Do two requests at once keep the pool conserved, the payloads intact and the counters right, and does `Capture` refine `AuditPromise`? | 3 blocks of 2 units, queue 1, bodies up to 4, payload limit 3, budget 3, worker queue 1 |
| `capture_live` | Does `Read` return with the assembler stalled for ever? Do all blocks return and all partial payloads go when it is not? | 2 blocks of 1 unit, one body of 2 units and one of 1 |
| `drops` | Do warnings, total and stop add up, and does every drop reach the log? | 3 callers, 4 drops |
| `sessions` | Merging, expiry and shutdown order, with and without a response pipeline; does `waitPipeline` come to its end, do sessions expire? | 2 requests, 2 workers a side, queues of 1 |
| `delivery` | Batches, rotation, faults, restart: does `Delivery` refine `AuditLog`? Is everything flushed, does the collector return? | 4 entries, batches of 2, 1 old file, 2 faults, 1 restart |
| `evidence` | Are windows exact, is the final report the last, does the receiver process a summary at most once, does `Run` return whatever hangs? | 2 requests, 2 windows + final, 1 retry |
| `records` | Do logs say what was in the texts; are validators and percentiles right; do evidence and Prometheus count logs and findings once, and alike? | 3 composed requests, every card number of 3 and 4 digits, every address with one part of up to 3 digits; an answer of 2 texts, cut every way; 2 exchanges, 1 latency, 2 windows |
| `truncated`, `worker_full`, `torn_line`, `lost_window`, `event_stream` | what a document or comment says and the code does not do (section 6) | smallest that show it |

**Why the bounds are enough.** Two requests compete for pool, queue, budget and worker
queue; a third adds contention of the same kind. The blocks are fewer than two requests can
hold together (two each while capturing, plus the one in the assembler's hand), so
exhaustion happens at every `Get`. Bodies reach across a full block, exactly to the end of
one (the sentinel) and over the payload limit; the budget is less than two payloads. The
queue bounds let every non-blocking send both succeed and fail. In `delivery` two faults are
enough for a rotation that fails and a second failure on what it left behind; four entries
and batches of two give full batches, and partial ones at a tick or at the end. In `evidence` two ticker windows
and the final one give every pair of neighbours. `drops` has three callers in `Increment`
while poller and stop overlap. In `records` card numbers have 3 or 4 digits instead of 13 to
19: the checksum treats digits by the parity of their distance from the right, and an odd
and an even length are enough to tell it from one that counts from the left; histograms
have 2 buckets and an overflow, with up to 7 samples in each. Its two machines,
`Processing` and `Records`, share no variable, so each is run from where the other begins.
`computePercentile` computes its rank in floating point and the model in integers; for the
three ranks reported, the two were compared numerically and agree up to two million samples.

**View and symmetry.** Blocks and requests are interchangeable; the runs of `MCCapture` use that. `capture` also ignores what a block in the pool
contains, which no step reads (`Get` resets it). Runs with liveness properties use neither.

### Properties

* `BlockConservation`: every block is in exactly one place – pool, queue, a reader's hand,
  the assembler's. `Put`'s "should not happen if accounting is correct" relies on it.
* `QueuedBlocksFrozen`: nobody writes to a block between its send and its processing.
* `OneOutcome`, `NoSilentLoss`: a request is audited or counted as lost, never both, never
  twice, and never neither – although abort, gaps and shutdown count nothing themselves.
* `InflightAccounting`: the running total is the memory really held, and within the budget.
* `AbandonedHoldsNothing`: `Close` never has anything to reclaim (proved, section 4).
* `CaptureNeverBlocks`, `BlocksComeHome`, `PartialsGo`: fail-open, and no leak. The first
  holds although the assembler need never take a step; the others state the fairness of
  the assembler, and of the transport's `Close`, as their premise.
* `KeepsPromise`: refinement of `AuditPromise`, in which a request's data is passed on,
  recorded whole (what workers get is, unit for unit, what upstream got), or lost with a count.
* `Accounted`, `WarningsWithinTotal`, `StopFlushes`, `DropsAreReported`: the two counters
  and the log agree; it takes `Increment` to add to `Total` first and `Poll` to read it last.
* `EntryConservation`: no step of the tracker loses or doubles an entry except by the
  discards of full queues. `SplitOnlyByExpiry`: a second record only after a TTL eviction.
* `NoSendOnClosed`: no channel is closed while someone could still send (an unrecovered panic).
* `ShutdownCompletes`, `SessionsExpire`.
* `InOrderNoLoss` (which two flushes at a time would break), `CountedIsPersisted`,
  `BatchInOneFile`, `SizeTracked`, `DiskBounded`, `DrainsAtClose`, `EntriesAreFlushed`.
* `KeepsLog`: refinement of `AuditLog`, a log that an entry accepted later is appended to, one
  at a time, and that forgets from its beginning; the evidence reports what was appended. A
  skipped entry is never written afterwards, nor one twice, in this process or the next.
  `OldestForgotten`, proved, says it of states: the files hold the end of what was written.
* `CountedOnce`: every request is processed, and every audited one audited, in one window.
  `DropsOnce`: what windows report of drops and write errors happened, and until the final
  report it is what the ticker remembers as reported. In `records`, `CountedOnce` says the
  same of logs and of findings by category and direction, merged or apart, in any order; a
  merged log counts as one audited request, no more, and two logs as two.
* `FinalIsFinal`: wherever a window is the final report's, no window follows it, the windows
  have all that was or will be audited or not written, and the writer is closed only when
  nobody writes any more. A main goroutine that does not know that both others have returned
  breaks it.
* `WebhookOnce`: a summary is processed at most once, also by a receiver that gets requests
  long after they were given up. Nothing is promised of the order in which summaries reach
  it: a request of one window may arrive after the next window's.
* `ShutdownEnds`: `Run` returns whatever hangs, within its budget.
* `EvidenceMatchesMetrics`: the windows so far and the Prometheus counters differ by what is
  between two statements at the moment, and by nothing else.
* `PercentilesTrue`: a percentile is the nearest rank, for every histogram in the bounds, and
  the histogram has the samples that the window counts as processed.
* `LogsTellPayloads`: a log has every text of its payload under its own place, clean, however
  an upstream cut, interleaved and numbered it.
* `ValidatorsExact`: the Luhn check detects every wrong digit and every swap it promises to; an
  address is valid if it is written as four numbers up to 255 are.

Each is stated in words above its definition. For each, `PROJECT.json` names a mutant: a
plausible slip in one mapped definition (a missing reset, a wait left out, a test off by
one) that the property detects in the same run.

### Fairness

* Readers: a goroutine that entered `Read` or `Close` runs on; none of its operations waits.
  `capture_live` assumes this and nothing else.
* The transport closes every body it was given (the contract of `net/http`), the assembler's
  `select` takes what is ready, and its ticker finds every buffer for which no block arrives
  (premises of `BlocksComeHome` and `PartialsGo`).
* The poller's ticker and the collector's ticker tick; goroutines in the middle of an
  operation continue.
* In `sessions` some goroutine that can run does (assemblers that find their queue closed,
  workers, bridges, collector, `waitPipeline`), which is less than fairness for each one; and the sweeper's ticker finds every session past its TTL, unless the session is gone before.
* `delivery` assumes that file system calls return, with an error or without.
* `evidence` assumes only that `Run`'s goroutine is scheduled and that its 5 s run out:
  pipeline, ticker, receiver and the clients of the metrics server may hang, and their waits
  are fair only as far as the budget ends them. What `Run` does with no time limit is a step
  of its own and taken to return: the final report's file write and the writer's `Close` (a
  disk that hangs there is outside what this run shows), and `stopPoller`, which waits for
  nobody (`DropCounter`).

No fairness is assumed of arrivals, of shutdown, of faults or restarts.

## 4. Proofs

TLAPS proves, for every value of the constants that satisfies the assumptions in the
modules (finite sets of blocks, requests, callers and exchanges, sizes and capacities that
are naturals, positive where the code's are):

| theorem | property |
|---|---|
| `CaptureProofs!TypeCorrect` | `TypeOK` |
| `CaptureProofs!BlocksConserved` | `BlockConservation` |
| `CaptureProofs!NothingReclaimed` | `AbandonedHoldsNothing` |
| `CaptureProofs!Frozen` | `QueuedBlocksFrozen` (action property) |
| `CaptureProofs!MemoryIsCounted` | `InflightAccounting` |
| `CaptureProofs!OneEnd`, `NoneForgotten` | `OneOutcome`, `NoSilentLoss` |
| `CaptureProofs!PromiseKept` | `KeepsPromise`: `Capture` implements `AuditPromise` |
| `DropCounterProofs!DropsAccounted` | `Accounted` |
| `DropCounterProofs!WarningsNeverOvercount` | `WarningsWithinTotal` |
| `DropCounterProofs!StopReportsAll` | `StopFlushes` |
| `SessionsProofs!TypeCorrect` | `TypeOK` |
| `SessionsProofs!ClosedHasNoSender` | `NoSendOnClosed` |
| `SessionsProofs!OneRecordUnlessExpired` | `SplitOnlyByExpiry` |
| `SessionsProofs!EntriesConserved` | `EntryConservation` (action property) |
| `DeliveryProofs!TypeCorrect` | `TypeOK` |
| `DeliveryProofs!NothingLostOrReordered` | `InOrderNoLoss` |
| `DeliveryProofs!EvidenceIsOnDisk` | `CountedIsPersisted` |
| `DeliveryProofs!LogKept` | `KeepsLog`: `Delivery` implements `AuditLog` |
| `DeliveryProofs!OnlyOldestForgotten` | `OldestForgotten` |
| `DeliveryProofs!BatchesAreNotSplit` | `BatchInOneFile` |
| `DeliveryProofs!SizeIsKnown` | `SizeTracked` |
| `DeliveryProofs!DiskDoesNotFillUp` | `DiskBounded` |
| `EvidenceProofs!TypeCorrect` | `TypeOK` |
| `EvidenceProofs!WindowsPartition` | `CountedOnce` |
| `EvidenceProofs!DropsReportedOnce` | `DropsOnce` |
| `EvidenceProofs!BooksAreClosed` | `FinalIsFinal` |
| `EvidenceProofs!ReceiverOnce` | `WebhookOnce` |
| `RecordsProofs!AuditorsAgree` | `EvidenceMatchesMetrics` |
| `RecordsProofs!EachFindingOnce` | `CountedOnce` |
| `RecordsProofs!PercentilesAreRanks`, `PercentileIs` | `PercentilesTrue`, and the nearest rank for counts of any size |
| `ProcessingProofs!RedactIsClean` | `Redact` takes out what `Clean` says, for texts of any length |
| `ProcessingProofs!LuhnKeepsPromise`, `IPv4IsExact` | what the two validators accept, for numbers of any length |
| `ProcessingProofs!ValidatorsAreExact` | `ValidatorsExact` |
| `ProcessingProofs!LogsAreComplete` | `LogsTellPayloads`, for streams that begin with data |

Those about a specification rest on an inductive invariant, checked by TLC as an invariant
before it was proved (`EndInv` in the form of `OldestForgotten`: TLC cannot enumerate its
sequences). All assumptions on constants are in the modules that declare them, and TLC
evaluates them in the runs.

**Capture.** Block conservation is not inductive by itself: that a `Put` does not add a
block twice depends on what the reader's program counter says it holds. The invariant is

    IInv == TypeOK /\ BlockConservation /\ (\A r : ReaderInv(r)) /\ ContentInv

`ReaderInv` relates `pc[r]` to `current[r]`, `next[r]` and the flags (for instance: in
"send" there is a current block; an abandoned reader is idle or closed and has none).
`ContentInv` says whose data a block has and that it has at most a block's worth of it; type
correctness of `WriteBlock` needs it, and so does the type of the request the assembler
looks up. `PutHasRoom` turns the channel of capacity `Cardinality(Blocks)` into a set union:
a block outside the pool always finds room, so `Put`'s default branch is dead. The moves of
a block (`TakeCurrent`, `SendNext`, `PutHandBack`, ...) each preserve conservation;
`ReaderConservation` and `AsmConservation` reduce every action to one of them. That queued
blocks are frozen follows from `OwnWrites`: a reader writes only to what it holds, which
conservation keeps out of the queue.

**The promise.** That a payload is the body takes a history of the request that no variable
records. `PInv` says it of the present state: a reader's position in the body follows from
its `seq` and its block (`PositionInv`); the blocks sent and not yet processed come in the
order of their `seq` and each says its own part of the body (`SentInv`); as long as nothing
of the request is lost, those from the buffer's `nextSeq` to the last one sent are all among
them (`ChainInv`), and after a finished reader so is the final one (`FinalInv`); a buffer
holds a beginning of the body, and a request that has been counted has no buffer and gets
none, because what is still under way is not its first block (`BufferInv`). The last is why
the branches of `processBlock` that count nothing are right: their request was counted
before. `OneOutcome` and `NoSilentLoss` follow; and each step of `Capture` is, under `PInv`,
`Pass`, `Lose` or `Record` of the abstract specification or leaves it alone.
`InflightAccounting` is proved as a sum over the buffers, one `SumUpdate` or `SumRemove` for
each branch.

**DropCounter.** `IInv` adds to the three properties that only a poll in progress holds
drops (`n`), that the remembered total is at most the counter, and what `stop` has seen:
until its own poll, what was pending is logged, in `n` or still in `Interval`.

**Sessions.** `DrainInv` says that goroutines end one after the other: an exited worker leaves
no payload (its input was closed and drained), closed results have no worker, an ended bridge leaves empty results, and
`waitPipeline` is past only those that ended; a send on a closed channel would need one of
them alive. `SweepInv` says who holds the mutex during a sweep, `AtMostOnce` that no entry is
in two places (a set of sessions would hide the copy), and `RecordInv` that a request that
did not expire is recorded once, and only when neither of its entries is still to come.

**Delivery.** `FlushInv` says that at most one goroutine is in `Flush`, in spite of the flag
that is cleared before the wait group is left: the final flush waits for the group.
`CallInv` then says whose batch the writer works on, `CountInv` that what was reported and
what is written of the batch is what this process wrote (`former` is where it began to),
`SizeInv` at which operations the size is known, `BatchInv` that no rotated file has an
entry of a batch that is not handled yet. `EndInv` says that some sequence, followed by
what the rotated files and the active one hold, is all that was ever written: a rename moves
entries from one to the other, a line that is whole is one entry more on both sides, a torn
one none, and retention moves the first files into the forgotten sequence (`OldestGone`).
For the refinement every step of a `Flush` is thereby an append of the batch's next entry or a
cut at the beginning (`WritingDisk`). `LastInv` says that the entry written last comes before
all that the writer has still to see: a batch that is given up counts as handled with the
entries it skipped, and a restart begins after all that was sent (`OnlySent`).

**Evidence.** `CountsInv` adds up windows; `ReportedInv` says what the ticker carries between
its loads, the snapshot and the variables it remembers. `StagesInv` says that where some
window is the final report's it is the last one, and that the goroutine that made it had seen
both others end: the ticker, which alone could open another, has returned, and `Run` is past
its only report. That nothing is audited or fails to be written afterwards then follows from
the pipeline's end. `WebhookInv` relates keys and windows: the running dispatch has the last
window, all that was sent before its push is of earlier ones, two requests of a window have
one key, and what was processed was sent under a key the receiver has seen. So a request that
arrives late either has such a key, and is not processed, or is the first of its window.

**Records.** `OnceInv` is a balance: what is reported, under way to the aggregator and still
to be flushed is at most what was delivered, and exactly that until a write fails; it moves
from one account to the next with each step of the flush. For audited requests what was
delivered is a number of logs (`Logs`): the sides delivered, less one for each exchange whose
two came in one log (`DeliverLogs`: each delivery adds exactly one). `MetricsInv` says the same of the
two sets of counters, `TotalsInv` that the total of a window is that of its categories, which
for `Ingest` is counting pairs of logs and categories in two ways (`DoubleCount`).

**Redaction.** Five patterns go over a text one after the other, and each sees the markers of
those before it. `RedactIsClean` says that this is the same as looking once at every
candidate. The argument cuts the text. Where no candidate lies across the cut (`Apart`), each
pass leaves to the left and to the right what it would leave of the two alone
(`ReplaceJoined`), and it does not bring a candidate together that was not (`ApartKept`: a
marker is no half of one), so `Redact` can be applied to both sides (`RedactJoined`). A least
text for which the theorem failed would end in a whole candidate or in a piece that is no
second half of the one before it, and both can be cut off. Of a candidate alone, the first
pattern that takes it leaves a marker, and the others nothing to do (`RedactPair`).

**Validators.** The values that `luhnValid`'s sum goes through differ, for two numbers that
differ in a digit, by the difference of the two digits' weights from there on
(`LuhnChanges`); what the doubling does to 0, ..., 9 is a finite matter. A leading zero adds
nothing and moves no other digit's parity from the right (`LuhnOfZeroAnd`). `Atoi` of four
digits or more with none padded is more than 255 (`AtoiIs`), which leaves finitely many
parts to compare with `Octets`.

**Extraction.** `Tells` relates fields and texts: the fields have the texts, each once and
under its own place. It goes through parts, messages and the two contents of an Anthropic
request (`PartsTell`, `MessagesTell`, `RequestTells`), where the places that were given out
before are those of other indices. Of streams, `ProcessingInv` says that `deltasOf` of the
lines so far is what has been sent of every text (`SentTexts`). A line more only goes on
where the folds have stopped (`SplitGrows`, `GatheredGrows`); a delta of one text changes
its builder and no other (`AccumulateOne`), and an array of choices without index changes
that of each by its position (`AccumulateAll`: after position `i` the builders of the texts
up to `i` have grown, and those behind are as they were). `concatenated` then puts the
builders in the order of their indices (`ConcatenatedTells`), and `TellsLog` goes from
fields to the log. `LogsAreComplete` assumes `OnlyData`, which the configuration of `records`
satisfies: no stream begins with a line that is not data. For the others the property is
false, and the run `event_stream` shows it (section 6).

**Sums and folds.** The provers have no rule for induction over data. `FoldLemmas` does it by
minimal counterexamples: a set of subsets of a finite set has a minimal member
(`MinimalSubset`, from the well-foundedness in the library), so a property of all subsets that fails
somewhere fails at a least one, and the step from there is first-order. That gives existence
and uniqueness of the recursion behind `SumFunctionOnSet` (which is a `CHOOSE`), and from
them what the proofs use: adding, removing and updating an element, adding functions, sums
of ones. In the same way a fold over a sequence has values `k[0], k[1], ...`, one for every
step (`FoldSteps`); operators that fold (`Redact`, `luhnValid`, `Atoi`, the loops of the extractor) are
reasoned about through these alone. The recursion behind `FlattenSeq` is treated alike, with a least number (`Least`) in
the place of a minimal set: flattening goes on at the end where it has stopped
(`FlattenAppend`), and what is left of it without its first parts is its end (`FlattenEnd`).

**Only model-checked.** Liveness, and anything with ENABLED, is beyond the prover:
`CaptureNeverBlocks`, `BlocksComeHome`, `PartialsGo`, `DropsAreReported`,
`ShutdownCompletes`, `SessionsExpire`, `DrainsAtClose`, `EntriesAreFlushed`, `ShutdownEnds`.
So are the violations of section 6. Every invariant and every action property of the passing
runs is proved; `KeepsPromise` and `KeepsLog`, refinements without fairness, are too.

## 5. What is not modelled

* A `Close` that overlaps a `Read` of the same body (HTTP/2 transports may do that): a race on
  plain fields, about which the code says nothing that could be checked.
* The JSON and regular expression libraries: which characters an expression matches, how a
  number or a string is spelt, and what a library makes of a truncated line.
* Hashes and timestamps of logs.
* Registries of enterprise extensions, the response writers behind `ResponseWriterFactory`,
  flag parsing, URL rewriting, the health and metrics endpoints, the commands under `cmd/`.
* The server's drain before shutdown: requests still under way when it begins or ends are the
  requests open in `Evidence` and the readers not yet closed in `Capture`.
* The order in which summaries reach the webhook's receiver, and whether `LocalJSONTarget`
  has written its file or failed: neither changes what is dispatched next.
* Response drops: the same code as for request drops, with a counter of its own.
* `json.Marshal` failing for a telemetry entry: its types always marshal.
* The statistic `Exhaustions`, the latency metric `proxyOverhead`.
* Wrap-around of 32-bit sequence numbers and 64-bit counters: a body of 2^32 blocks.

## 6. Findings

| run | the document says | the code does |
|---|---|---|
| `truncated` | `complete`: "true = full capture via final; false = truncated or abandoned" (assembler.go:51) | a body closed half-way is finalised and dispatched with `complete = true`; nothing ever sets false |
| `worker_full` | the drop counter tracks "worker queue full" (SECURITY.md:22) | only a statistic logged at shutdown knows |
| `torn_line` | "one JSON object per line" (jsonlwriter.go:32) | after a partial write the next line is appended to the fragment |
| `event_stream` | "SSE streams: Delta content concatenated per choice/block before scanning" (README.md:185); `isSSE` "contains the pattern after a leading newline" (extractor.go:117) | only a payload that begins with `data: ` is a stream; one that begins with `event:`, as Anthropic's do, yields no field and is recorded as if nothing was found |
| `lost_window` | one summary per window, source of the evidence file (SCHEMA.md:40) | cancelled between snapshot and dispatch, a window is reset and filed nowhere |

More were met while modelling and are not runs of their own:

* session.go:22-26 says that no request produces "two JSONL lines"; a response that comes
  after the sweep evicted its request's entry makes a second record. `SplitOnlyByExpiry`
  says this is the only way.
* jsonlwriter.go:158 says that after a failed rename "w.file is not a closed descriptor";
  when reopening fails too, and when `OpenFile` fails after a successful rename, the closed
  descriptor stays and every later flush fails. The other properties of `delivery` hold
  nevertheless.
* SCHEMA.md:51 defines the coverage as "audited / processed * 100"; the code computes
  audited / (audited + dropped), and its comment argues for it. The quotient is not
  modelled; `CountedOnce` and `DropsOnce` are about its terms.
* SCHEMA.md:52 counts "PII instances"; `processPayload` names each category once per log, so
  what the windows and the metrics add up is categories per log.
* An exchange whose logs came apart counts as two audited requests (`CountedOnce` in `Records`
  says exactly that); a merged log's `FieldsScanned` is that of its request.

## 7. Plan

Done: the capture path with its abstract specification, the drop counter, sessions,
delivery, evidence, extraction, redaction, aggregation and metrics, with the runs above; and
as theorems, the safety of all of these, among them that `Capture` implements
`AuditPromise` and `Delivery` implements `AuditLog`.

Next, to extend the model:

1. The server's drain as a stage of `Evidence`, and `SessionTracker`'s `waitPipeline` behind it.
2. Records of both sides in `Evidence`, fed by `SessionTracker`, for the coverage of
   expired sessions.

Next, to prove: that `SessionTracker` refines an abstract tracker (one record per request and
expiry). The invariant needed is there (`RecordInv`).
