--------------------------- MODULE SessionTracker ---------------------------
(***************************************************************************)
(* session.go: the tracker that merges the request's and the response's    *)
(* entry into one record, fed by the bridges of run.go, and the shutdown   *)
(* of this part of the pipeline (waitPipeline in run.go).                  *)
(*                                                                         *)
(* The bridges and the sweeper meet at the tracker's mutex.  A submission  *)
(* sends to the collector at most once, so what it does under the mutex is *)
(* one step; a sweep sends for every session it evicts, while the          *)
(* collector receives, so it is a step for each.  Time is left out: at     *)
(* every tick any session may be older than the TTL.                       *)
(***************************************************************************)
EXTENDS Workers

CONSTANT CollectorCap    \* capacity of collectorInput
ASSUME CollectorAssumption == CollectorCap \in Nat \ {0}

VARIABLES
    bridge,          \* by direction: the entry a bridge has received, if any
    sessions,        \* the tracker's map, by request
    sweeper,         \* where the sweeper is; in "ttl" and "final" it has the mutex
    evict,           \* the sessions it still has to evict
    collectorInput,  \* records emitted and not yet received
    inputOpen,       \* FALSE once waitPipeline has closed it
    stage,           \* where waitPipeline is
    emitted,         \* history: the records sent to the collector, by request
    discarded,       \* history: the records a full collectorInput did not take
    expired          \* history: requests a TTL sweep has evicted

trackerVars == <<bridge, sessions, sweeper, evict, collectorInput, inputOpen,
                 stage, emitted, discarded, expired>>
vars == <<workerVars, trackerVars>>

\* A TelemetryLog, by the sides whose fields it has.
Log == [req : BOOLEAN, resp : BOOLEAN]
LogOf(d) == [req |-> d = "request", resp |-> d = "response"]

Stages == {"serving", "request assembler", "request workers", "request bridge",
           "response assembler", "response workers", "response bridge", "tracker",
           "collector", "done"}

TypeOK ==
    /\ WorkersTypeOK
    /\ bridge \in [Directions -> Requests \cup {NoRequest, Exited}]
    /\ DOMAIN sessions \subseteq Requests
    /\ \A r \in DOMAIN sessions : sessions[r] \in Log
    /\ sweeper \in {"select", "ttl", "final", "returned"}
    /\ evict \subseteq DOMAIN sessions
    /\ collectorInput \in Seq(Requests \X Log) /\ Len(collectorInput) <= CollectorCap
    /\ inputOpen \in BOOLEAN
    /\ stage \in Stages
    /\ emitted \in [Requests -> Seq(Log)]
    /\ discarded \in [Requests -> Seq(Log)]
    /\ expired \subseteq Requests

\* NewSessionTracker and Start: without responses there is no sweeper.
Init ==
    /\ WorkersInit
    /\ bridge = [d \in Directions |-> NoRequest]
    /\ sessions = <<>>
    /\ sweeper = IF bidir THEN "select" ELSE "returned"
    /\ evict = {}
    /\ collectorInput = <<>> /\ inputOpen = TRUE
    /\ stage = "serving"
    /\ emitted = [r \in Requests |-> <<>>]
    /\ discarded = [r \in Requests |-> <<>>]
    /\ expired = {}

Without(r) == [q \in DOMAIN sessions \ {r} |-> sessions[q]]

\* Mutant of Emit: one record more than there is room for.
EmitOverfull(r, log) ==
    IF Len(collectorInput) <= CollectorCap
    THEN /\ collectorInput' = Append(collectorInput, <<r, log>>)
         /\ emitted' = [emitted EXCEPT ![r] = Append(@, log)]
         /\ UNCHANGED discarded
    ELSE /\ discarded' = [discarded EXCEPT ![r] = Append(@, log)]
         /\ UNCHANGED <<collectorInput, emitted>>

\* emit: a non-blocking send; what a full channel does not take is gone.
Emit(r, log) ==
    IF Len(collectorInput) < CollectorCap
    THEN /\ collectorInput' = Append(collectorInput, <<r, log>>)
         /\ emitted' = [emitted EXCEPT ![r] = Append(@, log)]
         /\ UNCHANGED discarded
    ELSE /\ discarded' = [discarded EXCEPT ![r] = Append(@, log)]
         /\ UNCHANGED <<collectorInput, emitted>>

\* mergeResponse copies the response's fields that are there.
mergeResponse(dst, src) == [dst EXCEPT !.resp = @ \/ src.resp]

\* Mutant of Merged: the request is emitted without its response's fields.
MergedOneWay(d, existing) == IF d = "request" THEN LogOf(d)
                             ELSE mergeResponse(existing, LogOf(d))

\* The record for an entry of direction d when the other side is there: the
\* response goes into the request, whichever came first.
Merged(d, existing) == IF d = "request" THEN mergeResponse(LogOf(d), existing)
                       ELSE mergeResponse(existing, LogOf(d))

MutexFree == sweeper \notin {"ttl", "final"}

\* Mutant of Forget: delete(s.sessions, ...) is missing.
Remember(r) == UNCHANGED sessions

Forget(r) == sessions' = Without(r)

\* The bridge: for entry := range results
BridgeTake(d) ==
    /\ bridge[d] = NoRequest
    /\ results[d] # <<>>
    /\ bridge' = [bridge EXCEPT ![d] = Head(results[d])]
    /\ results' = [results EXCEPT ![d] = Tail(@)]
    /\ UNCHANGED <<bidir, payloads, payloadsOpen, work, resultsOpen, resultDropped,
                   sessions, sweeper, evict, collectorInput, inputOpen, stage, emitted, discarded,
                   expired>>

\* SubmitRequest and SubmitResponse: emit at once when there is nothing to
\* wait for, merge and emit when the other side is there, hold the entry if not.
Submit(d) ==
    LET r == bridge[d]
    IN  /\ r \in Requests
        /\ bidir => MutexFree
        /\ IF ~bidir THEN Emit(r, LogOf(d)) /\ UNCHANGED sessions
           ELSE IF r \in DOMAIN sessions
           THEN Emit(r, Merged(d, sessions[r])) /\ Forget(r)
           ELSE /\ sessions' = [q \in DOMAIN sessions \cup {r} |->
                                   IF q = r THEN LogOf(d) ELSE sessions[q]]
                /\ UNCHANGED <<collectorInput, emitted, discarded>>
        /\ bridge' = [bridge EXCEPT ![d] = NoRequest]
        /\ UNCHANGED <<workerVars, sweeper, evict, inputOpen, stage, expired>>

BridgeExit(d) ==
    /\ bridge[d] = NoRequest
    /\ ~resultsOpen[d] /\ results[d] = <<>>
    /\ bridge' = [bridge EXCEPT ![d] = Exited]
    /\ UNCHANGED <<workerVars, sessions, sweeper, evict, collectorInput,
                   inputOpen, stage, emitted, discarded, expired>>

\* Mutant of Cancelled: trackerCancel is called after the wait for trackerDone.
CancelledLate == stage \in {"collector", "done"}

\* Where waitPipeline has called trackerCancel.
Cancelled == stage \in {"tracker", "collector", "done"}

\* Mutant of Sweep: only sessions that wait for their response are looked at.
SweepRequests ==
    /\ sweeper = "select"
    /\ \E old \in (SUBSET {r \in DOMAIN sessions : sessions[r].req}) \ {{}} :
         /\ evict' = old
         /\ expired' = expired \cup old
    /\ sweeper' = "ttl"
    /\ UNCHANGED <<workerVars, bridge, sessions, collectorInput, inputOpen,
                   stage, emitted, discarded>>

\* sweep: the ticker fires, the mutex is taken and some sessions are too old.
Sweep ==
    /\ sweeper = "select"
    /\ \E old \in (SUBSET DOMAIN sessions) \ {{}} :
         /\ evict' = old
         /\ expired' = expired \cup old
    /\ sweeper' = "ttl"
    /\ UNCHANGED <<workerVars, bridge, sessions, collectorInput, inputOpen,
                   stage, emitted, discarded>>

\* case <-ctx.Done(): the final sweep evicts every session.
FinalSweep ==
    /\ sweeper = "select"
    /\ Cancelled
    /\ evict' = DOMAIN sessions
    /\ sweeper' = "final"
    /\ UNCHANGED <<workerVars, bridge, sessions, collectorInput, inputOpen,
                   stage, emitted, discarded, expired>>

Evict ==
    /\ \E r \in evict :
         /\ Emit(r, sessions[r])
         /\ Forget(r)
         /\ evict' = evict \ {r}
    /\ UNCHANGED <<workerVars, bridge, sweeper, inputOpen, stage, expired>>

\* The mutex is released; after the final sweep the goroutine returns.
SweepEnds ==
    /\ sweeper \in {"ttl", "final"}
    /\ evict = {}
    /\ sweeper' = IF sweeper = "final" THEN "returned" ELSE "select"
    /\ UNCHANGED <<workerVars, bridge, sessions, evict, collectorInput,
                   inputOpen, stage, emitted, discarded, expired>>

SweeperStep == Sweep \/ FinalSweep \/ Evict \/ SweepEnds

\* The collector receives a record.
CollectorTake ==
    /\ collectorInput # <<>>
    /\ collectorInput' = Tail(collectorInput)
    /\ UNCHANGED <<workerVars, bridge, sessions, sweeper, evict, inputOpen,
                   stage, emitted, discarded, expired>>

-----------------------------------------------------------------------------
(* The assemblers' end *)

\* The queue of an assembler is closed: the audit queue by Run when the server
\* has shut down, cfg.ResponseQueue by waitPipeline after the request pipeline.
QueueClosed(d) ==
    IF d = "request" THEN stage # "serving"
    ELSE stage \notin {"serving", "request assembler", "request workers", "request bridge"}

\* An assembler that finds its queue closed and drained closes the workers' input.
AssemblerExit(d) ==
    /\ QueueClosed(d)
    /\ payloadsOpen[d]
    /\ payloadsOpen' = [payloadsOpen EXCEPT ![d] = FALSE]
    /\ UNCHANGED <<bidir, payloads, work, results, resultsOpen, resultDropped, trackerVars>>

-----------------------------------------------------------------------------
(* waitPipeline *)

NextStage(from, to) ==
    /\ stage = from /\ stage' = to
    /\ UNCHANGED <<bidir, payloads, payloadsOpen, work, results, resultDropped, bridge,
                   sessions, sweeper, evict, collectorInput, emitted, discarded,
                   expired>>

\* close(auditQueue), before waitPipeline is called.
StartShutdown ==
    /\ NextStage("serving", "request assembler")
    /\ UNCHANGED <<resultsOpen, inputOpen>>

\* <-assemblerDone, <-respAssemblerDone
AssemblerDone(d, from, to) ==
    /\ NextStage(from, to)
    /\ ~payloadsOpen[d]
    /\ UNCHANGED <<resultsOpen, inputOpen>>
RequestAssemblerDone == AssemblerDone("request", "request assembler", "request workers")
ResponseAssemblerDone ==
    bidir /\ AssemblerDone("response", "response assembler", "response workers")

\* waitWorkers(), then close(requestResults) or close(responseResults).
CloseResults(d, from, to) ==
    /\ NextStage(from, to)
    /\ AllExited(d)
    /\ resultsOpen' = [resultsOpen EXCEPT ![d] = FALSE]
    /\ UNCHANGED inputOpen
CloseRequestResults == CloseResults("request", "request workers", "request bridge")
CloseResponseResults ==
    bidir /\ CloseResults("response", "response workers", "response bridge")

\* <-requestBridgeDone, then close(cfg.ResponseQueue), if there are responses.
RequestBridgeDone ==
    /\ NextStage("request bridge", IF bidir THEN "response assembler" ELSE "tracker")
    /\ bridge["request"] = Exited
    /\ UNCHANGED <<resultsOpen, inputOpen>>
ResponseBridgeDone ==
    /\ bidir
    /\ NextStage("response bridge", "tracker")
    /\ bridge["response"] = Exited
    /\ UNCHANGED <<resultsOpen, inputOpen>>

\* Mutant of TrackerDone: the final sweep is not waited for.
TrackerNotAwaited == TRUE

\* <-trackerDone
TrackerDone == sweeper = "returned"

CloseCollectorInput ==
    /\ NextStage("tracker", "collector")
    /\ TrackerDone
    /\ inputOpen' = FALSE
    /\ UNCHANGED resultsOpen

CollectorDone ==
    /\ NextStage("collector", "done")
    /\ collectorInput = <<>>
    /\ UNCHANGED <<resultsOpen, inputOpen>>

WaitPipeline ==
    \/ RequestAssemblerDone \/ CloseRequestResults \/ RequestBridgeDone
    \/ ResponseAssemblerDone \/ CloseResponseResults \/ ResponseBridgeDone
    \/ CloseCollectorInput \/ CollectorDone

WorkerSteps ==
    \E d \in Directions, w \in Workers : WorkerStep(d, w) /\ UNCHANGED trackerVars
BridgeStep(d) == BridgeTake(d) \/ Submit(d) \/ BridgeExit(d)

Terminating == stage = "done" /\ UNCHANGED vars

Next ==
    \/ WorkerSteps
    \/ \E d \in Directions : AssemblerExit(d) \/ BridgeStep(d)
    \/ SweeperStep
    \/ CollectorTake
    \/ StartShutdown \/ WaitPipeline
    \/ Terminating

Spec == Init /\ [][Next]_vars

\* What the goroutines do by themselves, once there is something to do.
Running ==
    \/ WorkerSteps \/ \E d \in Directions : AssemblerExit(d) \/ BridgeStep(d)
    \/ FinalSweep \/ Evict \/ SweepEnds \/ CollectorTake \/ WaitPipeline

\* Some goroutine that can run does, which is less than fairness for each: none
\* of them can run for ever, as there are finitely many entries.  The sweeper
\* finds every session too old some day: a tick at which r is past its TTL
\* comes unless r is gone before.
Fairness ==
    /\ WF_vars(Running)
    /\ \A r \in Requests : WF_vars(Sweep /\ r \in evict')

FairSpec == Spec /\ Fairness

-----------------------------------------------------------------------------
(* Properties *)

Side(log, d) == IF d = "request" THEN log.req ELSE log.resp
SidesIn(s, d) == Cardinality({i \in DOMAIN s : Side(s[i], d)})
Truth(b) == IF b THEN 1 ELSE 0

\* How often the entry of r in direction d exists, all over the pipeline.
Copies(r, d) ==
    Truth(r \in payloads[d])
    + Cardinality({w \in Workers : work[d][w] = r})
    + Cardinality({i \in DOMAIN results[d] : results[d][i] = r})
    + Truth(bridge[d] = r)
    + Truth(r \in DOMAIN sessions /\ Side(sessions[r], d))
    + SidesIn(emitted[r], d) + SidesIn(discarded[r], d)
    + Truth(r \in resultDropped[d])

\* An entry is never lost without a branch that drops it and never emitted
\* twice: neither by a merge, nor by a sweep, nor by the final one.
EntryConservation ==
    [][\A r \in Requests, d \in Directions : Copies(r, d)' = Copies(r, d)]_vars

\* "prevents the split-brain problem": a request gets a second record only if
\* its first one left the tracker because of the TTL.
SplitOnlyByExpiry ==
    \A r \in Requests : Len(emitted[r]) + Len(discarded[r]) > 1 => r \in expired

\* "Without this wait, the final sweep's emit() races with close()": no channel
\* is closed while somebody who could still send to it is there (the send would
\* panic, and nothing recovers it), and no session is left behind.
NoSendOnClosed ==
    /\ \A d \in Directions : ~resultsOpen[d] => \A w \in Workers : work[d][w] = Exited
    /\ ~inputOpen => /\ sweeper = "returned"
                     /\ \A d \in Directions : bridge[d] = Exited
                     /\ sessions = <<>>

\* Shutdown goes through: whatever the TTL sweeps, the bridges and the mutex
\* do, waitPipeline returns.
ShutdownCompletes == stage # "serving" ~> stage = "done"

\* A session whose other side never comes is evicted.
SessionsExpire == \A r \in Requests : r \in DOMAIN sessions ~> r \notin DOMAIN sessions
=============================================================================
