--------------------------- MODULE SessionsProofs ---------------------------
(***************************************************************************)
(* Theorems about SessionTracker, for any number of requests and workers   *)
(* and any capacities of the channels: the entries and the records they    *)
(* become are conserved, no request is split but by the TTL, and no        *)
(* channel is closed under a sender.                                       *)
(***************************************************************************)
EXTENDS SessionTracker, FiniteSetTheorems, TLAPS

-----------------------------------------------------------------------------
(* The inductive invariant *)

\* Only a sweep that has the mutex has sessions left to evict, the final one
\* all that there are; without responses nothing is ever held.
SweepInv ==
    /\ sessions \in [DOMAIN sessions -> Log]
    /\ evict # {} => ~MutexFree
    /\ sweeper = "final" => Cancelled /\ evict = DOMAIN sessions
    /\ sweeper = "returned" => DOMAIN sessions = {} /\ (bidir => Cancelled)
    /\ ~bidir => sweeper = "returned"

\* Where the response pipeline is waited for.
ResponseStages == {"response assembler", "response workers", "response bridge"}

\* Each goroutine that has ended leaves nothing behind it, and waitPipeline is
\* only past those that have ended.
DrainInv ==
    /\ \A d \in Directions, w \in Workers : work[d][w] = Exited => payloads[d] = {}
    /\ \A d \in Directions : ~resultsOpen[d] => AllExited(d)
    /\ \A d \in Directions : bridge[d] = Exited => ~resultsOpen[d] /\ results[d] = <<>>
    /\ stage \in ResponseStages => bridge["request"] = Exited
    /\ Cancelled => \A d \in Directions : bridge[d] = Exited
    /\ stage \in {"collector", "done"} => sweeper = "returned"
    /\ ~inputOpen => stage \in {"collector", "done"}

ShutdownInv == TypeOK /\ SweepInv /\ DrainInv

\* Nothing is anywhere twice: what EntryConservation needs where a set or a
\* held record would hide a second copy.
AtMostOnce == \A r \in Requests, d \in Directions : Copies(r, d) <= 1

\* An entry that will still be submitted.
Pending(r, d) ==
    \/ r \in payloads[d]
    \/ \E w \in Workers : work[d][w] = r
    \/ \E i \in DOMAIN results[d] : results[d][i] = r
    \/ bridge[d] = r

NumRecords(r) == Len(emitted[r]) + Len(discarded[r])

\* A request is recorded once, and not before each of its entries is in the
\* record or lost for good.
OneRecord(r) ==
    /\ NumRecords(r) <= 1
    /\ r \in DOMAIN sessions => NumRecords(r) = 0
    /\ NumRecords(r) = 1 => \A d \in Directions : ~Pending(r, d)

\* That is as long as the TTL has not evicted it.
RecordInv ==
    /\ \A r \in DOMAIN sessions : \E d \in Directions : Side(sessions[r], d)
    /\ sweeper = "ttl" => evict \subseteq expired
    /\ \A r \in Requests \ expired : OneRecord(r)

IInv == ShutdownInv /\ AtMostOnce /\ RecordInv

-----------------------------------------------------------------------------
(* Types and shutdown *)

\* A function on nothing is the empty map.
LEMMA EmptyMap == ASSUME NEW f, NEW S, f \in [{} -> S] PROVE f = <<>>
OBVIOUS

\* A non-blocking send keeps the channel's and the histories' types.
LEMMA EmitTypes ==
    ASSUME TypeOK, NEW r \in Requests, NEW log \in Log, Emit(r, log)
    PROVE  /\ collectorInput' \in Seq(Requests \X Log)
           /\ Len(collectorInput') <= CollectorCap
           /\ emitted' \in [Requests -> Seq(Log)]
           /\ discarded' \in [Requests -> Seq(Log)]
<1> USE DEF TypeOK
<1>1. CASE Len(collectorInput) < CollectorCap
  <2>1. /\ collectorInput' = Append(collectorInput, <<r, log>>)
        /\ emitted' = [emitted EXCEPT ![r] = Append(@, log)]
        /\ discarded' = discarded
    BY <1>1 DEF Emit
  <2>2. <<r, log>> \in Requests \X Log
    OBVIOUS
  <2>3. collectorInput' \in Seq(Requests \X Log) /\ Len(collectorInput') <= CollectorCap
    BY <1>1, <2>1, <2>2, CollectorAssumption
  <2>4. emitted' \in [Requests -> Seq(Log)]
    BY <2>1
  <2> QED
    BY <2>1, <2>3, <2>4
<1>2. CASE ~(Len(collectorInput) < CollectorCap)
  <2>1. /\ discarded' = [discarded EXCEPT ![r] = Append(@, log)]
        /\ collectorInput' = collectorInput /\ emitted' = emitted
    BY <1>2 DEF Emit
  <2> QED
    BY <2>1
<1> QED
  BY <1>1, <1>2

\* What is emitted for a direction, alone or merged with the other one.
LEMMA LogTypes ==
    \A d, existing : existing \in Log => LogOf(d) \in Log /\ Merged(d, existing) \in Log
BY DEF LogOf, Merged, mergeResponse, Log

\* The initial states satisfy it.
LEMMA InitShutdown == Init => ShutdownInv
<1> SUFFICES ASSUME Init PROVE ShutdownInv
  OBVIOUS
<1> USE DEF Init, WorkersInit
<1>1. TypeOK
  BY WorkersAssumption, CollectorAssumption
  DEF TypeOK, WorkersTypeOK, Stages, Directions
<1>2. SweepInv
  BY DEF SweepInv, MutexFree, Cancelled
<1>3. DrainInv
  BY WorkersAssumption DEF DrainInv, ResponseStages, AllExited, Cancelled
<1> QED
  BY <1>1, <1>2, <1>3 DEF ShutdownInv

\* A worker's step.
LEMMA WorkerShutdown ==
    ASSUME ShutdownInv, NEW d \in Directions, NEW w \in Workers, WorkerStep(d, w),
           UNCHANGED trackerVars
    PROVE  ShutdownInv'
<1> USE WorkersAssumption DEF ShutdownInv
<1>1. UNCHANGED <<bidir, payloadsOpen, resultsOpen>> /\ Directions' = Directions
  BY DEF WorkerStep, WorkerTake, WorkerSend, WorkerExit, Directions
<1>2. WorkersTypeOK'
  <2> USE DEF TypeOK, WorkersTypeOK
  <2>1. CASE WorkerTake(d, w)
    BY <1>1, <2>1 DEF WorkerTake
  <2>2. CASE WorkerSend(d, w)
    <3>1. /\ work[d][w] \in Requests
          /\ work' = [work EXCEPT ![d][w] = NoRequest]
          /\ UNCHANGED payloads
      BY <2>2 DEF WorkerSend
    <3>2. CASE Len(results[d]) < ResultsCap
      <4>1. /\ results' = [results EXCEPT ![d] = Append(@, work[d][w])]
            /\ UNCHANGED resultDropped
        BY <2>2, <3>2 DEF WorkerSend
      <4>2. /\ Append(results[d], work[d][w]) \in Seq(Requests)
            /\ Len(Append(results[d], work[d][w])) <= ResultsCap
        BY <3>1, <3>2
      <4> QED
        BY <1>1, <3>1, <4>1, <4>2
    <3>3. CASE ~(Len(results[d]) < ResultsCap)
      <4>1. /\ resultDropped' = [resultDropped EXCEPT ![d] = @ \cup {work[d][w]}]
            /\ UNCHANGED results
        BY <2>2, <3>3 DEF WorkerSend
      <4> QED
        BY <1>1, <3>1, <4>1
    <3> QED
      BY <3>2, <3>3
  <2>3. CASE WorkerExit(d, w)
    BY <1>1, <2>3 DEF WorkerExit
  <2> QED
    BY <2>1, <2>2, <2>3 DEF WorkerStep
<1>3. TypeOK' /\ SweepInv'
  BY <1>1, <1>2 DEF TypeOK, SweepInv, trackerVars, MutexFree, Cancelled
<1>4. DrainInv'
  <2> USE DEF TypeOK, WorkersTypeOK
  <2>1. work[d][w] # Exited /\ resultsOpen[d] /\ bridge[d] # Exited
    BY DEF WorkerStep, WorkerTake, WorkerSend, WorkerExit, DrainInv, AllExited
  <2>2. \A e \in Directions, v \in Workers :
          e # d \/ v # w => work'[e][v] = work[e][v]
    BY DEF WorkerStep, WorkerTake, WorkerSend, WorkerExit
  <2>3. work'[d][w] = Exited => payloads'[d] = {}
    BY DEF WorkerStep, WorkerTake, WorkerSend, WorkerExit
  <2>4. \A e \in Directions : payloads[e] = {} => payloads'[e] = {}
    BY DEF WorkerStep, WorkerTake, WorkerSend, WorkerExit
  <2>5. \A e \in Directions : e # d => results'[e] = results[e]
    BY DEF WorkerStep, WorkerTake, WorkerSend, WorkerExit
  <2> USE DEF DrainInv, AllExited
  <2>6. \A e \in Directions, v \in Workers : work'[e][v] = Exited => payloads'[e] = {}
    <3> SUFFICES ASSUME NEW e \in Directions, NEW v \in Workers, work'[e][v] = Exited
                 PROVE  payloads'[e] = {}
      OBVIOUS
    <3>1. CASE e = d /\ v = w
      BY <3>1, <2>3
    <3>2. CASE ~(e = d /\ v = w)
      <4>1. work[e][v] = Exited
        BY <3>2, <2>2
      <4> QED
        BY <4>1, <2>4
    <3> QED
      BY <3>1, <3>2
  <2>7. \A e \in Directions : ~resultsOpen[e] => \A v \in Workers : work'[e][v] = Exited
    <3> SUFFICES ASSUME NEW e \in Directions, NEW v \in Workers, ~resultsOpen[e]
                 PROVE  work'[e][v] = Exited
      OBVIOUS
    <3>1. e # d
      BY <2>1
    <3>2. work[e][v] = Exited
      OBVIOUS
    <3> QED
      BY <3>1, <3>2, <2>2
  <2>8. \A e \in Directions : bridge[e] = Exited => ~resultsOpen[e] /\ results'[e] = <<>>
    BY <2>1, <2>5
  <2> QED
    BY <1>1, <2>6, <2>7, <2>8 DEF trackerVars, Cancelled
<1> QED
  BY <1>3, <1>4

\* A bridge's step.
LEMMA BridgeShutdown ==
    ASSUME ShutdownInv, NEW d \in Directions, BridgeStep(d)
    PROVE  ShutdownInv'
<1> USE DEF ShutdownInv
<1>1. UNCHANGED <<bidir, payloads, payloadsOpen, work, resultsOpen, resultDropped>>
      /\ Directions' = Directions
  BY DEF BridgeStep, BridgeTake, Submit, BridgeExit, Directions, workerVars
<1>2. UNCHANGED <<sweeper, evict, inputOpen, stage, expired>>
  BY DEF BridgeStep, BridgeTake, Submit, BridgeExit
<1>3. DrainInv'
  <2>1. bridge[d] # Exited
    BY WorkersAssumption DEF BridgeStep, BridgeTake, Submit, BridgeExit
  <2>2. \A e \in Directions \ {d} : bridge'[e] = bridge[e] /\ results'[e] = results[e]
    BY DEF BridgeStep, BridgeTake, Submit, BridgeExit, workerVars, TypeOK, WorkersTypeOK
  <2>3. bridge'[d] = Exited => ~resultsOpen[d] /\ results'[d] = <<>>
    <3>1. BridgeTake(d) => bridge'[d] \in Requests
      BY DEF BridgeTake, TypeOK, WorkersTypeOK
    <3>2. Submit(d) => bridge'[d] = NoRequest
      BY DEF Submit, TypeOK
    <3>3. BridgeExit(d) => ~resultsOpen[d] /\ results'[d] = <<>>
      BY DEF BridgeExit, workerVars
    <3> QED
      BY <3>1, <3>2, <3>3, WorkersAssumption DEF BridgeStep
  <2>4. ~Cancelled /\ (d = "request" => stage \notin ResponseStages)
    BY <2>1 DEF DrainInv
  <2>5. \A e \in Directions : bridge'[e] = Exited => ~resultsOpen[e] /\ results'[e] = <<>>
    BY <2>2, <2>3 DEF DrainInv
  <2>6. stage \in ResponseStages => bridge'["request"] = Exited
    BY <2>2, <2>4 DEF DrainInv, Directions
  <2> QED
    BY <1>1, <1>2, <2>4, <2>5, <2>6 DEF DrainInv, AllExited, Cancelled
<1>4. CASE BridgeTake(d)
  <2>1. Head(results[d]) \in Requests /\ Tail(results[d]) \in Seq(Requests)
        /\ Len(Tail(results[d])) <= ResultsCap
    BY <1>4, WorkersAssumption DEF BridgeTake, TypeOK, WorkersTypeOK
  <2>2. WorkersTypeOK'
    BY <1>1, <1>4, <2>1 DEF BridgeTake, TypeOK, WorkersTypeOK
  <2>3. TypeOK'
    BY <1>1, <1>2, <1>4, <2>1, <2>2 DEF BridgeTake, TypeOK
  <2>4. SweepInv'
    BY <1>1, <1>2, <1>4 DEF BridgeTake, SweepInv, MutexFree, Cancelled
  <2> QED
    BY <1>3, <2>3, <2>4
<1>5. CASE Submit(d)
  <2> DEFINE r == bridge[d]
  <2>1. r \in Requests /\ ~Cancelled
    BY <1>5, WorkersAssumption DEF Submit, DrainInv
  <2>2. \/ UNCHANGED sessions
        \/ bidir /\ sessions' = Without(r)
        \/ bidir /\ sessions' = [q \in DOMAIN sessions \cup {r} |->
                                  IF q = r THEN LogOf(d) ELSE sessions[q]]
    BY <1>5 DEF Submit, Forget
  <2>3. LogOf(d) \in Log
    BY DEF LogOf, Log
  <2>4. /\ DOMAIN sessions' \subseteq Requests
        /\ sessions' \in [DOMAIN sessions' -> Log]
        /\ ~bidir => sessions' = sessions
    <3>1. CASE UNCHANGED sessions
      BY <3>1 DEF TypeOK, SweepInv
    <3>2. CASE bidir /\ sessions' = Without(r)
      BY <3>2 DEF TypeOK, Without
    <3>3. CASE bidir /\ sessions' = [q \in DOMAIN sessions \cup {r} |->
                                  IF q = r THEN LogOf(d) ELSE sessions[q]]
      BY <2>1, <2>3, <3>3 DEF TypeOK
    <3> QED
      BY <2>2, <3>1, <3>2, <3>3
  <2>5. /\ collectorInput' \in Seq(Requests \X Log) /\ Len(collectorInput') <= CollectorCap
        /\ emitted' \in [Requests -> Seq(Log)] /\ discarded' \in [Requests -> Seq(Log)]
    <3>1. \/ Emit(r, LogOf(d))
          \/ r \in DOMAIN sessions /\ Emit(r, Merged(d, sessions[r]))
          \/ UNCHANGED <<collectorInput, emitted, discarded>>
      BY <1>5 DEF Submit
    <3>2. r \in DOMAIN sessions => Merged(d, sessions[r]) \in Log
      BY LogTypes DEF TypeOK
    <3>3. CASE UNCHANGED <<collectorInput, emitted, discarded>>
      BY <3>3 DEF TypeOK
    <3> QED
      BY <2>1, <2>3, <3>1, <3>2, <3>3, EmitTypes
  <2>6. bidir => evict = {}
    BY <1>5 DEF Submit, SweepInv
  <2>7. TypeOK'
    <3>1. WorkersTypeOK' /\ bridge' \in [Directions -> Requests \cup {NoRequest, Exited}]
      BY <1>1, <1>5 DEF Submit, TypeOK, WorkersTypeOK, workerVars
    <3>2. evict \subseteq DOMAIN sessions'
      BY <2>4, <2>6 DEF TypeOK
    <3> QED
      BY <1>1, <1>2, <2>4, <2>5, <3>1, <3>2 DEF TypeOK
  <2>8. SweepInv'
    BY <1>1, <1>2, <2>1, <2>4, <2>6 DEF SweepInv, MutexFree, Cancelled, TypeOK
  <2> QED
    BY <1>3, <2>7, <2>8
<1>6. CASE BridgeExit(d)
  <2>1. TypeOK'
    BY <1>1, <1>2, <1>6 DEF TypeOK, WorkersTypeOK, BridgeExit, workerVars
  <2>2. SweepInv'
    BY <1>1, <1>2, <1>6 DEF SweepInv, MutexFree, Cancelled, BridgeExit
  <2> QED
    BY <1>3, <2>1, <2>2
<1> QED
  BY <1>4, <1>5, <1>6 DEF BridgeStep

\* A step of the sweeper.
LEMMA SweeperShutdown ==
    ASSUME ShutdownInv, SweeperStep
    PROVE  ShutdownInv'
<1> USE DEF ShutdownInv
<1>1. UNCHANGED <<workerVars, bridge, inputOpen, stage>> /\ Directions' = Directions
  BY DEF SweeperStep, Sweep, FinalSweep, Evict, SweepEnds, Directions, workerVars
<1>2. WorkersTypeOK'
  BY <1>1 DEF TypeOK, WorkersTypeOK, workerVars
<1>3. DrainInv'
  BY <1>1 DEF SweeperStep, Sweep, FinalSweep, Evict, SweepEnds, DrainInv, AllExited,
     Cancelled, SweepInv, workerVars, TypeOK
<1>4. CASE Sweep
  <2>1. TypeOK'
    BY <1>1, <1>2, <1>4 DEF Sweep, TypeOK
  <2>2. SweepInv'
    BY <1>1, <1>4 DEF Sweep, SweepInv, MutexFree, Cancelled, workerVars
  <2> QED
    BY <1>3, <2>1, <2>2
<1>5. CASE FinalSweep
  <2>1. TypeOK'
    BY <1>1, <1>2, <1>5 DEF FinalSweep, TypeOK
  <2>2. SweepInv'
    BY <1>1, <1>5 DEF FinalSweep, SweepInv, MutexFree, Cancelled, workerVars
  <2> QED
    BY <1>3, <2>1, <2>2
<1>6. CASE Evict
  <2> PICK r \in evict : Emit(r, sessions[r]) /\ Forget(r) /\ evict' = evict \ {r}
    BY <1>6 DEF Evict
  <2>1. r \in Requests /\ sessions[r] \in Log
    BY DEF TypeOK
  <2>2. /\ collectorInput' \in Seq(Requests \X Log) /\ Len(collectorInput') <= CollectorCap
        /\ emitted' \in [Requests -> Seq(Log)] /\ discarded' \in [Requests -> Seq(Log)]
    BY <2>1, EmitTypes
  <2>3. /\ DOMAIN sessions' = DOMAIN sessions \ {r}
        /\ sessions' \in [DOMAIN sessions' -> Log]
    BY DEF Forget, Without, SweepInv
  <2>4. TypeOK'
    BY <1>1, <1>2, <1>6, <2>2, <2>3 DEF Evict, TypeOK
  <2>5. SweepInv'
    BY <1>1, <1>6, <2>3 DEF Evict, SweepInv, MutexFree, Cancelled, workerVars
  <2> QED
    BY <1>3, <2>4, <2>5
<1>7. CASE SweepEnds
  <2>1. TypeOK'
    BY <1>1, <1>2, <1>7 DEF SweepEnds, TypeOK
  <2>2. SweepInv'
    BY <1>1, <1>7 DEF SweepEnds, SweepInv, MutexFree, Cancelled, workerVars
  <2> QED
    BY <1>3, <2>1, <2>2
<1> QED
  BY <1>4, <1>5, <1>6, <1>7 DEF SweeperStep

\* An assembler closes its workers' input, which the invariant does not look at.
LEMMA AssemblerShutdown ==
    ASSUME ShutdownInv, NEW d \in Directions, AssemblerExit(d)
    PROVE  ShutdownInv'
<1> USE DEF ShutdownInv
<1>1. /\ UNCHANGED <<bidir, payloads, work, results, resultsOpen, resultDropped>>
      /\ UNCHANGED trackerVars /\ Directions' = Directions
      /\ payloadsOpen' = [payloadsOpen EXCEPT ![d] = FALSE]
  BY DEF AssemblerExit, Directions
<1>2. WorkersTypeOK'
  BY <1>1 DEF TypeOK, WorkersTypeOK
<1>3. TypeOK'
  BY <1>1, <1>2 DEF TypeOK, trackerVars
<1>4. SweepInv' /\ DrainInv'
  BY <1>1 DEF trackerVars, SweepInv, DrainInv, MutexFree, Cancelled, AllExited
<1> QED
  BY <1>3, <1>4

\* waitPipeline's steps close channels and go on; all else is left alone.
LEMMA WaitLeaves ==
    ASSUME StartShutdown \/ WaitPipeline
    PROVE  UNCHANGED <<bidir, payloads, payloadsOpen, work, results, resultDropped, bridge,
                       sessions, sweeper, evict, collectorInput, emitted, discarded,
                       expired>>
<1>1. ASSUME NEW from, NEW to, NextStage(from, to)
      PROVE  UNCHANGED <<bidir, payloads, payloadsOpen, work, results, resultDropped, bridge,
                         sessions, sweeper, evict, collectorInput, emitted, discarded,
                         expired>>
  BY <1>1 DEF NextStage
<1>2. \E from, to : NextStage(from, to)
  <2>1. CASE StartShutdown \/ RequestAssemblerDone \/ ResponseAssemblerDone
    BY <2>1 DEF StartShutdown, RequestAssemblerDone, ResponseAssemblerDone, AssemblerDone
  <2>2. CASE CloseRequestResults \/ CloseResponseResults
    BY <2>2 DEF CloseRequestResults, CloseResponseResults, CloseResults
  <2>3. CASE RequestBridgeDone \/ ResponseBridgeDone
    BY <2>3 DEF RequestBridgeDone, ResponseBridgeDone
  <2>4. CASE CloseCollectorInput \/ CollectorDone
    BY <2>4 DEF CloseCollectorInput, CollectorDone
  <2> QED
    BY <2>1, <2>2, <2>3, <2>4 DEF WaitPipeline
<1> QED
  BY <1>1, <1>2

\* A step of the collector, of waitPipeline or of nobody.
LEMMA PipelineShutdown ==
    ASSUME ShutdownInv,
           CollectorTake \/ StartShutdown \/ WaitPipeline \/ Terminating \/ UNCHANGED vars
    PROVE  ShutdownInv'
<1> USE DEF ShutdownInv
<1>1. CASE CollectorTake
  <2>1. Tail(collectorInput) \in Seq(Requests \X Log)
        /\ Len(Tail(collectorInput)) <= CollectorCap
    BY <1>1, CollectorAssumption DEF CollectorTake, TypeOK
  <2>2. TypeOK'
    BY <1>1, <2>1 DEF CollectorTake, TypeOK, WorkersTypeOK, workerVars, Directions
  <2>3. SweepInv' /\ DrainInv'
    BY <1>1 DEF CollectorTake, SweepInv, DrainInv, MutexFree, Cancelled, AllExited,
       workerVars, Directions
  <2> QED
    BY <2>2, <2>3
<1>2. CASE Terminating \/ UNCHANGED vars
  <2>1. UNCHANGED vars /\ Directions' = Directions
    BY <1>2 DEF Terminating, vars, workerVars, Directions
  <2>2. TypeOK'
    BY <2>1 DEF vars, workerVars, trackerVars, TypeOK, WorkersTypeOK
  <2>3. SweepInv' /\ DrainInv'
    BY <2>1 DEF vars, workerVars, trackerVars, SweepInv, DrainInv, MutexFree, Cancelled,
       AllExited
  <2> QED
    BY <2>2, <2>3
<1>3. CASE StartShutdown \/ WaitPipeline
  <2>1. UNCHANGED <<bidir, payloads, payloadsOpen, work, results, resultDropped, bridge,
                    sessions, sweeper, evict, collectorInput, emitted, discarded, expired>>
    BY <1>3, WaitLeaves
  <2>2. Directions' = Directions /\ "request" \in Directions
        /\ (bidir => "response" \in Directions)
    BY <2>1 DEF Directions
  <2> DEFINE Moves ==
               /\ stage' \in Stages /\ inputOpen' \in BOOLEAN
               /\ resultsOpen' \in [Directions -> BOOLEAN]
               /\ \A d \in Directions :
                    /\ ~resultsOpen'[d] => ~resultsOpen[d] \/ AllExited(d)
                    /\ ~resultsOpen[d] => ~resultsOpen'[d]
               /\ Cancelled => Cancelled'
               /\ stage' \in ResponseStages => bridge["request"] = Exited
               /\ Cancelled' => \A d \in Directions : bridge[d] = Exited
               /\ stage' \in {"collector", "done"} => sweeper = "returned"
               /\ ~inputOpen' => stage' \in {"collector", "done"}
  <2>3. Moves
    <3>0. /\ stage \in Stages /\ inputOpen \in BOOLEAN
          /\ resultsOpen \in [Directions -> BOOLEAN]
      BY DEF TypeOK, WorkersTypeOK
    <3>1. CASE StartShutdown \/ RequestAssemblerDone \/ ResponseAssemblerDone
      BY <3>0, <3>1 DEF StartShutdown, RequestAssemblerDone, ResponseAssemblerDone,
         AssemblerDone, NextStage, Cancelled, DrainInv, ResponseStages, Stages
    <3>2. ASSUME NEW d \in Directions, NEW from, NEW to, CloseResults(d, from, to)
          PROVE  /\ stage = from /\ stage' = to /\ inputOpen' = inputOpen
                 /\ resultsOpen' \in [Directions -> BOOLEAN]
                 /\ \A e \in Directions :
                      /\ ~resultsOpen'[e] => ~resultsOpen[e] \/ AllExited(e)
                      /\ ~resultsOpen[e] => ~resultsOpen'[e]
      BY <3>0, <3>2 DEF CloseResults, NextStage
    <3>3. CASE CloseRequestResults
      <4>1. /\ CloseResults("request", "request workers", "request bridge")
            /\ "request" \in Directions
        BY <2>2, <3>3 DEF CloseRequestResults
      <4>2. /\ stage = "request workers" /\ stage' = "request bridge"
            /\ inputOpen' = inputOpen
            /\ resultsOpen' \in [Directions -> BOOLEAN]
            /\ \A e \in Directions :
                 /\ ~resultsOpen'[e] => ~resultsOpen[e] \/ AllExited(e)
                 /\ ~resultsOpen[e] => ~resultsOpen'[e]
        BY <3>2, <4>1
      <4> QED
        BY <3>0, <4>2 DEF Cancelled, DrainInv, ResponseStages, Stages
    <3>4. CASE CloseResponseResults
      <4>1. /\ CloseResults("response", "response workers", "response bridge")
            /\ "response" \in Directions
        BY <2>2, <3>4 DEF CloseResponseResults
      <4>2. /\ stage = "response workers" /\ stage' = "response bridge"
            /\ inputOpen' = inputOpen
            /\ resultsOpen' \in [Directions -> BOOLEAN]
            /\ \A e \in Directions :
                 /\ ~resultsOpen'[e] => ~resultsOpen[e] \/ AllExited(e)
                 /\ ~resultsOpen[e] => ~resultsOpen'[e]
        BY <3>2, <4>1
      <4> QED
        BY <3>0, <4>2 DEF Cancelled, DrainInv, ResponseStages, Stages
    <3>5. CASE RequestBridgeDone \/ ResponseBridgeDone
      BY <3>0, <3>5 DEF RequestBridgeDone, ResponseBridgeDone, NextStage, Cancelled,
         DrainInv, ResponseStages, Stages, Directions
    <3>6. CASE CloseCollectorInput \/ CollectorDone
      BY <3>0, <3>6 DEF CloseCollectorInput, CollectorDone, NextStage, Cancelled,
         DrainInv, ResponseStages, Stages, TrackerDone
    <3> QED
      BY <1>3, <3>1, <3>3, <3>4, <3>5, <3>6 DEF WaitPipeline
  <2> HIDE DEF Moves
  <2>4. TypeOK'
    BY <2>1, <2>2, <2>3 DEF TypeOK, WorkersTypeOK, Moves
  <2>5. SweepInv'
    BY <2>1, <2>3 DEF SweepInv, MutexFree, Moves
  <2>6. DrainInv'
    BY <2>1, <2>2, <2>3 DEF DrainInv, AllExited, Moves
  <2> QED
    BY <2>4, <2>5, <2>6
<1> QED
  BY <1>1, <1>2, <1>3

\* Every step preserves it.
LEMMA NextShutdown == ShutdownInv /\ [Next]_vars => ShutdownInv'
BY WorkerShutdown, BridgeShutdown, SweeperShutdown, AssemblerShutdown, PipelineShutdown
   DEF Next, WorkerSteps

-----------------------------------------------------------------------------
(* Counting *)

\* How many elements of a sequence are in P.
Hits(s, P) == Cardinality({i \in DOMAIN s : s[i] \in P})

\* The positions of a sequence are finitely many.
LEMMA HitsType ==
    ASSUME NEW T, NEW s \in Seq(T), NEW P
    PROVE  IsFiniteSet({i \in DOMAIN s : s[i] \in P}) /\ Hits(s, P) \in Nat
<1>1. {i \in DOMAIN s : s[i] \in P} \in SUBSET (1..Len(s)) /\ Len(s) \in Nat
  OBVIOUS
<1>2. IsFiniteSet(1..Len(s))
  BY <1>1, FS_Interval
<1> QED
  BY <1>1, <1>2, FS_Subset, FS_CardinalityType DEF Hits

\* Append adds its element to the count.
LEMMA HitsAppend ==
    ASSUME NEW T, NEW s \in Seq(T), NEW x \in T, NEW P
    PROVE  Hits(Append(s, x), P) = Hits(s, P) + Truth(x \in P)
<1> DEFINE H == {i \in DOMAIN s : s[i] \in P}
           K == {i \in DOMAIN Append(s, x) : Append(s, x)[i] \in P}
<1>1. IsFiniteSet(H) /\ Cardinality(H) \in Nat
  BY HitsType DEF Hits
<1>2. Len(s) \in Nat /\ DOMAIN s = 1..Len(s) /\ DOMAIN Append(s, x) = 1..(Len(s) + 1)
  OBVIOUS
<1>3. \A i \in DOMAIN s : Append(s, x)[i] = s[i]
  OBVIOUS
<1>4. Append(s, x)[Len(s) + 1] = x
  OBVIOUS
<1>5. Len(s) + 1 \notin H
  BY <1>2
<1>0. Hits(s, P) = Cardinality(H) /\ Hits(Append(s, x), P) = Cardinality(K)
  BY DEF Hits
<1>6. CASE x \in P
  <2>1. K = H \cup {Len(s) + 1}
    BY <1>2, <1>3, <1>4, <1>6
  <2>2. Cardinality(K) = Cardinality(H) + 1
    BY <1>1, <1>5, <2>1, FS_AddElement
  <2> HIDE DEF H, K
  <2> QED
    BY <1>0, <1>6, <2>2 DEF Truth
<1>7. CASE x \notin P
  <2>1. K = H
    BY <1>2, <1>3, <1>4, <1>7
  <2> HIDE DEF H, K
  <2> QED
    BY <1>0, <1>1, <1>7, <2>1 DEF Truth
<1> QED
  BY <1>6, <1>7

\* Taking the head removes it from the count.
LEMMA HitsTail ==
    ASSUME NEW T, NEW s \in Seq(T), s # <<>>, NEW P
    PROVE  Hits(s, P) = Hits(Tail(s), P) + Truth(Head(s) \in P)
<1> DEFINE H == {i \in DOMAIN s : s[i] \in P}
           K == {i \in DOMAIN Tail(s) : Tail(s)[i] \in P}
           f == [i \in K |-> i + 1]
<1>1. /\ Len(s) \in Nat /\ Len(s) >= 1 /\ DOMAIN s = 1..Len(s)
      /\ DOMAIN Tail(s) = 1..(Len(s) - 1) /\ Tail(s) \in Seq(T)
      /\ \A i \in 1..(Len(s) - 1) : Tail(s)[i] = s[i + 1]
      /\ Head(s) = s[1]
  OBVIOUS
<1>2. IsFiniteSet(H) /\ Cardinality(H) \in Nat /\ IsFiniteSet(K) /\ Cardinality(K) \in Nat
  BY <1>1, HitsType DEF Hits
<1>3. IsFiniteSet(H \ {1}) /\ Cardinality(H \ {1}) = Cardinality(K)
  <2>1. f \in [K -> H \ {1}]
    BY <1>1
  <2>2. \A a, b \in K : f[a] = f[b] => a = b
    BY <1>1
  <2>3. \A j \in H \ {1} : \E i \in K : f[i] = j
    <3> TAKE j \in H \ {1}
    <3>1. j - 1 \in K /\ (j - 1) + 1 = j
      BY <1>1
    <3>2. f[j - 1] = j
      BY <3>1
    <3> QED
      BY <3>1, <3>2
  <2>4. f \in Bijection(K, H \ {1})
    BY <2>1, <2>2, <2>3 DEF Bijection, Injection, Surjection, IsInjective
  <2>5. ExistsBijection(K, H \ {1})
    BY <2>4 DEF ExistsBijection
  <2> QED
    BY <1>2, <2>5, FS_Bijection
<1>0. Hits(s, P) = Cardinality(H) /\ Hits(Tail(s), P) = Cardinality(K)
  BY DEF Hits
<1>4. CASE Head(s) \in P
  <2>1. 1 \in H
    BY <1>1, <1>4
  <2>2. Cardinality(H \ {1}) = Cardinality(H) - 1
    BY <1>2, <2>1, FS_RemoveElement
  <2> HIDE DEF H, K
  <2> QED
    BY <1>0, <1>2, <1>3, <1>4, <2>2 DEF Truth
<1>5. CASE Head(s) \notin P
  <2>1. H \ {1} = H
    BY <1>1, <1>5
  <2> HIDE DEF H, K
  <2>2. Cardinality(H) = Cardinality(K)
    BY <1>3, <2>1
  <2> QED
    BY <1>0, <1>2, <1>5, <2>2 DEF Truth
<1> QED
  BY <1>4, <1>5

-----------------------------------------------------------------------------
(* Conservation *)

\* The terms of Copies.
InPayloads(r, d) == Truth(r \in payloads[d])
AtBridge(r, d) == Truth(bridge[d] = r)
Dropped(r, d) == Truth(r \in resultDropped[d])
InWork(r, d) == Cardinality({w \in Workers : work[d][w] = r})
InResults(r, d) == Cardinality({i \in DOMAIN results[d] : results[d][i] = r})
Recorded(r, d) == SidesIn(emitted[r], d) + SidesIn(discarded[r], d)
Held(r, d) == Truth(r \in DOMAIN sessions /\ Side(sessions[r], d))

\* A worker that goes on to something else changes the count by what it had
\* and what it has.
LEMMA WorkCount ==
    ASSUME NEW e, NEW w \in Workers, NEW r,
           \A v \in Workers \ {w} : work'[e][v] = work[e][v]
    PROVE  /\ InWork(r, e) \in Nat /\ InWork(r, e)' \in Nat
           /\ InWork(r, e)' + Truth(work[e][w] = r) = InWork(r, e) + Truth(work'[e][w] = r)
<1> DEFINE F == {v \in Workers : work[e][v] = r}
           G == {v \in Workers : work'[e][v] = r}
<1>1. IsFiniteSet(F) /\ IsFiniteSet(G)
  BY WorkersAssumption, FS_Subset
<1>2. Cardinality(F) \in Nat /\ Cardinality(G) \in Nat
  BY <1>1, FS_CardinalityType
<1>3. F \ {w} = G \ {w}
  OBVIOUS
<1>4. (w \in F <=> work[e][w] = r) /\ (w \in G <=> work'[e][w] = r)
  OBVIOUS
<1>5. InWork(r, e) = Cardinality(F) /\ InWork(r, e)' = Cardinality(G)
  BY DEF InWork
<1> HIDE DEF F, G
<1>6. /\ Cardinality(F \ {w}) = IF w \in F THEN Cardinality(F) - 1 ELSE Cardinality(F)
      /\ Cardinality(G \ {w}) = IF w \in G THEN Cardinality(G) - 1 ELSE Cardinality(G)
  BY <1>1, FS_RemoveElement
<1>7. Cardinality(G \ {w}) = Cardinality(F \ {w})
  BY <1>3
<1> QED
  BY <1>2, <1>4, <1>5, <1>6, <1>7 DEF Truth

\* The records of a request with a side, as hits.
LEMMA SidesAreHits ==
    ASSUME NEW s \in Seq(Log), NEW d
    PROVE  /\ SidesIn(s, d) = Hits(s, {log \in Log : Side(log, d)})
           /\ SidesIn(s, d) \in Nat
<1> DEFINE P == {log \in Log : Side(log, d)}
<1>1. {i \in DOMAIN s : Side(s[i], d)} = {i \in DOMAIN s : s[i] \in P}
  OBVIOUS
<1> HIDE DEF P
<1>2. SidesIn(s, d) = Cardinality({i \in DOMAIN s : s[i] \in P})
  BY <1>1 DEF SidesIn
<1>3. SidesIn(s, d) = Hits(s, P)
  BY <1>2 DEF Hits
<1> QED
  BY <1>3, HitsType DEF P

\* One more record has one more side, or not.
LEMMA SidesAppend ==
    ASSUME NEW s \in Seq(Log), NEW log \in Log, NEW d
    PROVE  SidesIn(Append(s, log), d) = SidesIn(s, d) + Truth(Side(log, d))
<1> DEFINE P == {l \in Log : Side(l, d)}
<1>1. Append(s, log) \in Seq(Log)
  OBVIOUS
<1>2. SidesIn(s, d) = Hits(s, P) /\ SidesIn(Append(s, log), d) = Hits(Append(s, log), P)
  BY <1>1, SidesAreHits
<1>3. Hits(Append(s, log), P) = Hits(s, P) + Truth(log \in P)
  BY HitsAppend
<1>4. Truth(log \in P) = Truth(Side(log, d))
  BY DEF Truth
<1> QED
  BY <1>2, <1>3, <1>4

\* Sent or not, a record is recorded for its request and for no other.
LEMMA EmitRecords ==
    ASSUME TypeOK, NEW q \in Requests, NEW log \in Log, Emit(q, log),
           NEW r \in Requests, NEW d
    PROVE  /\ Recorded(r, d) \in Nat
           /\ Recorded(r, d)' = Recorded(r, d) + (IF r = q THEN Truth(Side(log, d)) ELSE 0)
           /\ NumRecords(r) \in Nat
           /\ NumRecords(r)' = NumRecords(r) + (IF r = q THEN 1 ELSE 0)
<1> DEFINE sent == emitted[r]
           lost == discarded[r]
           sentNow == emitted'[r]
           lostNow == discarded'[r]
           side == Truth(Side(log, d))
<1>1. /\ emitted \in [Requests -> Seq(Log)] /\ discarded \in [Requests -> Seq(Log)]
      /\ sent \in Seq(Log) /\ lost \in Seq(Log)
  BY DEF TypeOK
<1>2. \/ /\ emitted' = [emitted EXCEPT ![q] = Append(@, log)]
         /\ discarded' = discarded
      \/ /\ discarded' = [discarded EXCEPT ![q] = Append(@, log)]
         /\ emitted' = emitted
  BY DEF Emit
<1>3. /\ r = q => \/ sentNow = Append(sent, log) /\ lostNow = lost
                  \/ sentNow = sent /\ lostNow = Append(lost, log)
      /\ r # q => sentNow = sent /\ lostNow = lost
  BY <1>1, <1>2
<1>4. /\ Recorded(r, d) = SidesIn(sent, d) + SidesIn(lost, d)
      /\ Recorded(r, d)' = SidesIn(sentNow, d) + SidesIn(lostNow, d)
  BY DEF Recorded, SidesIn, Side
<1>5. side \in Nat
  BY DEF Truth
<1>6. SUFFICES /\ SidesIn(sent, d) + SidesIn(lost, d) \in Nat
               /\ SidesIn(sentNow, d) + SidesIn(lostNow, d)
                    = SidesIn(sent, d) + SidesIn(lost, d) + (IF r = q THEN side ELSE 0)
               /\ Len(sent) + Len(lost) \in Nat
               /\ Len(sentNow) + Len(lostNow)
                    = Len(sent) + Len(lost) + (IF r = q THEN 1 ELSE 0)
  BY <1>4 DEF NumRecords
<1> HIDE DEF sent, lost, sentNow, lostNow
<1>7. /\ SidesIn(sent, d) \in Nat /\ SidesIn(lost, d) \in Nat
      /\ SidesIn(Append(sent, log), d) = SidesIn(sent, d) + side
      /\ SidesIn(Append(lost, log), d) = SidesIn(lost, d) + side
  BY <1>1, SidesAreHits, SidesAppend
<1>8. /\ Len(sent) \in Nat /\ Len(lost) \in Nat
      /\ Len(Append(sent, log)) = Len(sent) + 1 /\ Len(Append(lost, log)) = Len(lost) + 1
  BY <1>1
<1> HIDE DEF side
<1>9. CASE r = q /\ sentNow = Append(sent, log) /\ lostNow = lost
  <2>1. SidesIn(sentNow, d) = SidesIn(sent, d) + side /\ Len(sentNow) = Len(sent) + 1
    BY <1>7, <1>8, <1>9
  <2>2. SidesIn(lostNow, d) = SidesIn(lost, d) /\ Len(lostNow) = Len(lost)
    BY <1>9
  <2> QED
    BY <1>5, <1>7, <1>8, <1>9, <2>1, <2>2
<1>10. CASE r = q /\ sentNow = sent /\ lostNow = Append(lost, log)
  <2>1. SidesIn(sentNow, d) = SidesIn(sent, d) /\ Len(sentNow) = Len(sent)
    BY <1>10
  <2>2. SidesIn(lostNow, d) = SidesIn(lost, d) + side /\ Len(lostNow) = Len(lost) + 1
    BY <1>7, <1>8, <1>10
  <2> QED
    BY <1>5, <1>7, <1>8, <1>10, <2>1, <2>2
<1>11. CASE r # q /\ sentNow = sent /\ lostNow = lost
  BY <1>7, <1>8, <1>11
<1> QED
  BY <1>3, <1>9, <1>10, <1>11

\* Every term of Copies is a number.
LEMMA CopiesTypes ==
    ASSUME TypeOK, NEW r \in Requests, NEW d \in Directions
    PROVE  /\ InPayloads(r, d) \in Nat /\ InWork(r, d) \in Nat /\ InResults(r, d) \in Nat
           /\ AtBridge(r, d) \in Nat /\ Held(r, d) \in Nat /\ Recorded(r, d) \in Nat
           /\ Dropped(r, d) \in Nat
           /\ InResults(r, d) = Hits(results[d], {r})
           /\ Copies(r, d) = InPayloads(r, d) + InWork(r, d) + InResults(r, d) + AtBridge(r, d)
                             + Held(r, d) + Recorded(r, d) + Dropped(r, d)
<1>1. InWork(r, d) \in Nat
  BY WorkersAssumption, FS_Subset, FS_CardinalityType DEF InWork
<1>2. InResults(r, d) = Hits(results[d], {r}) /\ InResults(r, d) \in Nat
  <2>1. {i \in DOMAIN results[d] : results[d][i] = r}
          = {i \in DOMAIN results[d] : results[d][i] \in {r}}
    OBVIOUS
  <2>2. results[d] \in Seq(Requests)
    BY DEF TypeOK, WorkersTypeOK
  <2>3. InResults(r, d) = Hits(results[d], {r})
    BY <2>1 DEF InResults, Hits
  <2> QED
    BY <2>2, <2>3, HitsType
<1>3. SidesIn(emitted[r], d) \in Nat /\ SidesIn(discarded[r], d) \in Nat
  BY SidesAreHits DEF TypeOK
<1>4. /\ InPayloads(r, d) \in Nat /\ AtBridge(r, d) \in Nat
      /\ Held(r, d) \in Nat /\ Dropped(r, d) \in Nat
  BY DEF Truth, Held, InPayloads, AtBridge, Dropped
<1>5. Copies(r, d) = InPayloads(r, d) + InWork(r, d) + InResults(r, d) + AtBridge(r, d)
        + Held(r, d) + SidesIn(emitted[r], d) + SidesIn(discarded[r], d) + Dropped(r, d)
  BY DEF Copies, InWork, InResults, Held, InPayloads, AtBridge, Dropped
<1> QED
  BY <1>1, <1>2, <1>3, <1>4, <1>5 DEF Recorded

\* The same of the next state.
LEMMA CopiesNext ==
    ASSUME TypeOK', Directions' = Directions, NEW r \in Requests, NEW d \in Directions
    PROVE  /\ InPayloads(r, d)' \in Nat /\ InWork(r, d)' \in Nat /\ InResults(r, d)' \in Nat
           /\ AtBridge(r, d)' \in Nat /\ Held(r, d)' \in Nat /\ Recorded(r, d)' \in Nat
           /\ Dropped(r, d)' \in Nat
           /\ InResults(r, d)' = Hits(results'[d], {r})
           /\ Copies(r, d)' = InPayloads(r, d)' + InWork(r, d)' + InResults(r, d)' + AtBridge(r, d)'
                              + Held(r, d)' + Recorded(r, d)' + Dropped(r, d)'
<1>1. InWork(r, d)' \in Nat
  BY WorkersAssumption, FS_Subset, FS_CardinalityType DEF InWork
<1>2. InResults(r, d)' = Hits(results'[d], {r}) /\ InResults(r, d)' \in Nat
  <2>1. {i \in DOMAIN results'[d] : results'[d][i] = r}
          = {i \in DOMAIN results'[d] : results'[d][i] \in {r}}
    OBVIOUS
  <2>2. results'[d] \in Seq(Requests)
    BY DEF TypeOK, WorkersTypeOK
  <2>3. InResults(r, d)' = Hits(results'[d], {r})
    BY <2>1 DEF InResults, Hits
  <2> QED
    BY <2>2, <2>3, HitsType
<1>3. SidesIn(emitted'[r], d) \in Nat /\ SidesIn(discarded'[r], d) \in Nat
  BY SidesAreHits DEF TypeOK
<1>4. /\ InPayloads(r, d)' \in Nat /\ AtBridge(r, d)' \in Nat
      /\ Held(r, d)' \in Nat /\ Dropped(r, d)' \in Nat
  BY DEF Truth, Held, InPayloads, AtBridge, Dropped
<1>5. Copies(r, d)' = InPayloads(r, d)' + InWork(r, d)' + InResults(r, d)' + AtBridge(r, d)'
        + Held(r, d)' + SidesIn(emitted'[r], d) + SidesIn(discarded'[r], d) + Dropped(r, d)'
  BY DEF Copies, InWork, InResults, Held, InPayloads, AtBridge, Dropped, SidesIn, Side, Truth
<1>6. Recorded(r, d)' = SidesIn(emitted'[r], d) + SidesIn(discarded'[r], d)
  BY DEF Recorded, SidesIn, Side
<1> QED
  BY <1>1, <1>2, <1>3, <1>4, <1>5, <1>6

\* bidir is set once, by Start, and with it the directions there are.
LEMMA DirectionsFixed == [Next]_vars => Directions' = Directions
<1> SUFFICES ASSUME [Next]_vars PROVE bidir' = bidir
  BY DEF Directions
<1> QED
  BY WaitLeaves
  DEF Next, WorkerSteps, WorkerStep, WorkerTake, WorkerSend, WorkerExit, BridgeStep,
     BridgeTake, Submit, BridgeExit, SweeperStep, Sweep, FinalSweep, Evict, SweepEnds,
     CollectorTake, AssemblerExit, Terminating, vars, workerVars

\* A worker moves its entry on or drops it.
LEMMA WorkerConserves ==
    ASSUME TypeOK, AtMostOnce, TypeOK', NEW e \in Directions, NEW w \in Workers,
           WorkerStep(e, w), UNCHANGED trackerVars,
           NEW r \in Requests, NEW d \in Directions
    PROVE  Copies(r, d)' = Copies(r, d)
<1>1. Directions' = Directions
  BY DEF WorkerStep, WorkerTake, WorkerSend, WorkerExit, Directions
<1>2. /\ AtBridge(r, d)' = AtBridge(r, d) /\ Held(r, d)' = Held(r, d)
      /\ Recorded(r, d)' = Recorded(r, d)
  BY DEF trackerVars, Held, Recorded, SidesIn, Side, Truth, AtBridge
<1>6. /\ InPayloads(r, d) \in Nat /\ InWork(r, d) \in Nat /\ InResults(r, d) \in Nat
      /\ AtBridge(r, d) \in Nat /\ Held(r, d) \in Nat /\ Recorded(r, d) \in Nat
      /\ Dropped(r, d) \in Nat
      /\ Copies(r, d) = InPayloads(r, d) + InWork(r, d) + InResults(r, d) + AtBridge(r, d)
                        + Held(r, d) + Recorded(r, d) + Dropped(r, d)
  BY CopiesTypes
<1>7. /\ InPayloads(r, d)' \in Nat /\ InWork(r, d)' \in Nat /\ InResults(r, d)' \in Nat
      /\ AtBridge(r, d)' \in Nat /\ Held(r, d)' \in Nat /\ Recorded(r, d)' \in Nat
      /\ Dropped(r, d)' \in Nat
      /\ Copies(r, d)' = InPayloads(r, d)' + InWork(r, d)' + InResults(r, d)' + AtBridge(r, d)'
                         + Held(r, d)' + Recorded(r, d)' + Dropped(r, d)'
  BY <1>1, CopiesNext
<1> DEFINE x == work[e][w]
           y == work'[e][w]
<1>3. x # Exited /\ work' = [work EXCEPT ![e][w] = y]
  <2>1. x # Exited
    BY WorkersAssumption DEF WorkerStep, WorkerTake, WorkerSend, WorkerExit
  <2>2. \E z : work' = [work EXCEPT ![e][w] = z]
    BY DEF WorkerStep, WorkerTake, WorkerSend, WorkerExit
  <2>3. PICK z : work' = [work EXCEPT ![e][w] = z]
    BY <2>2
  <2>4. y = z
    BY <2>3 DEF TypeOK, WorkersTypeOK
  <2> QED
    BY <2>1, <2>3, <2>4
<1>4. CASE d # e
  <2>1. /\ payloads'[d] = payloads[d] /\ work'[d] = work[d] /\ results'[d] = results[d]
        /\ resultDropped'[d] = resultDropped[d]
    BY <1>4 DEF WorkerStep, WorkerTake, WorkerSend, WorkerExit, TypeOK, WorkersTypeOK
  <2>2. /\ InPayloads(r, d)' = InPayloads(r, d) /\ InWork(r, d)' = InWork(r, d)
        /\ InResults(r, d)' = InResults(r, d) /\ Dropped(r, d)' = Dropped(r, d)
    BY <2>1 DEF InWork, InResults, InPayloads, Dropped
  <2> QED
    BY <1>1, <1>2, <2>2, <1>6, <1>7
<1>5. CASE d = e
  <2>1. /\ InWork(r, d)' + Truth(x = r) = InWork(r, d) + Truth(y = r)
        /\ InWork(r, d)' \in Nat /\ InWork(r, d) \in Nat
    <3>1. \A v \in Workers \ {w} : work'[e][v] = work[e][v]
      BY <1>3 DEF TypeOK, WorkersTypeOK
    <3> QED
      BY <1>5, <3>1, WorkCount DEF Truth
  <2>2. CASE WorkerTake(e, w)
    <3>1. /\ y \in payloads[d] /\ payloads'[d] = payloads[d] \ {y} /\ x = NoRequest
          /\ UNCHANGED <<results, resultDropped>>
      BY <1>5, <2>2 DEF WorkerTake, TypeOK, WorkersTypeOK
    <3>2. InResults(r, d)' = InResults(r, d) /\ Dropped(r, d)' = Dropped(r, d)
      BY <3>1 DEF InResults, Dropped
    <3>3. InWork(r, d)' = InWork(r, d) + Truth(y = r)
      BY <2>1, <3>1, WorkersAssumption DEF Truth
    <3>4. InPayloads(r, d) = InPayloads(r, d)' + Truth(y = r)
      BY <3>1 DEF Truth, InPayloads
    <3>5. Truth(y = r) \in Nat
      BY DEF Truth
    <3> HIDE DEF x, y
    <3> QED
      BY <1>1, <1>2, <3>2, <3>3, <3>4, <3>5, <1>6, <1>7
  <2>3. CASE WorkerSend(e, w)
    <3>1. /\ x \in Requests /\ y = NoRequest /\ UNCHANGED payloads
      BY <1>5, <2>3 DEF WorkerSend, TypeOK, WorkersTypeOK
    <3>2. InWork(r, d)' + Truth(x = r) = InWork(r, d) /\ Truth(x = r) \in Nat
      BY <2>1, <3>1, WorkersAssumption DEF Truth
    <3>3. InPayloads(r, d)' = InPayloads(r, d)
      BY <3>1 DEF InPayloads
    <3>4. CASE results' = [results EXCEPT ![e] = Append(@, x)] /\ UNCHANGED resultDropped
      <4>1. results'[d] = Append(results[d], x) /\ results[d] \in Seq(Requests)
        BY <1>5, <3>4 DEF TypeOK, WorkersTypeOK
      <4>2. Hits(results'[d], {r}) = Hits(results[d], {r}) + Truth(x \in {r})
        BY <3>1, <4>1, HitsAppend
      <4>3. Truth(x \in {r}) = Truth(x = r)
        BY DEF Truth
      <4>4. InResults(r, d)' = InResults(r, d) + Truth(x = r)
        BY <1>1, <4>2, <4>3, CopiesTypes, CopiesNext
      <4>5. Dropped(r, d)' = Dropped(r, d)
        BY <3>4 DEF Dropped
      <4> HIDE DEF x, y
      <4> QED
        BY <1>1, <1>2, <3>2, <3>3, <4>4, <4>5, <1>6, <1>7
    <3>5. CASE /\ resultDropped' = [resultDropped EXCEPT ![e] = @ \cup {x}]
               /\ UNCHANGED results
      <4>1. resultDropped'[d] = resultDropped[d] \cup {x} /\ InResults(r, d)' = InResults(r, d)
        BY <1>5, <3>5 DEF InResults, TypeOK, WorkersTypeOK
      <4>2. x = r => Dropped(r, d) = 0
        <5> SUFFICES ASSUME x = r PROVE Dropped(r, d) = 0
          OBVIOUS
        <5>1. Truth(x = r) = 1
          BY DEF Truth
        <5>2. Copies(r, d) <= 1
          BY DEF AtMostOnce
        <5> HIDE DEF x, y
        <5> QED
          BY <2>1, <3>2, <5>1, <5>2, <1>6
      <4>3. Dropped(r, d)' = Dropped(r, d) + Truth(x = r)
        BY <4>1, <4>2 DEF Truth, Dropped
      <4> HIDE DEF x, y
      <4> QED
        BY <1>1, <1>2, <3>2, <3>3, <4>1, <4>3, <1>6, <1>7
    <3> QED
      BY <2>3, <3>4, <3>5 DEF WorkerSend
  <2>4. CASE WorkerExit(e, w)
    <3>1. x = NoRequest /\ y = Exited /\ UNCHANGED <<payloads, results, resultDropped>>
      BY <2>4 DEF WorkerExit, TypeOK, WorkersTypeOK
    <3>2. InWork(r, d)' = InWork(r, d)
      BY <2>1, <3>1, WorkersAssumption DEF Truth
    <3>3. /\ InPayloads(r, d)' = InPayloads(r, d) /\ InResults(r, d)' = InResults(r, d)
          /\ Dropped(r, d)' = Dropped(r, d)
      BY <3>1 DEF InPayloads, InResults, Dropped
    <3> QED
      BY <1>1, <1>2, <3>2, <3>3, <1>6, <1>7
  <2> QED
    BY <2>2, <2>3, <2>4 DEF WorkerStep
<1> QED
  BY <1>4, <1>5

\* What Merged has of each side when r is held and d is submitted.
LEMMA MergedSides ==
    ASSUME NEW d \in Directions, NEW e \in Directions, NEW existing \in Log
    PROVE  /\ Side(LogOf(e), e) /\ (d # e => ~Side(LogOf(e), d))
           /\ Side(Merged(e, existing), e)
           /\ d # e => (Side(Merged(e, existing), d) <=> Side(existing, d))
<1>1. d \in {"request", "response"} /\ e \in {"request", "response"}
  BY DEF Directions
<1> QED
  BY <1>1 DEF Side, LogOf, Merged, mergeResponse, Log

\* A bridge takes an entry, gives it to the tracker or ends.
LEMMA BridgeConserves ==
    ASSUME TypeOK, AtMostOnce, TypeOK', NEW e \in Directions, BridgeStep(e),
           NEW r \in Requests, NEW d \in Directions
    PROVE  Copies(r, d)' = Copies(r, d)
<1>1. /\ Directions' = Directions
      /\ UNCHANGED <<bidir, payloads, work, resultDropped>>
  BY DEF BridgeStep, BridgeTake, Submit, BridgeExit, Directions, workerVars
<1>2. /\ InPayloads(r, d)' = InPayloads(r, d) /\ InWork(r, d)' = InWork(r, d)
      /\ Dropped(r, d)' = Dropped(r, d)
  BY <1>1 DEF InPayloads, InWork, Dropped
<1>3. /\ InPayloads(r, d) \in Nat /\ InWork(r, d) \in Nat /\ InResults(r, d) \in Nat
      /\ AtBridge(r, d) \in Nat /\ Held(r, d) \in Nat /\ Recorded(r, d) \in Nat
      /\ Dropped(r, d) \in Nat
      /\ Copies(r, d) = InPayloads(r, d) + InWork(r, d) + InResults(r, d) + AtBridge(r, d)
                        + Held(r, d) + Recorded(r, d) + Dropped(r, d)
  BY CopiesTypes
<1>4. /\ InResults(r, d)' \in Nat /\ AtBridge(r, d)' \in Nat /\ Held(r, d)' \in Nat
      /\ Recorded(r, d)' \in Nat
      /\ Copies(r, d)' = InPayloads(r, d)' + InWork(r, d)' + InResults(r, d)' + AtBridge(r, d)'
                         + Held(r, d)' + Recorded(r, d)' + Dropped(r, d)'
  BY <1>1, CopiesNext
<1>5. CASE BridgeTake(e)
  <2>1. Held(r, d)' = Held(r, d) /\ Recorded(r, d)' = Recorded(r, d)
    BY <1>5 DEF BridgeTake, Held, Recorded, SidesIn, Side, Truth
  <2>2. CASE d = e
    <3>1. /\ bridge[d] = NoRequest /\ bridge'[d] = Head(results[d])
          /\ results[d] # <<>> /\ results'[d] = Tail(results[d])
          /\ results[d] \in Seq(Requests)
      BY <1>5, <2>2 DEF BridgeTake, TypeOK, WorkersTypeOK
    <3>2. Hits(results[d], {r}) = Hits(Tail(results[d]), {r}) + Truth(Head(results[d]) \in {r})
      BY <3>1, HitsTail
    <3>3. InResults(r, d) = InResults(r, d)' + Truth(Head(results[d]) \in {r})
      BY <1>1, <3>1, <3>2, CopiesTypes, CopiesNext
    <3>4. AtBridge(r, d)' = AtBridge(r, d) + Truth(Head(results[d]) \in {r})
      BY <3>1, WorkersAssumption DEF AtBridge, Truth
    <3>5. Truth(Head(results[d]) \in {r}) \in Nat
      BY DEF Truth
    <3> QED
      BY <1>2, <1>3, <1>4, <2>1, <3>3, <3>4, <3>5
  <2>3. CASE d # e
    <3>1. bridge'[d] = bridge[d] /\ results'[d] = results[d]
      BY <1>5, <2>3 DEF BridgeTake, TypeOK, WorkersTypeOK
    <3>2. AtBridge(r, d)' = AtBridge(r, d) /\ InResults(r, d)' = InResults(r, d)
      BY <3>1 DEF AtBridge, InResults
    <3> QED
      BY <1>2, <1>3, <1>4, <2>1, <3>2
  <2> QED
    BY <2>2, <2>3
<1>6. CASE Submit(e)
  <2> DEFINE q == bridge[e]
  <2>1. /\ q \in Requests /\ bridge' = [bridge EXCEPT ![e] = NoRequest]
        /\ UNCHANGED results
    BY <1>6 DEF Submit, workerVars
  <2>2. InResults(r, d)' = InResults(r, d)
    BY <2>1 DEF InResults
  <2>3. AtBridge(r, d) = AtBridge(r, d)' + (IF r = q /\ d = e THEN 1 ELSE 0)
    BY <2>1, WorkersAssumption DEF AtBridge, Truth, TypeOK
  <2>4. r = q /\ d = e => Held(r, d) = 0
    <3>1. Copies(r, d) <= 1
      BY DEF AtMostOnce
    <3>2. AtBridge(r, d) >= 1 => Held(r, d) = 0
      BY <1>3, <3>1
    <3>3. r = q /\ d = e => AtBridge(r, d) >= 1
      BY <1>4, <2>3
    <3> QED
      BY <3>2, <3>3
  <2>5. SUFFICES Held(r, d)' + Recorded(r, d)'
                   = Held(r, d) + Recorded(r, d) + (IF r = q /\ d = e THEN 1 ELSE 0)
    BY <1>2, <1>3, <1>4, <2>2, <2>3
  <2>6. LogOf(e) \in Log
    BY DEF LogOf, Log
  <2>7. CASE ~bidir /\ Emit(q, LogOf(e)) /\ UNCHANGED sessions
    <3>1. d = e
      BY <2>7 DEF Directions
    <3>2. Held(r, d)' = Held(r, d)
      BY <2>7 DEF Held, Side, Truth
    <3>3. Recorded(r, d)' = Recorded(r, d) + (IF r = q THEN Truth(Side(LogOf(e), d)) ELSE 0)
      BY <2>1, <2>6, <2>7, EmitRecords
    <3>4. Truth(Side(LogOf(e), d)) = 1
      BY <3>1, <2>6, MergedSides DEF Truth
    <3> QED
      BY <1>3, <3>1, <3>2, <3>3, <3>4
  <2>8. CASE q \in DOMAIN sessions /\ Emit(q, Merged(e, sessions[q])) /\ Forget(q)
    <3>1. sessions[q] \in Log /\ Merged(e, sessions[q]) \in Log
      <4>1. sessions[q] \in Log
        BY <2>8 DEF TypeOK
      <4> QED
        BY <4>1, LogTypes
    <3>2. Recorded(r, d)' = Recorded(r, d)
            + (IF r = q THEN Truth(Side(Merged(e, sessions[q]), d)) ELSE 0)
      <4> DEFINE log == Merged(e, sessions[q])
      <4>1. q \in Requests /\ log \in Log /\ Emit(q, log)
        BY <2>1, <2>8, <3>1
      <4> HIDE DEF q, log
      <4>2. Recorded(r, d)' = Recorded(r, d) + (IF r = q THEN Truth(Side(log, d)) ELSE 0)
        BY <4>1, EmitRecords
      <4> QED
        BY <4>2 DEF log
    <3>3. CASE r = q
      <4>1. Held(r, d)' = 0
        BY <2>8, <3>3 DEF Held, Forget, Without, Truth
      <4>2. Held(r, d) = Truth(Side(sessions[q], d))
        BY <2>8, <3>3 DEF Held, Truth
      <4>3. d = e => Truth(Side(Merged(e, sessions[q]), d)) = 1
        BY <3>1, MergedSides DEF Truth
      <4>4. d # e => Truth(Side(Merged(e, sessions[q]), d)) = Truth(Side(sessions[q], d))
        BY <3>1, MergedSides DEF Truth
      <4> HIDE DEF q
      <4> QED
        BY <1>3, <2>4, <3>2, <3>3, <4>1, <4>2, <4>3, <4>4
    <3>4. CASE r # q
      <4>1. Held(r, d)' = Held(r, d)
        BY <2>8, <3>4 DEF Held, Forget, Without, Truth, Side
      <4> QED
        BY <1>3, <3>2, <3>4, <4>1
    <3> QED
      BY <3>3, <3>4
  <2>9. CASE /\ q \notin DOMAIN sessions
             /\ sessions' = [p \in DOMAIN sessions \cup {q} |->
                               IF p = q THEN LogOf(e) ELSE sessions[p]]
             /\ UNCHANGED <<collectorInput, emitted, discarded>>
    <3>1. Recorded(r, d)' = Recorded(r, d)
      BY <2>9 DEF Recorded, SidesIn, Side
    <3>2. CASE r = q
      <4>1. Held(r, d) = 0
        BY <2>9, <3>2 DEF Held, Truth
      <4>2. Held(r, d)' = Truth(Side(LogOf(e), d))
        BY <2>9, <3>2 DEF Held, Truth, Side
      <4>3. Truth(Side(LogOf(e), d)) = IF d = e THEN 1 ELSE 0
        BY <2>6, MergedSides DEF Truth
      <4> HIDE DEF q
      <4> QED
        BY <1>3, <3>1, <3>2, <4>1, <4>2, <4>3
    <3>3. CASE r # q
      <4>1. Held(r, d)' = Held(r, d)
        BY <2>9, <3>3 DEF Held, Truth, Side
      <4> QED
        BY <1>3, <3>1, <3>3, <4>1
    <3> QED
      BY <3>2, <3>3
  <2> QED
    BY <1>6, <2>7, <2>8, <2>9 DEF Submit
<1>7. CASE BridgeExit(e)
  <2>1. /\ Held(r, d)' = Held(r, d) /\ Recorded(r, d)' = Recorded(r, d)
        /\ InResults(r, d)' = InResults(r, d)
    BY <1>7 DEF BridgeExit, Held, Recorded, SidesIn, Side, Truth, InResults, workerVars
  <2>2. AtBridge(r, d)' = AtBridge(r, d)
    BY <1>7, WorkersAssumption DEF BridgeExit, AtBridge, Truth, TypeOK
  <2> QED
    BY <1>2, <1>3, <1>4, <2>1, <2>2
<1> QED
  BY <1>5, <1>6, <1>7 DEF BridgeStep

\* The sweeper evicts what is held and nothing else.
LEMMA SweeperConserves ==
    ASSUME TypeOK, TypeOK', SweeperStep, NEW r \in Requests, NEW d \in Directions
    PROVE  Copies(r, d)' = Copies(r, d)
<1>1. Directions' = Directions /\ UNCHANGED <<workerVars, bridge>>
  BY DEF SweeperStep, Sweep, FinalSweep, Evict, SweepEnds, Directions, workerVars
<1>2. /\ InPayloads(r, d)' = InPayloads(r, d) /\ InWork(r, d)' = InWork(r, d)
      /\ InResults(r, d)' = InResults(r, d) /\ AtBridge(r, d)' = AtBridge(r, d)
      /\ Dropped(r, d)' = Dropped(r, d)
  BY <1>1 DEF workerVars, InPayloads, InWork, InResults, AtBridge, Dropped
<1>3. /\ InPayloads(r, d) \in Nat /\ InWork(r, d) \in Nat /\ InResults(r, d) \in Nat
      /\ AtBridge(r, d) \in Nat /\ Held(r, d) \in Nat /\ Recorded(r, d) \in Nat
      /\ Dropped(r, d) \in Nat
      /\ Copies(r, d) = InPayloads(r, d) + InWork(r, d) + InResults(r, d) + AtBridge(r, d)
                        + Held(r, d) + Recorded(r, d) + Dropped(r, d)
  BY CopiesTypes
<1>4. /\ Held(r, d)' \in Nat /\ Recorded(r, d)' \in Nat
      /\ Copies(r, d)' = InPayloads(r, d)' + InWork(r, d)' + InResults(r, d)' + AtBridge(r, d)'
                         + Held(r, d)' + Recorded(r, d)' + Dropped(r, d)'
  BY <1>1, CopiesNext
<1>5. SUFFICES Held(r, d)' + Recorded(r, d)' = Held(r, d) + Recorded(r, d)
  BY <1>2, <1>3, <1>4
<1>6. CASE Evict
  <2> PICK q \in evict : Emit(q, sessions[q]) /\ Forget(q)
    BY <1>6 DEF Evict
  <2>1. q \in Requests /\ q \in DOMAIN sessions /\ sessions[q] \in Log
    BY DEF TypeOK
  <2>2. Recorded(r, d)' = Recorded(r, d) + (IF r = q THEN Truth(Side(sessions[q], d)) ELSE 0)
    BY <2>1, EmitRecords
  <2>3. CASE r = q
    <3>1. Held(r, d)' = 0 /\ Held(r, d) = Truth(Side(sessions[q], d))
      BY <2>1, <2>3 DEF Held, Forget, Without, Truth
    <3> QED
      BY <1>3, <2>2, <2>3, <3>1
  <2>4. CASE r # q
    <3>1. Held(r, d)' = Held(r, d)
      BY <2>4 DEF Held, Forget, Without, Truth, Side
    <3> QED
      BY <1>3, <2>2, <2>4, <3>1
  <2> QED
    BY <2>3, <2>4
<1>7. CASE Sweep \/ FinalSweep \/ SweepEnds
  <2>1. UNCHANGED <<sessions, emitted, discarded>>
    BY <1>7 DEF Sweep, FinalSweep, SweepEnds
  <2>2. Held(r, d)' = Held(r, d) /\ Recorded(r, d)' = Recorded(r, d)
    BY <2>1 DEF Held, Recorded, SidesIn, Side, Truth
  <2> QED
    BY <1>3, <2>2
<1> QED
  BY <1>6, <1>7 DEF SweeperStep

\* Every step keeps the number of copies of every entry.
LEMMA NextConserves ==
    ASSUME ShutdownInv, AtMostOnce, [Next]_vars, NEW r \in Requests, NEW d \in Directions
    PROVE  Copies(r, d)' = Copies(r, d)
<1>1. TypeOK /\ TypeOK' /\ Directions' = Directions
  BY NextShutdown, DirectionsFixed DEF ShutdownInv
<1>2. CASE WorkerSteps
  BY <1>1, <1>2, WorkerConserves DEF WorkerSteps
<1>3. CASE \E e \in Directions : BridgeStep(e)
  BY <1>1, <1>3, BridgeConserves
<1>4. CASE SweeperStep
  BY <1>1, <1>4, SweeperConserves
<1>5. CASE \/ \E e \in Directions : AssemblerExit(e)
           \/ CollectorTake \/ StartShutdown \/ WaitPipeline \/ Terminating
           \/ UNCHANGED vars
  <2>1. UNCHANGED <<bidir, payloads, work, results, resultDropped, bridge, sessions,
                    emitted, discarded>>
    BY <1>5, WaitLeaves
    DEF AssemblerExit, CollectorTake, Terminating, vars, workerVars, trackerVars
  <2> QED
    BY <2>1 DEF Copies, SidesIn, Side, Truth, Directions
<1> QED
  BY <1>2, <1>3, <1>4, <1>5 DEF Next

\* Conservation keeps every entry to one copy.
LEMMA NextAtMostOnce == ShutdownInv /\ AtMostOnce /\ [Next]_vars => AtMostOnce'
<1> SUFFICES ASSUME ShutdownInv, AtMostOnce, [Next]_vars,
                    NEW r \in Requests, NEW d \in Directions'
             PROVE  Copies(r, d)' <= 1
  BY DEF AtMostOnce
<1>1. Directions' = Directions
  BY DirectionsFixed
<1> QED
  BY <1>1, NextConserves DEF AtMostOnce


-----------------------------------------------------------------------------
(* One record for each request *)

\* What a count of zero means.
LEMMA NoneCounted ==
    ASSUME TypeOK, NEW r \in Requests, NEW d \in Directions,
           InPayloads(r, d) = 0, InWork(r, d) = 0, InResults(r, d) = 0
    PROVE  /\ r \notin payloads[d] /\ (\A w \in Workers : work[d][w] # r)
           /\ \A i \in DOMAIN results[d] : results[d][i] # r
<1>1. r \notin payloads[d]
  BY DEF InPayloads, Truth
<1>2. {w \in Workers : work[d][w] = r} = {}
  <2>1. IsFiniteSet({w \in Workers : work[d][w] = r})
    BY WorkersAssumption, FS_Subset
  <2> QED
    BY <2>1, FS_EmptySet DEF InWork
<1>3. {i \in DOMAIN results[d] : results[d][i] = r} = {}
  <2> DEFINE H == {i \in DOMAIN results[d] : results[d][i] = r}
  <2>1. /\ results[d] \in Seq(Requests)
        /\ H = {i \in DOMAIN results[d] : results[d][i] \in {r}}
    BY DEF TypeOK, WorkersTypeOK
  <2>2. IsFiniteSet(H)
    BY <2>1, HitsType
  <2>3. Cardinality(H) = 0
    BY DEF InResults
  <2> QED
    BY <2>2, <2>3, FS_EmptySet
<1> QED
  BY <1>1, <1>2, <1>3

\* An entry that is held or at a bridge is counted there.
LEMMA CountedThere ==
    ASSUME TypeOK, AtMostOnce, NEW r \in Requests, NEW d \in Directions
    PROVE  /\ Held(r, d) = 1 => /\ InPayloads(r, d) = 0 /\ InWork(r, d) = 0
                                /\ InResults(r, d) = 0 /\ AtBridge(r, d) = 0
           /\ AtBridge(r, d) = 1 => /\ InPayloads(r, d) = 0 /\ InWork(r, d) = 0
                                    /\ InResults(r, d) = 0 /\ Held(r, d) = 0
<1>1. /\ InPayloads(r, d) \in Nat /\ InWork(r, d) \in Nat /\ InResults(r, d) \in Nat
      /\ AtBridge(r, d) \in Nat /\ Held(r, d) \in Nat /\ Recorded(r, d) \in Nat
      /\ Dropped(r, d) \in Nat
      /\ Copies(r, d) = InPayloads(r, d) + InWork(r, d) + InResults(r, d) + AtBridge(r, d)
                        + Held(r, d) + Recorded(r, d) + Dropped(r, d)
  BY CopiesTypes
<1>2. Copies(r, d) <= 1
  BY DEF AtMostOnce
<1>3. ASSUME Held(r, d) = 1
      PROVE  /\ InPayloads(r, d) = 0 /\ InWork(r, d) = 0
             /\ InResults(r, d) = 0 /\ AtBridge(r, d) = 0
  <2>1. InPayloads(r, d) + InWork(r, d) + InResults(r, d) + AtBridge(r, d)
          + Recorded(r, d) + Dropped(r, d) <= 0
    BY <1>1, <1>2, <1>3
  <2> QED
    BY <1>1, <2>1
<1>4. ASSUME AtBridge(r, d) = 1
      PROVE  /\ InPayloads(r, d) = 0 /\ InWork(r, d) = 0
             /\ InResults(r, d) = 0 /\ Held(r, d) = 0
  BY <1>1, <1>2, <1>4
<1> QED
  BY <1>3, <1>4

\* What is held is nowhere before the tracker.
LEMMA HeldNotPending ==
    ASSUME TypeOK, AtMostOnce, NEW r \in Requests, NEW d \in Directions,
           r \in DOMAIN sessions, Side(sessions[r], d)
    PROVE  ~Pending(r, d)
<1>1. Held(r, d) = 1
  BY DEF Held, Truth
<1>2. /\ InPayloads(r, d) = 0 /\ InWork(r, d) = 0 /\ InResults(r, d) = 0
      /\ AtBridge(r, d) = 0
  BY <1>1, CountedThere
<1>3. bridge[d] # r
  BY <1>2 DEF AtBridge, Truth
<1> QED
  BY <1>2, <1>3, NoneCounted DEF Pending

\* What a bridge has is nowhere else.
LEMMA BridgeHasIt ==
    ASSUME TypeOK, AtMostOnce, NEW r \in Requests, NEW d \in Directions, bridge[d] = r
    PROVE  /\ r \notin payloads[d] /\ (\A w \in Workers : work[d][w] # r)
           /\ \A i \in DOMAIN results[d] : results[d][i] # r
           /\ r \in DOMAIN sessions => ~Side(sessions[r], d)
<1>1. AtBridge(r, d) = 1
  BY DEF AtBridge, Truth
<1>2. /\ InPayloads(r, d) = 0 /\ InWork(r, d) = 0 /\ InResults(r, d) = 0
      /\ Held(r, d) = 0
  BY <1>1, CountedThere
<1>3. r \in DOMAIN sessions => ~Side(sessions[r], d)
  BY <1>2 DEF Held, Truth
<1> QED
  BY <1>2, <1>3, NoneCounted

\* Once the bridges have ended nothing is pending.
LEMMA NonePending ==
    ASSUME TypeOK, DrainInv, Cancelled, NEW r \in Requests, NEW d \in Directions
    PROVE  ~Pending(r, d)
<1>1. /\ bridge[d] = Exited /\ results[d] = <<>>
      /\ \A w \in Workers : work[d][w] = Exited
  BY DEF DrainInv, AllExited
<1>2. payloads[d] = {}
  BY <1>1, WorkersAssumption DEF DrainInv
<1> QED
  BY <1>1, <1>2, WorkersAssumption DEF Pending

\* Nothing becomes pending again.
LEMMA PendingStep ==
    ASSUME TypeOK, NEW r \in Requests, NEW d \in Directions, Pending(r, d)',
           \/ \E e \in Directions, w \in Workers : WorkerStep(e, w) /\ UNCHANGED trackerVars
           \/ \E e \in Directions : BridgeStep(e)
           \/ UNCHANGED <<payloads, work, results, bridge>>
    PROVE  Pending(r, d)
<1> USE WorkersAssumption DEF Pending, TypeOK, WorkersTypeOK
<1>1. ASSUME NEW e \in Directions, NEW w \in Workers, WorkerStep(e, w), UNCHANGED trackerVars
      PROVE  Pending(r, d)
  <2>1. bridge' = bridge
    BY <1>1 DEF trackerVars
  <2>2. CASE d # e
    <3>1. payloads'[d] = payloads[d] /\ work'[d] = work[d] /\ results'[d] = results[d]
      BY <1>1, <2>2 DEF WorkerStep, WorkerTake, WorkerSend, WorkerExit
    <3> QED
      BY <2>1, <3>1
  <2>3. CASE d = e
    <3>1. \A v \in Workers \ {w} : work'[d][v] = work[d][v]
      BY <1>1, <2>3 DEF WorkerStep, WorkerTake, WorkerSend, WorkerExit
    <3>2. payloads'[d] \subseteq payloads[d]
      BY <1>1, <2>3 DEF WorkerStep, WorkerTake, WorkerSend, WorkerExit
    <3>3. work'[d][w] = r => r \in payloads[d]
      BY <1>1, <2>3 DEF WorkerStep, WorkerTake, WorkerSend, WorkerExit
    <3>4. \/ results'[d] = results[d]
          \/ results'[d] = Append(results[d], work[d][w]) /\ work[d][w] \in Requests
      BY <1>1, <2>3 DEF WorkerStep, WorkerTake, WorkerSend, WorkerExit
    <3>5. (\E i \in DOMAIN results'[d] : results'[d][i] = r)
            => (\E i \in DOMAIN results[d] : results[d][i] = r) \/ work[d][w] = r
      <4>1. CASE results'[d] = results[d]
        BY <4>1
      <4>2. CASE results'[d] = Append(results[d], work[d][w]) /\ work[d][w] \in Requests
        <5>1. results[d] \in Seq(Requests)
          OBVIOUS
        <5> QED
          BY <4>2, <5>1
      <4> QED
        BY <3>4, <4>1, <4>2
    <3> QED
      BY <2>1, <3>1, <3>2, <3>3, <3>5
  <2> QED
    BY <2>2, <2>3
<1>2. ASSUME NEW e \in Directions, BridgeStep(e)
      PROVE  Pending(r, d)
  <2>1. UNCHANGED <<payloads, work>>
    BY <1>2 DEF BridgeStep, BridgeTake, Submit, BridgeExit, workerVars
  <2>2. CASE d # e
    <3>1. results'[d] = results[d] /\ bridge'[d] = bridge[d]
      BY <1>2, <2>2 DEF BridgeStep, BridgeTake, Submit, BridgeExit, workerVars
    <3> QED
      BY <2>1, <3>1
  <2>3. CASE d = e /\ BridgeTake(e)
    <3>1. /\ results[d] \in Seq(Requests) /\ results[d] # <<>>
          /\ results'[d] = Tail(results[d]) /\ bridge'[d] = results[d][1]
      BY <2>3 DEF BridgeTake
    <3>2. \A i \in DOMAIN results'[d] :
            i + 1 \in DOMAIN results[d] /\ results'[d][i] = results[d][i + 1]
      BY <3>1
    <3>3. 1 \in DOMAIN results[d]
      BY <3>1
    <3> QED
      BY <2>1, <3>1, <3>2, <3>3
  <2>4. CASE d = e /\ (Submit(e) \/ BridgeExit(e))
    <3>1. results' = results /\ bridge'[d] # r
      BY <2>4 DEF Submit, BridgeExit, workerVars
    <3> QED
      BY <2>1, <3>1
  <2> QED
    BY <1>2, <2>2, <2>3, <2>4 DEF BridgeStep
<1>3. CASE UNCHANGED <<payloads, work, results, bridge>>
  BY <1>3
<1> QED
  BY <1>1, <1>2, <1>3

\* The number of records is a number.
LEMMA NumRecordsType ==
    ASSUME TypeOK, NEW r \in Requests
    PROVE  NumRecords(r) \in Nat
<1> DEFINE sent == emitted[r]
           lost == discarded[r]
<1>1. sent \in Seq(Log) /\ lost \in Seq(Log)
  BY DEF TypeOK
<1>2. NumRecords(r) = Len(sent) + Len(lost)
  BY DEF NumRecords
<1> HIDE DEF sent, lost
<1> QED
  BY <1>1, <1>2

\* A request without a new record, not newly held and not newly pending.
LEMMA SameRecords ==
    ASSUME NEW r, OneRecord(r), NumRecords(r)' = NumRecords(r),
           r \in DOMAIN sessions' => r \in DOMAIN sessions, Directions' = Directions,
           \A d \in Directions : Pending(r, d)' => Pending(r, d)
    PROVE  OneRecord(r)'
<1>1. (NumRecords(r) <= 1)'
  BY DEF OneRecord
<1>2. (r \in DOMAIN sessions => NumRecords(r) = 0)'
  BY DEF OneRecord
<1>3. (NumRecords(r) = 1 => \A d \in Directions : ~Pending(r, d))'
  <2>1. NumRecords(r) = 1 => \A d \in Directions : ~Pending(r, d)
    BY DEF OneRecord
  <2> QED
    BY <2>1
<1> QED
  BY <1>1, <1>2, <1>3 DEF OneRecord

\* A request with its first record, gone from the tracker.
LEMMA FirstRecord ==
    ASSUME NEW r, NumRecords(r) = 0, NumRecords(r)' = NumRecords(r) + 1,
           r \notin DOMAIN sessions', Directions' = Directions,
           \A d \in Directions : ~Pending(r, d)'
    PROVE  OneRecord(r)'
<1>1. NumRecords(r)' = 1
  OBVIOUS
<1>2. (NumRecords(r) <= 1)'
  BY <1>1
<1>3. (r \in DOMAIN sessions => NumRecords(r) = 0)'
  OBVIOUS
<1>4. (NumRecords(r) = 1 => \A d \in Directions : ~Pending(r, d))'
  OBVIOUS
<1> QED
  BY <1>2, <1>3, <1>4 DEF OneRecord

\* What a bridge submits has no record yet.
LEMMA SubmitsFirst ==
    ASSUME TypeOK, NEW d \in Directions, bridge[d] \in Requests, OneRecord(bridge[d])
    PROVE  NumRecords(bridge[d]) = 0
<1>1. Pending(bridge[d], d)
  BY DEF Pending
<1>2. NumRecords(bridge[d]) \in Nat /\ NumRecords(bridge[d]) <= 1
  BY NumRecordsType DEF OneRecord
<1>3. NumRecords(bridge[d]) # 1
  BY <1>1 DEF OneRecord
<1> QED
  BY <1>2, <1>3

\* An entry that was submitted is not pending any more.
LEMMA SubmittedNotPending ==
    ASSUME TypeOK, AtMostOnce, NEW d \in Directions, NEW r \in Requests,
           bridge[d] = r, Submit(d)
    PROVE  ~Pending(r, d)'
<1>1. /\ r \notin payloads[d] /\ (\A w \in Workers : work[d][w] # r)
      /\ \A i \in DOMAIN results[d] : results[d][i] # r
  BY BridgeHasIt
<1>2. UNCHANGED <<payloads, work, results>> /\ bridge'[d] = NoRequest
  BY DEF Submit, workerVars, TypeOK
<1> QED
  BY <1>1, <1>2, WorkersAssumption DEF Pending

\* A submission keeps each request to one record.
LEMMA SubmitOneRecord ==
    ASSUME ShutdownInv, AtMostOnce, RecordInv, NEW e \in Directions, Submit(e),
           NEW r \in Requests \ expired, Directions' = Directions
    PROVE  OneRecord(r)'
<1> DEFINE q == bridge[e]
<1>1. TypeOK /\ OneRecord(r) /\ r \in Requests /\ q \in Requests
  BY DEF ShutdownInv, RecordInv, Submit
<1>2. ASSUME NEW d \in Directions, Pending(r, d)'
      PROVE  Pending(r, d)
  BY <1>1, <1>2, PendingStep DEF BridgeStep
<1>3. q = r => NumRecords(r) = 0 /\ ~Pending(r, e)'
  BY <1>1, SubmitsFirst, SubmittedNotPending
<1>4. LogOf(e) \in Log
  BY DEF LogOf, Log
<1>5. CASE ~bidir /\ Emit(q, LogOf(e)) /\ UNCHANGED sessions
  <2>1. NumRecords(r)' = NumRecords(r) + (IF r = q THEN 1 ELSE 0) /\ NumRecords(r) \in Nat
    BY <1>1, <1>4, <1>5, EmitRecords
  <2>2. Directions = {e} /\ DOMAIN sessions = {}
    BY <1>5 DEF Directions, ShutdownInv, SweepInv
  <2>3. r \notin DOMAIN sessions'
    BY <1>5, <2>2
  <2>4. CASE q = r
    <3>1. \A d \in Directions : ~Pending(r, d)'
      BY <1>3, <2>2, <2>4
    <3>2. NumRecords(r)' = NumRecords(r) + 1
      BY <2>1, <2>4
    <3> HIDE DEF q
    <3> QED
      BY <1>3, <2>3, <2>4, <3>1, <3>2, FirstRecord
  <2>5. CASE q # r
    <3>1. NumRecords(r)' = NumRecords(r)
      BY <2>1, <2>5
    <3> HIDE DEF q
    <3> QED
      BY <1>1, <1>2, <2>3, <3>1, SameRecords
  <2> QED
    BY <2>4, <2>5
<1>6. CASE q \in DOMAIN sessions /\ Emit(q, Merged(e, sessions[q])) /\ Forget(q)
  <2> DEFINE log == Merged(e, sessions[q])
  <2>1. log \in Log
    <3>1. sessions[q] \in Log
      BY <1>1, <1>6 DEF TypeOK
    <3> QED
      BY <3>1, LogTypes
  <2>2. NumRecords(r)' = NumRecords(r) + (IF r = q THEN 1 ELSE 0) /\ NumRecords(r) \in Nat
    <3>1. Emit(q, log)
      BY <1>6
    <3> HIDE DEF q, log
    <3> QED
      BY <1>1, <2>1, <3>1, EmitRecords
  <2>3. DOMAIN sessions' = DOMAIN sessions \ {q}
    BY <1>6 DEF Forget, Without
  <2>4. CASE q = r
    <3>1. ASSUME NEW d \in Directions, d # e
          PROVE  ~Pending(r, d)'
      <4>1. ~Side(sessions[r], e)
        BY <1>1, <1>6, <2>4, BridgeHasIt
      <4>2. \E f \in Directions : Side(sessions[r], f)
        BY <1>6, <2>4 DEF RecordInv
      <4>3. Side(sessions[r], d)
        BY <3>1, <4>1, <4>2 DEF Directions
      <4>4. ~Pending(r, d)
        BY <1>1, <1>6, <2>4, <4>3, HeldNotPending
      <4> QED
        BY <1>2, <4>4
    <3>2. \A d \in Directions : ~Pending(r, d)'
      BY <1>3, <2>4, <3>1
    <3>3. NumRecords(r)' = NumRecords(r) + 1 /\ r \notin DOMAIN sessions'
      BY <2>2, <2>3, <2>4
    <3> HIDE DEF q
    <3> QED
      BY <1>3, <2>4, <3>2, <3>3, FirstRecord
  <2>5. CASE q # r
    <3>1. NumRecords(r)' = NumRecords(r) /\ (r \in DOMAIN sessions' => r \in DOMAIN sessions)
      BY <2>2, <2>3, <2>5
    <3> HIDE DEF q
    <3> QED
      BY <1>1, <1>2, <3>1, SameRecords
  <2> QED
    BY <2>4, <2>5
<1>7. CASE /\ q \notin DOMAIN sessions
           /\ sessions' = [p \in DOMAIN sessions \cup {q} |->
                             IF p = q THEN LogOf(e) ELSE sessions[p]]
           /\ UNCHANGED <<collectorInput, emitted, discarded>>
  <2>1. NumRecords(r)' = NumRecords(r)
    BY <1>7 DEF NumRecords
  <2>2. DOMAIN sessions' = DOMAIN sessions \cup {q}
    BY <1>7
  <2>3. CASE q = r
    <3>1. NumRecords(r)' = 0
      BY <1>3, <2>1, <2>3
    <3>2. (NumRecords(r) <= 1)'
      BY <3>1
    <3>3. (r \in DOMAIN sessions => NumRecords(r) = 0)'
      BY <3>1
    <3>4. (NumRecords(r) = 1 => \A d \in Directions : ~Pending(r, d))'
      BY <3>1
    <3> QED
      BY <3>2, <3>3, <3>4 DEF OneRecord
  <2>4. CASE q # r
    <3>1. r \in DOMAIN sessions' => r \in DOMAIN sessions
      BY <2>2, <2>4
    <3> HIDE DEF q
    <3> QED
      BY <1>1, <1>2, <2>1, <3>1, SameRecords
  <2> QED
    BY <2>3, <2>4
<1> QED
  BY <1>5, <1>6, <1>7 DEF Submit

\* An eviction that is not the TTL's keeps each request to one record.
LEMMA EvictOneRecord ==
    ASSUME ShutdownInv, RecordInv, Evict,
           NEW r \in Requests \ expired, Directions' = Directions
    PROVE  OneRecord(r)'
<1> PICK q \in evict : Emit(q, sessions[q]) /\ Forget(q)
  BY DEF Evict
<1>1. /\ TypeOK /\ OneRecord(r) /\ r \in Requests
      /\ q \in Requests /\ q \in DOMAIN sessions /\ sessions[q] \in Log
  BY DEF ShutdownInv, RecordInv, TypeOK
<1>2. NumRecords(r)' = NumRecords(r) + (IF r = q THEN 1 ELSE 0) /\ NumRecords(r) \in Nat
  BY <1>1, EmitRecords
<1>3. DOMAIN sessions' = DOMAIN sessions \ {q}
  BY DEF Forget, Without
<1>4. UNCHANGED <<payloads, work, results, bridge>>
  BY DEF Evict, workerVars
<1>5. ASSUME NEW d \in Directions, Pending(r, d)'
      PROVE  Pending(r, d)
  BY <1>1, <1>4, <1>5, PendingStep
<1>6. CASE q = r
  <2>1. sweeper = "final"
    BY <1>6 DEF ShutdownInv, SweepInv, RecordInv, MutexFree
  <2>2. \A d \in Directions : ~Pending(r, d)
    BY <1>1, <2>1, NonePending DEF ShutdownInv, SweepInv
  <2>3. NumRecords(r) = 0
    BY <1>1, <1>6 DEF OneRecord
  <2>4. NumRecords(r)' = NumRecords(r) + 1 /\ r \notin DOMAIN sessions'
    BY <1>2, <1>3, <1>6
  <2> QED
    BY <1>5, <2>2, <2>3, <2>4, FirstRecord
<1>7. CASE q # r
  <2>1. NumRecords(r)' = NumRecords(r) /\ (r \in DOMAIN sessions' => r \in DOMAIN sessions)
    BY <1>2, <1>3, <1>7
  <2> QED
    BY <1>1, <1>5, <2>1, SameRecords
<1> QED
  BY <1>6, <1>7

\* Every step keeps each request that did not expire to one record.
LEMMA NextOneRecord ==
    ASSUME ShutdownInv, AtMostOnce, RecordInv, [Next]_vars,
           NEW r \in Requests, r \notin expired'
    PROVE  OneRecord(r)'
<1>1. /\ Directions' = Directions /\ TypeOK
      /\ r \in Requests \ expired /\ OneRecord(r)
  <2>2. Directions' = Directions
    BY DirectionsFixed
  <2>3. expired \subseteq expired'
    BY WaitLeaves
    DEF Next, WorkerSteps, BridgeStep, BridgeTake, Submit, BridgeExit, SweeperStep, Sweep,
       FinalSweep, Evict, SweepEnds, CollectorTake, AssemblerExit, Terminating,
       vars, trackerVars
  <2> QED
    BY <2>2, <2>3 DEF ShutdownInv, RecordInv
<1>2. CASE WorkerSteps
  <2>1. UNCHANGED trackerVars
    BY <1>2 DEF WorkerSteps
  <2>2. NumRecords(r)' = NumRecords(r) /\ sessions' = sessions
    BY <2>1 DEF trackerVars, NumRecords
  <2>3. ASSUME NEW d \in Directions, Pending(r, d)'
        PROVE  Pending(r, d)
    BY <1>1, <1>2, <2>3, PendingStep DEF WorkerSteps
  <2> QED
    BY <1>1, <2>2, <2>3, SameRecords
<1>3. ASSUME NEW e \in Directions, BridgeTake(e) \/ BridgeExit(e)
      PROVE  OneRecord(r)'
  <2>1. NumRecords(r)' = NumRecords(r) /\ sessions' = sessions
    BY <1>3 DEF BridgeTake, BridgeExit, NumRecords
  <2>2. ASSUME NEW d \in Directions, Pending(r, d)'
        PROVE  Pending(r, d)
    BY <1>1, <1>3, <2>2, PendingStep DEF BridgeStep
  <2> QED
    BY <1>1, <2>1, <2>2, SameRecords
<1>4. CASE \E e \in Directions : BridgeStep(e)
  BY <1>1, <1>3, <1>4, SubmitOneRecord DEF BridgeStep
<1>5. CASE Evict
  BY <1>1, <1>5, EvictOneRecord
<1>6. CASE \/ \E e \in Directions : AssemblerExit(e)
           \/ Sweep \/ FinalSweep \/ SweepEnds \/ CollectorTake \/ StartShutdown
           \/ WaitPipeline \/ Terminating \/ UNCHANGED vars
  <2>1. UNCHANGED <<payloads, work, results, bridge, sessions, emitted, discarded>>
    BY <1>6, WaitLeaves
    DEF AssemblerExit, Sweep, FinalSweep, SweepEnds, CollectorTake, Terminating,
       vars, workerVars, trackerVars
  <2>2. NumRecords(r)' = NumRecords(r)
    BY <2>1 DEF NumRecords
  <2>3. ASSUME NEW d \in Directions, Pending(r, d)'
        PROVE  Pending(r, d)
    BY <1>1, <2>1, <2>3, PendingStep
  <2> QED
    BY <1>1, <2>1, <2>2, <2>3, SameRecords
<1> QED
  BY <1>2, <1>4, <1>5, <1>6 DEF Next, SweeperStep

\* Every session has a side, whichever comes first.
LEMMA NextHeldSides ==
    ASSUME TypeOK, \A r \in DOMAIN sessions : \E d \in Directions : Side(sessions[r], d),
           [Next]_vars, Directions' = Directions
    PROVE  \A r \in DOMAIN sessions' : \E d \in Directions : Side(sessions'[r], d)
<1>1. CASE \E e \in Directions : Submit(e)
  <2> PICK e \in Directions : Submit(e)
    BY <1>1
  <2> DEFINE q == bridge[e]
  <2>1. CASE sessions' = sessions
    BY <2>1
  <2>2. CASE Forget(q)
    BY <2>2 DEF Forget, Without
  <2>3. CASE sessions' = [p \in DOMAIN sessions \cup {q} |->
                            IF p = q THEN LogOf(e) ELSE sessions[p]]
    <3>1. Side(LogOf(e), e)
      BY MergedSides DEF LogOf, Side, Directions
    <3> HIDE DEF q
    <3> QED
      BY <2>3, <3>1
  <2> QED
    BY <2>1, <2>2, <2>3 DEF Submit
<1>2. CASE Evict
  BY <1>2 DEF Evict, Forget, Without
<1>3. CASE ~Evict /\ ~(\E e \in Directions : Submit(e))
  <2>1. sessions' = sessions
    BY <1>3, WaitLeaves
    DEF Next, WorkerSteps, BridgeStep, BridgeTake, BridgeExit, SweeperStep, Sweep,
       FinalSweep, SweepEnds, CollectorTake, AssemblerExit, Terminating,
       vars, trackerVars
  <2> QED
    BY <2>1
<1> QED
  BY <1>1, <1>2, <1>3

\* A TTL sweep marks what it evicts.
LEMMA NextTTLMarks ==
    ASSUME sweeper = "ttl" => evict \subseteq expired, [Next]_vars
    PROVE  sweeper' = "ttl" => evict' \subseteq expired'
<1>1. CASE SweeperStep
  BY <1>1 DEF SweeperStep, Sweep, FinalSweep, Evict, SweepEnds
<1>2. CASE ~SweeperStep
  <2>1. UNCHANGED <<sweeper, evict, expired>>
    BY <1>2, WaitLeaves
    DEF Next, WorkerSteps, BridgeStep, BridgeTake, Submit, BridgeExit,
       CollectorTake, AssemblerExit, Terminating,
       vars, trackerVars
  <2> QED
    BY <2>1
<1> QED
  BY <1>1, <1>2

\* Nothing of a step makes the invariant of the records false.
LEMMA NextRecords == IInv /\ [Next]_vars => RecordInv'
<1> SUFFICES ASSUME IInv, [Next]_vars PROVE RecordInv'
  OBVIOUS
<1>1. TypeOK /\ Directions' = Directions
  BY DirectionsFixed DEF IInv, ShutdownInv
<1>2. (\A r \in DOMAIN sessions : \E d \in Directions : Side(sessions[r], d))'
  <2>1. \A r \in DOMAIN sessions' : \E d \in Directions : Side(sessions'[r], d)
    BY <1>1, NextHeldSides DEF IInv, RecordInv
  <2> QED
    BY <1>1, <2>1 DEF Side
<1>3. (sweeper = "ttl" => evict \subseteq expired)'
  BY NextTTLMarks DEF IInv, RecordInv
<1>4. (\A r \in Requests \ expired : OneRecord(r))'
  BY NextOneRecord DEF IInv
<1> QED
  BY <1>2, <1>3, <1>4 DEF RecordInv

\* At first an entry is a payload or nothing, and there are no records.
LEMMA InitIInv == Init => IInv
<1> SUFFICES ASSUME Init PROVE IInv
  OBVIOUS
<1>1. ShutdownInv
  BY InitShutdown
<1>2. ASSUME NEW r \in Requests, NEW d \in Directions
      PROVE  Copies(r, d) <= 1
  <2>1. /\ work[d] = [w \in Workers |-> NoRequest] /\ results[d] = <<>>
        /\ bridge[d] = NoRequest /\ DOMAIN sessions = {} /\ emitted[r] = <<>>
        /\ discarded[r] = <<>> /\ resultDropped[d] = {}
    BY DEF Init, WorkersInit
  <2>2. /\ {w \in Workers : work[d][w] = r} = {}
        /\ {i \in DOMAIN results[d] : results[d][i] = r} = {}
        /\ {i \in DOMAIN emitted[r] : Side(emitted[r][i], d)} = {}
        /\ {i \in DOMAIN discarded[r] : Side(discarded[r][i], d)} = {}
    BY <2>1, WorkersAssumption
  <2>3. Cardinality({}) = 0
    BY FS_EmptySet
  <2>4. /\ InWork(r, d) = 0 /\ InResults(r, d) = 0
    BY <2>2, <2>3 DEF InWork, InResults
  <2>5. SidesIn(emitted[r], d) = 0 /\ SidesIn(discarded[r], d) = 0
    BY <2>2, <2>3 DEF SidesIn
  <2>6. AtBridge(r, d) = 0 /\ Held(r, d) = 0 /\ Dropped(r, d) = 0
    BY <2>1, WorkersAssumption DEF AtBridge, Held, Dropped, Truth
  <2>7. InPayloads(r, d) \in {0, 1}
    BY DEF InPayloads, Truth
  <2>8. Copies(r, d) = InPayloads(r, d) + InWork(r, d) + InResults(r, d) + AtBridge(r, d)
          + Held(r, d) + SidesIn(emitted[r], d) + SidesIn(discarded[r], d) + Dropped(r, d)
    BY DEF Copies, InPayloads, InWork, InResults, AtBridge, Held, Dropped
  <2> QED
    BY <2>4, <2>5, <2>6, <2>7, <2>8
<1>3. RecordInv
  <2>1. /\ DOMAIN sessions = {} /\ evict = {}
        /\ \A r \in Requests : emitted[r] = <<>> /\ discarded[r] = <<>>
    BY DEF Init
  <2>2. ASSUME NEW r \in Requests
        PROVE  NumRecords(r) = 0
    <3>1. Len(emitted[r]) = 0 /\ Len(discarded[r]) = 0
      BY <2>1
    <3> QED
      BY <3>1 DEF NumRecords
  <2> QED
    BY <2>1, <2>2 DEF RecordInv, OneRecord
<1> QED
  BY <1>1, <1>2, <1>3 DEF IInv, AtMostOnce

\* The invariant is inductive.
LEMMA NextIInv == IInv /\ [Next]_vars => IInv'
BY NextShutdown, NextAtMostOnce, NextRecords DEF IInv

-----------------------------------------------------------------------------
(* Theorems *)

\* IInv, which the other theorems need, holds in every reachable state.
THEOREM Inductive == Spec => []IInv
BY InitIInv, NextIInv, PTL DEF Spec

\* Every variable keeps its type: no channel holds more than its capacity and
\* the sweeper evicts only what the map has.
THEOREM TypeCorrect == Spec => []TypeOK
<1>1. IInv => TypeOK
  BY DEF IInv, ShutdownInv
<1> QED
  BY <1>1, Inductive, PTL

\* No channel is closed while a goroutine that could still send to it is there,
\* and no session is left behind when the last one is.
THEOREM ClosedHasNoSender == Spec => []NoSendOnClosed
<1>1. IInv => NoSendOnClosed
  <2> SUFFICES ASSUME ShutdownInv PROVE NoSendOnClosed
    BY DEF IInv
  <2>1. DOMAIN sessions = {} => sessions = <<>>
    BY EmptyMap DEF ShutdownInv, SweepInv
  <2> QED
    BY <2>1 DEF ShutdownInv, SweepInv, DrainInv, NoSendOnClosed, AllExited, Cancelled
<1> QED
  BY <1>1, Inductive, PTL

\* Only a request that the TTL has evicted can have a second record: neither
\* the bridges, whichever comes first, nor the final sweep split one.
THEOREM OneRecordUnlessExpired == Spec => []SplitOnlyByExpiry
<1>1. IInv => SplitOnlyByExpiry
  <2> SUFFICES ASSUME IInv, NEW r \in Requests, r \notin expired
               PROVE  ~(Len(emitted[r]) + Len(discarded[r]) > 1)
    BY DEF SplitOnlyByExpiry
  <2>1. NumRecords(r) \in Nat /\ NumRecords(r) <= 1
    BY NumRecordsType DEF IInv, ShutdownInv, RecordInv, OneRecord
  <2>2. ~(NumRecords(r) > 1)
    BY <2>1
  <2> QED
    BY <2>2 DEF NumRecords
<1> QED
  BY <1>1, Inductive, PTL

\* No step loses an entry without the branch that drops it, and none makes a
\* second one: whatever the workers, the bridges and the sweeps do, each entry
\* is in as many places as before.
THEOREM EntriesConserved == Spec => EntryConservation
<1>1. IInv /\ [Next]_vars
        => [\A r \in Requests, d \in Directions : Copies(r, d)' = Copies(r, d)]_vars
  BY NextConserves DEF IInv
<1> QED
  BY <1>1, Inductive, PTL DEF Spec, EntryConservation
=============================================================================
