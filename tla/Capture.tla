------------------------------ MODULE Capture ------------------------------
(***************************************************************************)
(* The request side of the capture path: the readers of concurrent         *)
(* requests (TeeReader), the pool and the audit queue they share           *)
(* (BlockPool), and the assembler at the other end (Assembler).            *)
(***************************************************************************)
EXTENDS TeeReader, Assembler, Functions

vars == <<poolVars, queueVars, readerVars, asmVars>>

Init == PoolInit /\ ReaderInit /\ AsmInit

\* Everything is over: the listener's requests and the assembler are done.
Stopped ==
    /\ \A r \in Requests : pc[r] = "closed"
    /\ ~running
    /\ workerInput = <<>>

Readers == \E r \in Requests : (ReaderStep(r) \/ TransportStep(r)) /\ UNCHANGED asmVars
Asm == (AsmStep \/ WorkerTake) /\ UNCHANGED readerVars
Shutdown == CloseQueue /\ UNCHANGED <<readerVars, asmVars>>
Terminating == Stopped /\ UNCHANGED vars

Next == Readers \/ Asm \/ Shutdown \/ Terminating

Spec == Init /\ [][Next]_vars

TypeOK == PoolTypeOK /\ ReaderTypeOK /\ AsmTypeOK

-----------------------------------------------------------------------------
(* Fairness.  A goroutine inside Read or Close keeps running; the transport *)
(* closes every body it was given; the assembler's select takes what is     *)
(* ready, and its ticker finds every buffer that no block arrives for.      *)
ReaderFairness == \A r \in Requests : WF_vars(ReaderStep(r) /\ UNCHANGED asmVars)
CloseFairness == \A r \in Requests : WF_vars(Close(r) /\ UNCHANGED asmVars)
AsmFairness ==
    /\ WF_vars((AsmReceive \/ ProcessBlock \/ AsmExit) /\ UNCHANGED readerVars)
    /\ \A r \in Requests : WF_vars(SweepStale(r) /\ UNCHANGED readerVars)

-----------------------------------------------------------------------------
(* Safety *)

InQueue(b) == \E i \in DOMAIN queue : queue[i] = b
WithReader(b) == \E r \in Requests : current[r] = b \/ next[r] = b

\* Every block is in exactly one place: none leaks from the pool, is handed
\* out twice or is still held by the reader that sent it (the accounting that
\* Put's default branch, and "recycled indefinitely", rely on).
NoneLost ==
    \A b \in Blocks : b \in pool \/ InQueue(b) \/ WithReader(b) \/ b = hand
NoneShared ==
    /\ \A b \in Blocks :
         /\ b \in pool => ~InQueue(b) /\ ~WithReader(b) /\ b # hand
         /\ InQueue(b) => ~WithReader(b) /\ b # hand
         /\ WithReader(b) => b # hand
    /\ \A i, j \in DOMAIN queue : queue[i] = queue[j] => i = j
    /\ \A r, q \in Requests :
         /\ current[r] # NoBlock => current[r] # next[q]
         /\ current[r] # NoBlock /\ current[r] = current[q] => r = q
         /\ next[r] # NoBlock /\ next[r] = next[q] => r = q
BlockConservation == NoneLost /\ NoneShared

\* Some counter says that r was not audited.
Lost(r) == drops[r] > 0 \/ \E c \in Counters : stats[r][c] > 0

\* A request ends one way: its payload is dispatched at most once, it is
\* counted as dropped at most once, and never both audited and lost.
OneOutcome ==
    \A r \in Requests :
        /\ Len(dispatched[r]) <= 1
        /\ drops[r] <= 1
        /\ dispatched[r] # <<>> => ~Lost(r)

\* Close has returned and no block or buffer of r is left anywhere.
Settled(r) ==
    /\ pc[r] = "closed"
    /\ \A i \in DOMAIN queue : blk[queue[i]].requestID # r
    /\ hand # NoBlock => blk[hand].requestID # r
    /\ r \notin DOMAIN inflight

\* No request whose body was read disappears without a trace: once nothing of
\* it is under way it was dispatched or some counter knows.  The branches of
\* processBlock that count nothing, and shutdown, rely on others having counted.
NoSilentLoss ==
    \A r \in Requests :
        Settled(r) /\ pos[r] > 0 => dispatched[r] # <<>> \/ Lost(r)

\* The assembler's running total is the memory its buffers really hold, and
\* between two blocks it never exceeds the budget.
InflightAccounting ==
    /\ inflightBytes <= Budget
    /\ running => inflightBytes =
           SumFunctionOnSet([r \in Requests |-> Held(r)], DOMAIN inflight)

\* A reader that gave up holds no block, so Close's branch for one that does
\* is never needed and nothing stays behind when the transport forgets it.
AbandonedHoldsNothing ==
    \A r \in Requests :
        abandoned[r] => current[r] = NoBlock /\ next[r] = NoBlock

\* A block on its way through the queue is not touched until it is processed:
\* the reader that sent it does not write to it any more.
QueuedBlocksFrozen ==
    [][\A b \in Blocks : b = hand \/ InQueue(b) => blk'[b] = blk[b]]_vars

-----------------------------------------------------------------------------
(* The inductive invariant behind type correctness and block conservation *)

\* What pc[r] says of the blocks reader r holds, and of a body read to its end.
ReaderInv(r) ==
    /\ pos[r] <= body[r] /\ todo[r] <= pos[r]
    /\ atEOF[r] => pos[r] = body[r]
    /\ pc[r] = "finish" => closing[r] \/ atEOF[r]
    /\ pc[r] \in {"write", "next", "send", "abort"} => current[r] # NoBlock
    /\ pc[r] \in {"get", "sentinel"} => current[r] = NoBlock
    /\ next[r] # NoBlock => pc[r] \in {"send", "release", "final", "unsent"}
    /\ pc[r] = "release" => current[r] # NoBlock \/ next[r] # NoBlock
    /\ pc[r] \in {"final", "unsent"} => (current[r] = NoBlock <=> next[r] # NoBlock)
    /\ pc[r] = "closed" => current[r] = NoBlock
    /\ abandoned[r] => pc[r] \in {"idle", "closed"} /\ current[r] = NoBlock
    /\ finalized[r] =>
         /\ pc[r] \in {"final", "unsent"} \/ current[r] = NoBlock
         /\ pc[r] \in {"idle", "finish", "sentinel", "final", "unsent", "closed"}
         /\ closing[r] \/ pos[r] = body[r]

\* Whose data a block holds, and that it never holds too much.
ContentInv ==
    /\ \A b \in Blocks :
         /\ Len(blk[b].data) <= BlockSize
         /\ InQueue(b) \/ b = hand => blk[b].requestID \in Requests
    /\ \A r \in Requests :
         /\ current[r] # NoBlock => blk[current[r]].requestID = r
         /\ next[r] # NoBlock /\ pc[r] \in {"final", "unsent"}
              => blk[next[r]].requestID = r

IInv ==
    /\ TypeOK
    /\ BlockConservation
    /\ \A r \in Requests : ReaderInv(r)
    /\ ContentInv

-----------------------------------------------------------------------------
(* Liveness *)

\* "Audit failures never affect the proxy path": a Read or Close that was
\* entered returns, whatever the pool, the queue and the assembler do.
CaptureNeverBlocks ==
    \A r \in Requests :
        pc[r] \notin {"idle", "closed"} ~> pc[r] \in {"idle", "closed"}

\* Every block finds its way back, whichever way the requests ended, if the
\* bodies are closed and the assembler runs.
BlocksComeHome == CloseFairness /\ AsmFairness => <>[](pool = Blocks)

\* Partial payloads of dead requests do not stay while the assembler runs: what
\* a failed abort signal or a failed final block left in it is swept.
PartialsGo ==
    AsmFairness => \A r \in Requests : pc[r] = "closed" ~> Settled(r)

-----------------------------------------------------------------------------
(* Refinement *)

Promise == INSTANCE AuditPromise WITH
    passed <- pos,
    record <- [r \in Requests |->
                 [i \in DOMAIN dispatched[r] |-> dispatched[r][i].data]],
    lost <- [r \in Requests |-> Lost(r)]

\* Seen from outside, the readers, the pool, the queue and the assembler
\* together do what AuditPromise says, step by step.
KeepsPromise == Promise!Spec

-----------------------------------------------------------------------------
(* What the documents say and the code does not do *)

\* assembler.go:51, "true = full capture via final; false = truncated or
\* abandoned": a payload marked complete is the whole body.
CompleteMeansWhole ==
    \A r \in Requests : \A i \in DOMAIN dispatched[r] :
        dispatched[r][i].complete => pos[r] = body[r]

\* SECURITY.md: the drop counter tracks the payloads dropped because the
\* worker queue is full.
WorkerFullCountsAsDrop ==
    \A r \in Requests : stats[r]["workerQueueFull"] > 0 => drops[r] > 0
=============================================================================
