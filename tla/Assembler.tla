----------------------------- MODULE Assembler -----------------------------
(***************************************************************************)
(* assembler.go: the goroutine that puts the blocks of the audit queue     *)
(* back together, request by request, and hands complete payloads to the   *)
(* worker pool.                                                            *)
(*                                                                         *)
(* One iteration of its select is one step here, except that receiving a   *)
(* block and processing it are two: in between the block is in nobody's    *)
(* queue, and readers run.  The branches of processBlock are the actions   *)
(* Asm*; each one returns the block to the pool.                           *)
(***************************************************************************)
EXTENDS BlockPool

CONSTANTS
    MaxPayload,  \* cfg.maxPayloadSize
    Budget,      \* cfg.inflightBudget, after defaulting
    WorkerCap    \* capacity of workerInput

ASSUME AssemblerAssumption ==
    MaxPayload \in Nat /\ Budget \in Nat \ {0} /\ WorkerCap \in Nat \ {0}

VARIABLES
    inflight,       \* the reassembly buffers, by request
    inflightBytes,  \* what the assembler believes they hold in total
    hand,           \* the block just received, before processBlock
    running,        \* FALSE once the goroutine has returned
    workerInput,    \* payloads sent to the workers and not yet taken
    stats,          \* assemblerStats, each counter split by request
    dispatched      \* history: the payloads sent to the workers, per request

asmVars == <<inflight, inflightBytes, hand, running, workerInput, stats,
             dispatched>>

PayloadBuffer == [data : Seq(Units), nextSeq : Nat]
AssembledPayload == [data : Seq(Units), complete : BOOLEAN]
Counters == {"oversizedDropped", "staleDropped", "workerQueueFull",
             "budgetExceeded"}

AsmTypeOK ==
    /\ DOMAIN inflight \subseteq Requests
    /\ \A r \in DOMAIN inflight : inflight[r] \in PayloadBuffer
    /\ inflightBytes \in Int
    /\ hand \in Blocks \cup {NoBlock}
    /\ running \in BOOLEAN
    /\ workerInput \in Seq(Requests) /\ Len(workerInput) <= WorkerCap
    /\ stats \in [Requests -> [Counters -> Nat]]
    /\ dispatched \in [Requests -> Seq(AssembledPayload)]

AsmInit ==
    /\ inflight = <<>>
    /\ inflightBytes = 0
    /\ hand = NoBlock
    /\ running = TRUE
    /\ workerInput = <<>>
    /\ stats = [r \in Requests |-> [c \in Counters |-> 0]]
    /\ dispatched = [r \in Requests |-> <<>>]

Held(r) == IF r \in DOMAIN inflight THEN Len(inflight[r].data) ELSE 0

\* The buffer processBlock looks up, or the one it creates.
BufferOf(r) == IF r \in DOMAIN inflight THEN inflight[r]
               ELSE [data |-> <<>>, nextSeq |-> 0]

\* Mutant of Discard: the bytes stay counted.
DiscardUncounted(r) ==
    /\ inflight' = [q \in DOMAIN inflight \ {r} |-> inflight[q]]
    /\ UNCHANGED inflightBytes

\* delete(inflight, rid) and the subtraction of what its buffer held
Discard(r) ==
    /\ inflight' = [q \in DOMAIN inflight \ {r} |-> inflight[q]]
    /\ inflightBytes' = inflightBytes - Held(r)

Count(c, r) == stats' = [stats EXCEPT ![r][c] = @ + 1]

\* case blk, ok := <-auditQueue
AsmReceive ==
    /\ running /\ hand = NoBlock
    /\ queue # <<>>
    /\ hand' = Head(queue)
    /\ queue' = Tail(queue)
    /\ UNCHANGED <<queueOpen, poolVars, inflight, inflightBytes, running,
                   workerInput, stats, dispatched>>

\* What every branch of processBlock does with the block it was given.
PutHand ==
    /\ hand # NoBlock
    /\ Put(hand)
    /\ hand' = NoBlock
    /\ UNCHANGED <<blk, queueVars, running>>

\* The request, and the buffer before and after its block is appended.
Rid == blk[hand].requestID
Appended == BufferOf(Rid).data \o blk[hand].data
NewBytes == inflightBytes + Len(blk[hand].data)

Refused == Rid \notin DOMAIN inflight /\ NewBytes > Budget

\* Mutant of InOrder: no sequence check.
AnyOrder == TRUE

InOrder == blk[hand].seq = BufferOf(Rid).nextSeq
Oversized == Len(Appended) > MaxPayload
OverBudget == NewBytes > Budget

\* An abort signal: the partial payload goes, and nothing is counted.
AsmAbort ==
    /\ PutHand
    /\ blk[hand].abort
    /\ Discard(Rid)
    /\ UNCHANGED <<workerInput, stats, dispatched>>

\* No buffer yet and no room in the budget for one.
AsmRefuse ==
    /\ PutHand
    /\ ~blk[hand].abort
    /\ Refused
    /\ Count("budgetExceeded", Rid)
    /\ UNCHANGED <<inflight, inflightBytes, workerInput, dispatched>>

\* Not the block expected next: buffer and block are dropped, uncounted.
AsmOutOfOrder ==
    /\ PutHand
    /\ ~blk[hand].abort /\ ~Refused
    /\ ~InOrder
    /\ Discard(Rid)
    /\ UNCHANGED <<workerInput, stats, dispatched>>

\* The block was appended and the payload is too long, or all of them are.
AsmTooMuch ==
    /\ PutHand
    /\ ~blk[hand].abort /\ ~Refused /\ InOrder
    /\ Oversized \/ OverBudget
    /\ Count(IF Oversized THEN "oversizedDropped" ELSE "budgetExceeded", Rid)
    /\ Discard(Rid)
    /\ UNCHANGED <<workerInput, dispatched>>

Accepted == ~blk[hand].abort /\ ~Refused /\ InOrder /\ ~Oversized /\ ~OverBudget

\* A block that is not the last one.
AsmAppend ==
    /\ PutHand
    /\ Accepted
    /\ ~blk[hand].final
    /\ inflight' = [r \in DOMAIN inflight \cup {Rid} |->
           IF r = Rid THEN [data |-> Appended, nextSeq |-> BufferOf(r).nextSeq + 1]
           ELSE inflight[r]]
    /\ inflightBytes' = NewBytes
    /\ UNCHANGED <<workerInput, stats, dispatched>>

\* The last one: the payload goes to the workers, marked complete ...
AsmDispatch ==
    /\ PutHand
    /\ Accepted
    /\ blk[hand].final
    /\ Len(workerInput) < WorkerCap
    /\ workerInput' = Append(workerInput, Rid)
    /\ dispatched' = [dispatched EXCEPT
           ![Rid] = Append(@, [data |-> Appended, complete |-> TRUE])]
    /\ Discard(Rid)
    /\ UNCHANGED stats

\* ... or nowhere, when their queue is full.
AsmWorkerFull ==
    /\ PutHand
    /\ Accepted
    /\ blk[hand].final
    /\ Len(workerInput) >= WorkerCap
    /\ Count("workerQueueFull", Rid)
    /\ Discard(Rid)
    /\ UNCHANGED <<workerInput, dispatched>>

ProcessBlock ==
    \/ AsmAbort \/ AsmRefuse \/ AsmOutOfOrder \/ AsmTooMuch
    \/ AsmAppend \/ AsmDispatch \/ AsmWorkerFull

\* Mutant of Stale: a buffer that has only its first block is never found stale.
StaleOnceTouched(r) == r \in DOMAIN inflight /\ inflight[r].nextSeq > 1

Stale(r) == r \in DOMAIN inflight

\* sweepStale evicts r's buffer.  Time is left out: any buffer may have gone
\* without a block for longer than staleTimeout.  The map is the assembler's
\* own, so one sweep that evicts several is as many of these steps in a row.
SweepStale(r) ==
    /\ running /\ hand = NoBlock
    /\ Stale(r)
    /\ Discard(r)
    /\ Count("staleDropped", r)
    /\ UNCHANGED <<poolVars, queueVars, hand, running, workerInput, dispatched>>

\* The queue is closed and drained: every buffer is dropped, uncounted, and
\* workerInput is closed behind the payloads already in it.
AsmExit ==
    /\ running /\ hand = NoBlock
    /\ ~queueOpen /\ queue = <<>>
    /\ inflight' = <<>>
    /\ running' = FALSE
    /\ UNCHANGED <<poolVars, queueVars, inflightBytes, hand, workerInput,
                   stats, dispatched>>

\* A worker (worker.go) takes a payload.
WorkerTake ==
    /\ workerInput # <<>>
    /\ workerInput' = Tail(workerInput)
    /\ UNCHANGED <<poolVars, queueVars, inflight, inflightBytes, hand, running,
                   stats, dispatched>>

AsmStep ==
    \/ AsmReceive \/ ProcessBlock \/ AsmExit
    \/ \E r \in Requests : SweepStale(r)
=============================================================================
