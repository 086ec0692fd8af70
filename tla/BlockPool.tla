----------------------------- MODULE BlockPool -----------------------------
(***************************************************************************)
(* blockpool.go, and the audit queue (run.go) that shares its blocks.      *)
(*                                                                         *)
(* A fixed set of blocks circulates between the pool, the readers that     *)
(* fill them, the audit queue and the assembler.  The pool is a Go channel *)
(* whose capacity is the number of blocks; Get resets a block before it    *)
(* hands it out and nobody looks at a pooled block, so the order inside    *)
(* the channel cannot be observed and the pool is a set here.  The queue   *)
(* is a channel whose order matters: a sequence.  Both are used through    *)
(* non-blocking operations only.                                           *)
(***************************************************************************)
EXTENDS Integers, Sequences, FiniteSets

CONSTANTS
    Blocks,     \* the blocks NewBlockPool allocates
    NoBlock,    \* Go's nil, for a *AuditBlock
    BlockSize,  \* len(Data), counted in units of body data
    QueueCap,   \* capacity of the audit queue
    Requests,   \* request identifiers, one audited body each
    NoRequest   \* RequestID of a reset block (0: real identifiers start at 1)

ASSUME BlocksAssumption ==
    /\ IsFiniteSet(Blocks) /\ Blocks # {} /\ NoBlock \notin Blocks
    /\ BlockSize \in Nat \ {0}
    /\ QueueCap \in Nat \ {0}
    /\ NoRequest \notin Requests

VARIABLES
    pool,      \* blocks in BlockPool.ch
    blk,       \* contents of every block, kept while the block is pooled
    queue,     \* the audit queue: blocks sent and not yet received
    queueOpen  \* FALSE once shutdown has closed the queue

poolVars == <<pool, blk>>
queueVars == <<queue, queueOpen>>

\* A unit of body data is named by its position in the request's body.
Units == Nat \ {0}

\* AuditBlock; data stands for Data[:Used], so Used is Len(data).
AuditBlock == [requestID : Requests \cup {NoRequest}, seq : Nat,
               data : Seq(Units), final : BOOLEAN, abort : BOOLEAN]

\* A block that Get has reset, once its taker has set its fields.
FreshBlock(r, s, f) ==
    [requestID |-> r, seq |-> s, data |-> <<>>, final |-> f, abort |-> FALSE]

\* What AuditBlock.Reset leaves.
ResetBlock == FreshBlock(NoRequest, 0, FALSE)

\* The writes to a block in use: its fields set, its end flags, AuditBlock.Write.
Tag(c, r, s) == [c EXCEPT !.requestID = r, !.seq = s]
MarkFinal(c) == [c EXCEPT !.final = TRUE]
MarkAbort(c) == [c EXCEPT !.abort = TRUE]
Fill(c, units) == [c EXCEPT !.data = @ \o units]

Remaining(b) == BlockSize - Len(blk[b].data)

PoolTypeOK ==
    /\ pool \subseteq Blocks
    /\ blk \in [Blocks -> AuditBlock]
    /\ queue \in Seq(Blocks) /\ Len(queue) <= QueueCap
    /\ queueOpen \in BOOLEAN

PoolInit ==
    /\ pool = Blocks
    /\ blk = [b \in Blocks |-> ResetBlock]
    /\ queue = <<>>
    /\ queueOpen = TRUE

\* Get: takes b out of the pool; c is what the caller makes of the reset block.
Get(b, c) ==
    /\ b \in pool
    /\ pool' = pool \ {b}
    /\ blk' = [blk EXCEPT ![b] = c]

\* The default branch of Get: the pool is exhausted and the caller gets nil.
Exhausted == pool = {}

\* Mutant of Put: a channel with one slot less than there are blocks.
PutOneSlotShort(b) == pool' = IF Cardinality(pool) < Cardinality(Blocks) - 1
                              THEN pool \cup {b} ELSE pool

\* Put: a non-blocking send, which would lose b were the channel full.
Put(b) == pool' = IF Cardinality(pool) < Cardinality(Blocks)
                  THEN pool \cup {b} ELSE pool

\* Mutant of CanSend: the queue takes any number of blocks.
CanAlwaysSend == queueOpen

\* Mutant of SendFails: a plain channel send, which waits for room.
OnlyClosedFails == ~queueOpen

\* sendBlock succeeds when the queue is open and has room.  It fails, without
\* waiting, when the queue is full and also when it is closed: the panic is
\* recovered.
CanSend == queueOpen /\ Len(queue) < QueueCap
SendFails == ~queueOpen \/ Len(queue) >= QueueCap
Enqueue(b) == queue' = Append(queue, b) /\ UNCHANGED queueOpen

\* close(auditQueue), at shutdown: whatever the readers are doing then.
CloseQueue ==
    /\ queueOpen
    /\ queueOpen' = FALSE
    /\ UNCHANGED <<queue, pool, blk>>
=============================================================================
