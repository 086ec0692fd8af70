----------------------------- MODULE TeeReader -----------------------------
(***************************************************************************)
(* teereader.go: the auditReader that wraps one request's body.            *)
(*                                                                         *)
(* The transport reads the body through it; every Read copies what it got  *)
(* into pool blocks and sends the full ones to the audit queue.  Readers   *)
(* of different requests run on their own goroutines and meet only in the  *)
(* pool and the queue, so a step here is what lies between two operations  *)
(* on those: pc[r] names the operation reader r is about to do.            *)
(*                                                                         *)
(*   idle      outside Read and Close         send     sendBlock(current)  *)
(*   get       pool.Get for current           abort    sendBlock, aborting *)
(*   write     copying into current           release  pool.Put, giving up *)
(*   next      pool.Get for next              finish   entering finish     *)
(*   sentinel  pool.Get in finish             final    sendBlock in finish *)
(*   unsent    pool.Put in finish             closed   Close has returned  *)
(*                                                                         *)
(* One goroutine calls Read and Close in turn, as the HTTP/1 transport     *)
(* does.  A Read error that is not EOF, and an empty Read, change nothing. *)
(***************************************************************************)
EXTENDS BlockPool

CONSTANT MaxBody    \* longest body a client sends

ASSUME BodyAssumption == MaxBody \in Nat

VARIABLES
    body,       \* length of the body the client of r sends; never changes
    pc,         \* where reader r is
    current,    \* a.current
    next,       \* local `next` of capture, or the sentinel of finish
    seq,        \* a.seq
    todo,       \* len(data) in capture: units read and not copied yet
    pos,        \* units the client's body has yielded, all forwarded upstream
    atEOF,      \* the Read in progress got io.EOF
    abandoned,  \* a.abandoned
    finalized,  \* a.finalized
    closing,    \* a.closed: Close has been entered
    drops       \* DropCounter.Total, split by the request that incremented it

readerVars == <<body, pc, current, next, seq, todo, pos, atEOF, abandoned,
                finalized, closing, drops>>

ReaderPC == {"idle", "get", "write", "next", "send", "abort", "release",
             "finish", "sentinel", "final", "unsent", "closed"}

ReaderTypeOK ==
    /\ body \in [Requests -> 0..MaxBody]
    /\ pc \in [Requests -> ReaderPC]
    /\ current \in [Requests -> Blocks \cup {NoBlock}]
    /\ next \in [Requests -> Blocks \cup {NoBlock}]
    /\ seq \in [Requests -> Nat]
    /\ todo \in [Requests -> 0..MaxBody]
    /\ pos \in [Requests -> 0..MaxBody]
    /\ atEOF \in [Requests -> BOOLEAN]
    /\ abandoned \in [Requests -> BOOLEAN]
    /\ finalized \in [Requests -> BOOLEAN]
    /\ closing \in [Requests -> BOOLEAN]
    /\ drops \in [Requests -> Nat]

\* newAuditReader, one for each request.
ReaderInit ==
    /\ body \in [Requests -> 0..MaxBody]
    /\ pc = [r \in Requests |-> "idle"]
    /\ current = [r \in Requests |-> NoBlock]
    /\ next = [r \in Requests |-> NoBlock]
    /\ seq = [r \in Requests |-> 0]
    /\ todo = [r \in Requests |-> 0]
    /\ pos = [r \in Requests |-> 0]
    /\ atEOF = [r \in Requests |-> FALSE]
    /\ abandoned = [r \in Requests |-> FALSE]
    /\ finalized = [r \in Requests |-> FALSE]
    /\ closing = [r \in Requests |-> FALSE]
    /\ drops = [r \in Requests |-> 0]

GoTo(r, p) == pc' = [pc EXCEPT ![r] = p]

\* Where r goes when Read, or finish, has nothing left to do.
AfterCapture(r) == IF atEOF[r] THEN "finish" ELSE "idle"
Return(r) == IF closing[r] THEN "closed" ELSE "idle"

\* Mutants of GiveUp: capture goes on after a drop; the drop is counted only
\* when there is a block to abort with.
GiveUpAndGoOn(r) ==
    /\ drops' = [drops EXCEPT ![r] = @ + 1]
    /\ todo' = [todo EXCEPT ![r] = 0]
    /\ UNCHANGED abandoned
GiveUpUncounted(r) ==
    /\ drops' = IF current[r] = NoBlock THEN drops ELSE [drops EXCEPT ![r] = @ + 1]
    /\ abandoned' = [abandoned EXCEPT ![r] = TRUE]
    /\ todo' = [todo EXCEPT ![r] = 0]

\* The tail every failed capture shares: count the drop, stop capturing.
GiveUp(r) ==
    /\ drops' = [drops EXCEPT ![r] = @ + 1]
    /\ abandoned' = [abandoned EXCEPT ![r] = TRUE]
    /\ todo' = [todo EXCEPT ![r] = 0]

\* Read: src yields n units, with EOF when they are the last.  An abandoned
\* reader captures nothing; a finalized one has nothing left to finish.
Read(r, n, eof) ==
    /\ pc[r] = "idle"
    /\ ~closing[r]
    /\ n <= body[r] - pos[r]
    /\ eof => pos[r] + n = body[r]
    /\ n > 0 \/ (eof /\ ~abandoned[r] /\ ~finalized[r])
    /\ pos' = [pos EXCEPT ![r] = @ + n]
    /\ IF abandoned[r]
       THEN UNCHANGED <<pc, todo, atEOF>>
       ELSE /\ todo' = [todo EXCEPT ![r] = n]
            /\ atEOF' = [atEOF EXCEPT ![r] = eof]
            /\ GoTo(r, IF n = 0 THEN "finish"
                       ELSE IF current[r] = NoBlock THEN "get" ELSE "write")
    /\ UNCHANGED <<body, current, next, seq, abandoned, finalized, closing,
                   drops, poolVars, queueVars>>

\* capture, no current block: the pool hands one out ...
GetCurrent(r) ==
    /\ pc[r] = "get"
    /\ \E b \in pool :
         /\ Get(b, FreshBlock(r, seq[r], FALSE))
         /\ current' = [current EXCEPT ![r] = b]
    /\ seq' = [seq EXCEPT ![r] = @ + 1]
    /\ GoTo(r, "write")
    /\ UNCHANGED <<body, next, todo, pos, atEOF, abandoned, finalized,
                   closing, drops, queueVars>>

\* ... or is exhausted: abandon with no current block, hence no abort signal.
GetCurrentFails(r) ==
    /\ pc[r] = "get"
    /\ Exhausted
    /\ GiveUp(r)
    /\ GoTo(r, "idle")
    /\ UNCHANGED <<body, current, next, seq, pos, atEOF, finalized, closing,
                   poolVars, queueVars>>

\* current.Write(data): what fits is copied; a full block is to be sent.
WriteBlock(r) ==
    LET b == current[r]
        n == IF todo[r] <= Remaining(b) THEN todo[r] ELSE Remaining(b)
        from == pos[r] - todo[r]
        full == n = Remaining(b)
    IN  /\ pc[r] = "write"
        /\ blk' = [blk EXCEPT ![b] = Fill(@, [i \in 1..n |-> from + i])]
        /\ todo' = [todo EXCEPT ![r] = @ - n]
        /\ GoTo(r, IF ~full THEN AfterCapture(r)
                   ELSE IF todo[r] > n THEN "next" ELSE "send")
        /\ UNCHANGED <<body, current, next, seq, pos, atEOF, abandoned,
                       finalized, closing, drops, pool, queueVars>>

\* More data than the full block takes: the following block must be in hand
\* before the full one is sent.
GetNext(r) ==
    /\ pc[r] = "next"
    /\ \E b \in pool :
         /\ Get(b, ResetBlock)
         /\ next' = [next EXCEPT ![r] = b]
    /\ GoTo(r, "send")
    /\ UNCHANGED <<body, current, seq, todo, pos, atEOF, abandoned,
                   finalized, closing, drops, queueVars>>

GetNextFails(r) ==
    /\ pc[r] = "next"
    /\ Exhausted
    /\ blk' = [blk EXCEPT ![current[r]] = MarkAbort(@)]
    /\ GoTo(r, "abort")
    /\ UNCHANGED <<body, current, next, seq, todo, pos, atEOF, abandoned,
                   finalized, closing, drops, pool, queueVars>>

\* Mutant of Advance: a.current = nil is forgotten after the send.
AdvanceKeepingCurrent(r) ==
    /\ current' = [current EXCEPT ![r] = IF next[r] = NoBlock THEN @ ELSE next[r]]
    /\ next' = [next EXCEPT ![r] = NoBlock]

\* After the send: next takes current's place, if capture took one.
Advance(r) ==
    /\ current' = [current EXCEPT ![r] = next[r]]
    /\ next' = [next EXCEPT ![r] = NoBlock]

\* The full block goes out and capture carries on, in `next` if there is one.
SendFull(r) ==
    /\ pc[r] = "send"
    /\ CanSend
    /\ Enqueue(current[r])
    /\ Advance(r)
    /\ IF next[r] = NoBlock
       THEN GoTo(r, AfterCapture(r)) /\ UNCHANGED <<blk, seq>>
       ELSE /\ blk' = [blk EXCEPT ![next[r]] = Tag(@, r, seq[r])]
            /\ seq' = [seq EXCEPT ![r] = @ + 1]
            /\ GoTo(r, "write")
    /\ UNCHANGED <<body, todo, pos, atEOF, abandoned, finalized, closing,
                   drops, pool>>

\* The queue is full or closed.  With a next block in hand both go back to the
\* pool; without one abandon marks the block and tries to send it once more.
SendFullFails(r) ==
    /\ pc[r] = "send"
    /\ SendFails
    /\ IF next[r] # NoBlock
       THEN GoTo(r, "release") /\ UNCHANGED blk
       ELSE /\ blk' = [blk EXCEPT ![current[r]] = MarkAbort(@)]
            /\ GoTo(r, "abort")
    /\ UNCHANGED <<body, current, next, seq, todo, pos, atEOF, abandoned,
                   finalized, closing, drops, pool, queueVars>>

\* The abort signal, the block marked Abort, reaches the queue.
SendAbort(r) ==
    /\ pc[r] = "abort"
    /\ CanSend
    /\ Enqueue(current[r])
    /\ current' = [current EXCEPT ![r] = NoBlock]
    /\ GiveUp(r)
    /\ GoTo(r, "idle")
    /\ UNCHANGED <<body, next, seq, pos, atEOF, finalized, closing, poolVars>>

SendAbortFails(r) ==
    /\ pc[r] = "abort"
    /\ SendFails
    /\ GoTo(r, "release")
    /\ UNCHANGED <<body, current, next, seq, todo, pos, atEOF, abandoned,
                   finalized, closing, drops, poolVars, queueVars>>

\* Giving up with blocks in hand: current goes back, then next, one Put each.
ReleaseCurrent(r) ==
    /\ pc[r] = "release"
    /\ current[r] # NoBlock
    /\ Put(current[r])
    /\ current' = [current EXCEPT ![r] = NoBlock]
    /\ IF next[r] # NoBlock
       THEN UNCHANGED <<pc, todo, drops, abandoned>>
       ELSE GiveUp(r) /\ GoTo(r, "idle")
    /\ UNCHANGED <<body, next, seq, pos, atEOF, finalized, closing, blk,
                   queueVars>>

ReleaseNext(r) ==
    /\ pc[r] = "release"
    /\ current[r] = NoBlock
    /\ Put(next[r])
    /\ next' = [next EXCEPT ![r] = NoBlock]
    /\ GiveUp(r)
    /\ GoTo(r, "idle")
    /\ UNCHANGED <<body, current, seq, pos, atEOF, finalized, closing, blk,
                   queueVars>>

\* finish, from a Read that got EOF or from Close.  The current block becomes
\* the final one; if the body just filled the last block a sentinel must be
\* found for the flag; an empty body has nothing to finalize.
Finish(r) ==
    /\ pc[r] = "finish"
    /\ finalized' = [finalized EXCEPT ![r] = TRUE]
    /\ IF ~finalized[r] /\ current[r] # NoBlock
       THEN /\ blk' = [blk EXCEPT ![current[r]] = MarkFinal(@)]
            /\ GoTo(r, "final")
       ELSE /\ GoTo(r, IF ~finalized[r] /\ seq[r] > 0 THEN "sentinel"
                       ELSE Return(r))
            /\ UNCHANGED blk
    /\ UNCHANGED <<body, current, next, seq, todo, pos, atEOF, abandoned,
                   closing, drops, pool, queueVars>>

GetSentinel(r) ==
    /\ pc[r] = "sentinel"
    /\ \E b \in pool :
         /\ Get(b, FreshBlock(r, seq[r], TRUE))
         /\ next' = [next EXCEPT ![r] = b]
    /\ GoTo(r, "final")
    /\ UNCHANGED <<body, current, seq, todo, pos, atEOF, abandoned,
                   finalized, closing, drops, queueVars>>

GetSentinelFails(r) ==
    /\ pc[r] = "sentinel"
    /\ Exhausted
    /\ GiveUp(r)
    /\ GoTo(r, Return(r))
    /\ UNCHANGED <<body, current, next, seq, pos, atEOF, finalized, closing,
                   poolVars, queueVars>>

\* The block finish sends: current, or the sentinel.
FinalBlock(r) == IF current[r] # NoBlock THEN current[r] ELSE next[r]

\* Mutant of DropFinalBlock: the sentinel stays with the reader.
KeepSentinel(r) == current' = [current EXCEPT ![r] = NoBlock] /\ UNCHANGED next

DropFinalBlock(r) ==
    /\ current' = [current EXCEPT ![r] = NoBlock]
    /\ next' = [next EXCEPT ![r] = NoBlock]

SendFinal(r) ==
    /\ pc[r] = "final"
    /\ CanSend
    /\ Enqueue(FinalBlock(r))
    /\ DropFinalBlock(r)
    /\ GoTo(r, Return(r))
    /\ UNCHANGED <<body, seq, todo, pos, atEOF, abandoned, finalized,
                   closing, drops, poolVars>>

SendFinalFails(r) ==
    /\ pc[r] = "final"
    /\ SendFails
    /\ GoTo(r, "unsent")
    /\ UNCHANGED <<body, current, next, seq, todo, pos, atEOF, abandoned,
                   finalized, closing, drops, poolVars, queueVars>>

\* The final block goes back to the pool.  Only the sentinel's branch marks
\* the reader abandoned; the other one leaves it merely finalized.
PutFinal(r) ==
    /\ pc[r] = "unsent"
    /\ Put(FinalBlock(r))
    /\ DropFinalBlock(r)
    /\ drops' = [drops EXCEPT ![r] = @ + 1]
    /\ abandoned' = [abandoned EXCEPT ![r] = @ \/ current[r] = NoBlock]
    /\ GoTo(r, Return(r))
    /\ UNCHANGED <<body, seq, todo, pos, atEOF, finalized, closing, blk,
                   queueVars>>

\* Close, once: the transport is done with the body, at its end or before it
\* (client gone, upstream write error, dial failure).  An abandoned reader
\* gives back the block it may still hold; any other one finishes.
Close(r) ==
    /\ pc[r] = "idle"
    /\ ~closing[r]
    /\ closing' = [closing EXCEPT ![r] = TRUE]
    /\ IF abandoned[r]
       THEN /\ GoTo(r, "closed")
            /\ IF current[r] = NoBlock
               THEN UNCHANGED <<pool, current>>
               ELSE /\ Put(current[r])
                    /\ current' = [current EXCEPT ![r] = NoBlock]
       ELSE GoTo(r, "finish") /\ UNCHANGED <<pool, current>>
    /\ UNCHANGED <<body, next, seq, todo, pos, atEOF, abandoned, finalized,
                   drops, blk, queueVars>>

\* What the code of Read and Close does once entered: nothing in it waits.
ReaderStep(r) ==
    \/ GetCurrent(r) \/ GetCurrentFails(r) \/ WriteBlock(r)
    \/ GetNext(r) \/ GetNextFails(r)
    \/ SendFull(r) \/ SendFullFails(r) \/ SendAbort(r) \/ SendAbortFails(r)
    \/ ReleaseCurrent(r) \/ ReleaseNext(r)
    \/ Finish(r) \/ GetSentinel(r) \/ GetSentinelFails(r)
    \/ SendFinal(r) \/ SendFinalFails(r) \/ PutFinal(r)

\* What the transport does with the body.
TransportStep(r) ==
    \/ \E n \in 0..MaxBody, eof \in BOOLEAN : Read(r, n, eof)
    \/ Close(r)
=============================================================================
