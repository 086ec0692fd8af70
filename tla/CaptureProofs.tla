--------------------------- MODULE CaptureProofs ---------------------------
(***************************************************************************)
(* Theorems about Capture, for any number of requests and blocks and any   *)
(* sizes.  The first half, with the inductive invariant IInv, is about the *)
(* blocks: each is in one place, and nobody writes to one that another     *)
(* reads.  The second is about the requests: a request has one outcome and *)
(* never none, the assembler's total is the memory it holds, and readers,  *)
(* pool, queue and assembler together implement AuditPromise.  Its         *)
(* inductive invariant, PInv, says of every request where in the body its  *)
(* reader is, which of its blocks are under way and in which order, and    *)
(* how they continue what the assembler's buffer holds.                    *)
(***************************************************************************)
EXTENDS Capture, FoldLemmas

USE DEF ReaderPC

\* Put never meets a full pool: there is room for a block that is not in it.
LEMMA PutHasRoom ==
    ASSUME pool \subseteq Blocks, NEW b \in Blocks, b \notin pool, Put(b)
    PROVE  pool' = pool \cup {b}
<1>1. Cardinality(pool) <= Cardinality(Blocks) /\ Cardinality(Blocks) # Cardinality(pool)
  BY FS_Subset, BlocksAssumption
<1>2. Cardinality(pool) \in Nat /\ Cardinality(Blocks) \in Nat
  BY FS_Subset, FS_CardinalityType, BlocksAssumption
<1> QED
  BY <1>1, <1>2 DEF Put

\* The initial states satisfy the invariant: every block is in the pool.
LEMMA InitIInv == Init => IInv
<1> SUFFICES ASSUME Init PROVE IInv
  OBVIOUS
<1> USE DEF Init, PoolInit, ReaderInit, AsmInit
<1>1. TypeOK
  <2>1. ResetBlock \in AuditBlock
    BY DEF ResetBlock, FreshBlock, AuditBlock, Units
  <2>2. PoolTypeOK
    BY <2>1, BlocksAssumption DEF PoolTypeOK
  <2>3. ReaderTypeOK
    BY BodyAssumption DEF ReaderTypeOK
  <2>4. AsmTypeOK
    BY AssemblerAssumption DEF AsmTypeOK, Counters
  <2> QED
    BY <2>2, <2>3, <2>4 DEF TypeOK
<1>2. BlockConservation
  BY BlocksAssumption DEF BlockConservation, NoneLost, NoneShared, InQueue, WithReader
<1>3. \A r \in Requests : ReaderInv(r)
  BY DEF ReaderInv
<1>4. ContentInv
  BY BlocksAssumption DEF ContentInv, InQueue, ResetBlock, FreshBlock
<1> QED
  BY <1>1, <1>2, <1>3, <1>4 DEF IInv

-----------------------------------------------------------------------------
(* Type correctness is preserved *)

\* What Get hands out, tagged or not, is a block.
LEMMA BlockTypes ==
    /\ \A r \in Requests, n \in Nat, f \in BOOLEAN : FreshBlock(r, n, f) \in AuditBlock
    /\ ResetBlock \in AuditBlock
BY DEF FreshBlock, ResetBlock, AuditBlock, Units

\* What the writes to a block change, and what they leave alone.
LEMMA TagFacts ==
    ASSUME NEW c \in AuditBlock, NEW r \in Requests, NEW s \in Nat
    PROVE  /\ Tag(c, r, s) \in AuditBlock
           /\ Tag(c, r, s).requestID = r /\ Tag(c, r, s).data = c.data
BY DEF Tag, AuditBlock

\* Marking a block final or aborted changes neither its data nor its owner.
LEMMA MarkFacts ==
    ASSUME NEW c \in AuditBlock
    PROVE  /\ MarkFinal(c) \in AuditBlock /\ MarkAbort(c) \in AuditBlock
           /\ MarkFinal(c).requestID = c.requestID /\ MarkFinal(c).data = c.data
           /\ MarkAbort(c).requestID = c.requestID /\ MarkAbort(c).data = c.data
<1>1. MarkFinal(c) \in AuditBlock /\ MarkFinal(c).requestID = c.requestID
      /\ MarkFinal(c).data = c.data
  BY DEF MarkFinal, AuditBlock
<1>2. MarkAbort(c) \in AuditBlock /\ MarkAbort(c).requestID = c.requestID
      /\ MarkAbort(c).data = c.data
  BY DEF MarkAbort, AuditBlock
<1> QED
  BY <1>1, <1>2

\* Write leaves a block of its type, not over-full, and with its owner.
LEMMA FillFacts ==
    ASSUME NEW c \in AuditBlock, NEW u \in Seq(Units)
    PROVE  /\ Fill(c, u) \in AuditBlock
           /\ Fill(c, u).requestID = c.requestID
           /\ Len(Fill(c, u).data) = Len(c.data) + Len(u)
<1>1. c.data \in Seq(Units)
  BY DEF AuditBlock
<1>2. c.data \o u \in Seq(Units) /\ Len(c.data \o u) = Len(c.data) + Len(u)
  BY <1>1
<1>3. Fill(c, u) \in AuditBlock /\ Fill(c, u).requestID = c.requestID
      /\ Fill(c, u).data = c.data \o u
  BY <1>2 DEF Fill, AuditBlock
<1> QED
  BY <1>2, <1>3

\* Every reader step preserves the types of pool, queue and readers.
LEMMA ReaderTypes ==
    ASSUME IInv, NEW r \in Requests, ReaderStep(r) \/ TransportStep(r)
    PROVE  PoolTypeOK' /\ ReaderTypeOK'
<1> USE DEF IInv, TypeOK, PoolTypeOK, ReaderTypeOK, ReaderInv, poolVars, queueVars
<1> USE BlockTypes, BlocksAssumption, BodyAssumption
<1>1. CASE GetCurrent(r)
  <2>1. seq[r] \in Nat /\ FALSE \in BOOLEAN
    OBVIOUS
  <2>2. FreshBlock(r, seq[r], FALSE) \in AuditBlock
    BY <2>1
  <2>3. PICK b \in pool : /\ Get(b, FreshBlock(r, seq[r], FALSE))
                          /\ current' = [current EXCEPT ![r] = b]
    BY <1>1 DEF GetCurrent
  <2>4. PoolTypeOK'
    BY <1>1, <2>2, <2>3 DEF GetCurrent, Get
  <2>5. ReaderTypeOK'
    <3>1. /\ seq' = [seq EXCEPT ![r] = @ + 1] /\ GoTo(r, "write")
          /\ UNCHANGED <<body, next, todo, pos, atEOF, abandoned, finalized,
                         closing, drops>>
      BY <1>1 DEF GetCurrent
    <3>2. current' \in [Requests -> Blocks \cup {NoBlock}]
      BY <2>3
    <3>3. seq' \in [Requests -> Nat] /\ pc' \in [Requests -> ReaderPC]
      BY <3>1 DEF GoTo
    <3> QED
      BY <3>1, <3>2, <3>3
  <2> QED
    BY <2>4, <2>5
<1>2. CASE GetCurrentFails(r)
  BY <1>2 DEF GetCurrentFails, GiveUp, GoTo
<1>3. CASE WriteBlock(r)
  <2> DEFINE b == current[r]
             n == IF todo[r] <= Remaining(b) THEN todo[r] ELSE Remaining(b)
             from == pos[r] - todo[r]
  <2>1. b \in Blocks /\ n \in 0..todo[r] /\ from \in Nat
    <3>1. b \in Blocks
      BY <1>3 DEF WriteBlock
    <3>2. Len(blk[b].data) \in Nat /\ Len(blk[b].data) <= BlockSize
      BY <3>1 DEF ContentInv, AuditBlock
    <3> QED
      BY <3>1, <3>2, SMTT(30) DEF Remaining
  <2>2. [i \in 1..n |-> from + i] \in Seq(Units)
    <3> HIDE DEF n, from
    <3>1. \A i \in 1..n : from + i \in Units
      BY <2>1 DEF Units
    <3> QED
      BY <2>1, <3>1
  <2>3. blk' \in [Blocks -> AuditBlock]
    <3> HIDE DEF n, from
    <3>1. blk' = [blk EXCEPT ![b] = Fill(@, [i \in 1..n |-> from + i])]
      BY <1>3 DEF WriteBlock, n, from
    <3>2. Fill(blk[b], [i \in 1..n |-> from + i]) \in AuditBlock
      <4>1. blk[b] \in AuditBlock
        BY <2>1
      <4> QED
        BY <2>2, <4>1, FillFacts
    <3> QED
      BY <3>1, <3>2
  <2>4. todo' \in [Requests -> 0..MaxBody]
    BY <1>3, <2>1 DEF WriteBlock
  <2>5. pc' \in [Requests -> ReaderPC]
    BY <1>3 DEF WriteBlock, GoTo, AfterCapture
  <2> QED
    BY <1>3, <2>3, <2>4, <2>5 DEF WriteBlock
<1>4. CASE GetNext(r)
  BY <1>4 DEF GetNext, Get, GoTo
<1>5. CASE GetNextFails(r)
  BY <1>5, MarkFacts DEF GetNextFails, GoTo
<1>6. CASE SendFull(r)
  <2>1. current[r] \in Blocks
    BY <1>6 DEF SendFull
  <2>2. queue' \in Seq(Blocks) /\ Len(queue') <= QueueCap
    BY <1>6, <2>1 DEF SendFull, CanSend, Enqueue
  <2>3. blk' \in [Blocks -> AuditBlock]
    <3>1. CASE next[r] = NoBlock
      BY <1>6, <3>1 DEF SendFull
    <3>2. CASE next[r] # NoBlock
      <4>1. next[r] \in Blocks /\ seq[r] \in Nat
        BY <3>2
      <4>2. blk' = [blk EXCEPT ![next[r]] = Tag(@, r, seq[r])]
        BY <1>6, <3>2 DEF SendFull
      <4> QED
        BY <4>1, <4>2, TagFacts
    <3> QED
      BY <3>1, <3>2
  <2>4. PoolTypeOK'
    BY <1>6, <2>2, <2>3 DEF SendFull, Enqueue
  <2>5. pc' \in [Requests -> ReaderPC] /\ seq' \in [Requests -> Nat]
    <3>1. CASE next[r] = NoBlock
      BY <1>6, <3>1 DEF SendFull, GoTo, AfterCapture
    <3>2. CASE next[r] # NoBlock
      <4>1. GoTo(r, "write") /\ seq' = [seq EXCEPT ![r] = @ + 1]
        BY <1>6, <3>2 DEF SendFull
      <4> QED
        BY <4>1 DEF GoTo
    <3> QED
      BY <3>1, <3>2
  <2>6. ReaderTypeOK'
    BY <1>6, <2>5 DEF SendFull, Advance
  <2> QED
    BY <2>4, <2>6
<1>7. CASE SendFullFails(r)
  <2>1. blk' \in [Blocks -> AuditBlock]
    <3>1. CASE next[r] # NoBlock
      BY <1>7, <3>1 DEF SendFullFails
    <3>2. CASE next[r] = NoBlock
      <4>1. blk' = [blk EXCEPT ![current[r]] = MarkAbort(@)]
        BY <1>7, <3>2 DEF SendFullFails
      <4> QED
        BY <1>7, <4>1, MarkFacts DEF SendFullFails
    <3> QED
      BY <3>1, <3>2
  <2>2. pc' \in [Requests -> ReaderPC]
    BY <1>7 DEF SendFullFails, GoTo
  <2> QED
    BY <1>7, <2>1, <2>2 DEF SendFullFails
<1>8. CASE SendAbort(r)
  <2>1. current[r] \in Blocks
    BY <1>8 DEF SendAbort
  <2>2. queue' \in Seq(Blocks) /\ Len(queue') <= QueueCap
    BY <1>8, <2>1 DEF SendAbort, CanSend, Enqueue
  <2>3. PoolTypeOK'
    BY <1>8, <2>2 DEF SendAbort, Enqueue
  <2>4. ReaderTypeOK'
    BY <1>8, SMTT(30) DEF SendAbort, GiveUp, GoTo
  <2> QED
    BY <2>3, <2>4
<1>9. CASE SendAbortFails(r)
  BY <1>9 DEF SendAbortFails, GoTo
<1>10. CASE ReleaseCurrent(r)
  <2>1. pool' \subseteq Blocks
    BY <1>10 DEF ReleaseCurrent, Put
  <2>2. /\ pc' \in [Requests -> ReaderPC] /\ todo' \in [Requests -> 0..MaxBody]
        /\ drops' \in [Requests -> Nat] /\ abandoned' \in [Requests -> BOOLEAN]
    <3>1. CASE next[r] # NoBlock
      BY <1>10, <3>1 DEF ReleaseCurrent
    <3>2. CASE next[r] = NoBlock
      <4>1. GiveUp(r) /\ GoTo(r, "idle")
        BY <1>10, <3>2 DEF ReleaseCurrent
      <4> QED
        BY <4>1 DEF GiveUp, GoTo
    <3> QED
      BY <3>1, <3>2
  <2> QED
    BY <1>10, <2>1, <2>2 DEF ReleaseCurrent
<1>11. CASE ReleaseNext(r)
  <2>1. PoolTypeOK'
    BY <1>11 DEF ReleaseNext, Put
  <2>2. /\ GiveUp(r) /\ GoTo(r, "idle") /\ next' = [next EXCEPT ![r] = NoBlock]
        /\ UNCHANGED <<body, current, seq, pos, atEOF, finalized, closing>>
    BY <1>11 DEF ReleaseNext
  <2>3. /\ todo' \in [Requests -> 0..MaxBody] /\ abandoned' \in [Requests -> BOOLEAN]
        /\ drops' \in [Requests -> Nat]
    BY <2>2 DEF GiveUp
  <2>4. /\ pc' \in [Requests -> ReaderPC]
        /\ next' \in [Requests -> Blocks \cup {NoBlock}]
    BY <2>2 DEF GoTo
  <2> QED
    BY <2>1, <2>2, <2>3, <2>4
<1>12. CASE Finish(r)
  <2>1. blk' \in [Blocks -> AuditBlock]
    <3>1. CASE ~finalized[r] /\ current[r] # NoBlock
      <4>1. blk' = [blk EXCEPT ![current[r]] = MarkFinal(@)] /\ current[r] \in Blocks
        BY <1>12, <3>1 DEF Finish
      <4> QED
        BY <4>1, MarkFacts
    <3>2. CASE ~(~finalized[r] /\ current[r] # NoBlock)
      BY <1>12, <3>2 DEF Finish
    <3> QED
      BY <3>1, <3>2
  <2>2. pc' \in [Requests -> ReaderPC]
    BY <1>12 DEF Finish, GoTo, Return
  <2> QED
    BY <1>12, <2>1, <2>2 DEF Finish
<1>13. CASE GetSentinel(r)
  <2>1. seq[r] \in Nat /\ TRUE \in BOOLEAN
    OBVIOUS
  <2>2. FreshBlock(r, seq[r], TRUE) \in AuditBlock
    BY <2>1
  <2>3. PICK b \in pool : /\ Get(b, FreshBlock(r, seq[r], TRUE))
                          /\ next' = [next EXCEPT ![r] = b]
    BY <1>13 DEF GetSentinel
  <2>4. PoolTypeOK'
    BY <1>13, <2>2, <2>3 DEF GetSentinel, Get
  <2>5. ReaderTypeOK'
    BY <1>13, <2>3 DEF GetSentinel, GoTo
  <2> QED
    BY <2>4, <2>5
<1>14. CASE GetSentinelFails(r)
  BY <1>14, SMTT(30) DEF GetSentinelFails, GiveUp, GoTo, Return
<1>15. CASE SendFinal(r)
  BY <1>15 DEF SendFinal, CanSend, Enqueue, FinalBlock, DropFinalBlock, GoTo, Return
<1>16. CASE SendFinalFails(r)
  BY <1>16 DEF SendFinalFails, GoTo
<1>17. CASE PutFinal(r)
  BY <1>17 DEF PutFinal, Put, FinalBlock, DropFinalBlock, GoTo, Return
<1>18. CASE Close(r)
  BY <1>18 DEF Close, Put, GoTo
<1>19. CASE \E n \in 0..MaxBody, eof \in BOOLEAN : Read(r, n, eof)
  <2>1. PICK n \in 0..MaxBody, eof \in BOOLEAN : Read(r, n, eof)
    BY <1>19
  <2>2. pos' \in [Requests -> 0..MaxBody]
    BY <2>1 DEF Read
  <2>3. /\ pc' \in [Requests -> ReaderPC] /\ todo' \in [Requests -> 0..MaxBody]
        /\ atEOF' \in [Requests -> BOOLEAN]
    <3>1. CASE abandoned[r]
      BY <2>1, <3>1 DEF Read
    <3>2. CASE ~abandoned[r]
      <4>1. /\ todo' = [todo EXCEPT ![r] = n]
            /\ atEOF' = [atEOF EXCEPT ![r] = eof]
            /\ GoTo(r, IF n = 0 THEN "finish"
                       ELSE IF current[r] = NoBlock THEN "get" ELSE "write")
        BY <2>1, <3>2 DEF Read
      <4> QED
        BY <4>1 DEF GoTo
    <3> QED
      BY <3>1, <3>2
  <2> QED
    BY <2>1, <2>2, <2>3 DEF Read
<1> QED
  BY <1>1, <1>2, <1>3, <1>4, <1>5, <1>6, <1>7, <1>8, <1>9, <1>10, <1>11,
     <1>12, <1>13, <1>14, <1>15, <1>16, <1>17, <1>18, <1>19
     DEF ReaderStep, TransportStep

\* The block in the assembler's hand and what it would be appended to.
LEMMA HandFacts ==
    ASSUME IInv, hand # NoBlock
    PROVE  /\ hand \in Blocks /\ Rid \in Requests
           /\ BufferOf(Rid) \in PayloadBuffer
           /\ Appended \in Seq(Units) /\ NewBytes \in Int
<1>1. hand \in Blocks
  BY DEF IInv, TypeOK, AsmTypeOK
<1>2. blk[hand] \in AuditBlock /\ blk[hand].requestID \in Requests
  BY <1>1 DEF IInv, TypeOK, PoolTypeOK, ContentInv
<1>3. blk[hand].data \in Seq(Units)
  BY <1>2 DEF AuditBlock
<1>4. BufferOf(Rid) \in PayloadBuffer
  BY DEF IInv, TypeOK, AsmTypeOK, BufferOf, PayloadBuffer
<1>5. Appended \in Seq(Units)
  BY <1>3, <1>4 DEF Appended, PayloadBuffer
<1>6. NewBytes \in Int
  BY <1>3 DEF NewBytes, IInv, TypeOK, AsmTypeOK
<1> QED
  BY <1>1, <1>2, <1>4, <1>5, <1>6 DEF Rid

\* Discarding a buffer preserves the types of the assembler's map and total.
LEMMA DiscardTypes ==
    ASSUME IInv, NEW r \in Requests, Discard(r)
    PROVE  /\ DOMAIN inflight' \subseteq Requests
           /\ \A q \in DOMAIN inflight' : inflight'[q] \in PayloadBuffer
           /\ inflightBytes' \in Int
<1>1. Held(r) \in Int
  BY DEF Held, PayloadBuffer, IInv, TypeOK, AsmTypeOK
<1> QED
  BY <1>1 DEF Discard, IInv, TypeOK, AsmTypeOK

\* Counting a loss preserves the type of the statistics.
LEMMA CountTypes ==
    ASSUME IInv, NEW r \in Requests, NEW c \in Counters, Count(c, r)
    PROVE  stats' \in [Requests -> [Counters -> Nat]]
BY DEF Count, IInv, TypeOK, AsmTypeOK

\* Every assembler step preserves the types of pool, queue and assembler.
LEMMA AsmTypes ==
    ASSUME IInv, AsmStep \/ WorkerTake
    PROVE  PoolTypeOK' /\ AsmTypeOK'
<1> USE DEF IInv, TypeOK, PoolTypeOK, AsmTypeOK, poolVars, queueVars
<1> USE BlocksAssumption, AssemblerAssumption
<1>1. CASE AsmReceive
  BY <1>1 DEF AsmReceive
<1>2. CASE AsmExit
  <2>1. DOMAIN inflight' = {}
    BY <1>2 DEF AsmExit
  <2> QED
    BY <1>2, <2>1 DEF AsmExit
<1>3. CASE WorkerTake
  BY <1>3 DEF WorkerTake
<1>4. ASSUME NEW r \in Requests, SweepStale(r) PROVE PoolTypeOK' /\ AsmTypeOK'
  <2>1. "staleDropped" \in Counters
    BY DEF Counters
  <2>2. Count("staleDropped", r) /\ Discard(r)
    BY <1>4 DEF SweepStale, Stale
  <2> QED
    BY <1>4, <2>1, <2>2, DiscardTypes, CountTypes DEF SweepStale, Stale
<1>5. CASE ProcessBlock
  <2>1. PutHand
    BY <1>5 DEF ProcessBlock, AsmAbort, AsmRefuse, AsmOutOfOrder, AsmTooMuch,
               AsmAppend, AsmDispatch, AsmWorkerFull
  <2>2. PoolTypeOK' /\ hand' = NoBlock /\ running' = running /\ hand # NoBlock
    BY <2>1 DEF PutHand, Put
  <2>3. /\ Rid \in Requests /\ BufferOf(Rid) \in PayloadBuffer
        /\ Appended \in Seq(Units) /\ NewBytes \in Int
    BY <2>2, HandFacts
  <2>4. "budgetExceeded" \in Counters /\ "oversizedDropped" \in Counters
        /\ "workerQueueFull" \in Counters
    BY DEF Counters
  <2> HIDE DEF IInv, Counters
  <2>5. CASE AsmAbort
    BY <2>2, <2>3, <2>5, DiscardTypes DEF AsmAbort, IInv
  <2>6. CASE AsmRefuse
    BY <2>2, <2>3, <2>4, <2>6, CountTypes DEF AsmRefuse, IInv
  <2>7. CASE AsmOutOfOrder
    BY <2>2, <2>3, <2>7, DiscardTypes DEF AsmOutOfOrder, IInv
  <2>8. CASE AsmTooMuch
    BY <2>2, <2>3, <2>4, <2>8, DiscardTypes, CountTypes DEF AsmTooMuch, IInv
  <2>9. CASE AsmAppend
    <3>1. /\ inflight' = [r \in DOMAIN inflight \cup {Rid} |->
              IF r = Rid THEN [data |-> Appended, nextSeq |-> BufferOf(r).nextSeq + 1]
              ELSE inflight[r]]
          /\ inflightBytes' = NewBytes
          /\ UNCHANGED <<workerInput, stats, dispatched>>
      BY <2>9 DEF AsmAppend
    <3>2. [data |-> Appended, nextSeq |-> BufferOf(Rid).nextSeq + 1] \in PayloadBuffer
      BY <2>3 DEF PayloadBuffer
    <3> QED
      BY <2>2, <2>3, <3>1, <3>2 DEF IInv
  <2>10. CASE AsmDispatch
    <3>1. /\ Discard(Rid) /\ UNCHANGED stats
          /\ Len(workerInput) < WorkerCap
          /\ workerInput' = Append(workerInput, Rid)
          /\ dispatched' = [dispatched EXCEPT
                 ![Rid] = Append(@, [data |-> Appended, complete |-> TRUE])]
      BY <2>10 DEF AsmDispatch
    <3>2. [data |-> Appended, complete |-> TRUE] \in AssembledPayload
      BY <2>3 DEF AssembledPayload
    <3>3. dispatched' \in [Requests -> Seq(AssembledPayload)]
      BY <2>3, <3>1, <3>2 DEF IInv
    <3> QED
      BY <2>2, <2>3, <3>1, <3>3, DiscardTypes DEF IInv
  <2>11. CASE AsmWorkerFull
    BY <2>2, <2>3, <2>4, <2>11, DiscardTypes, CountTypes DEF AsmWorkerFull, IInv
  <2> QED
    BY <1>5, <2>5, <2>6, <2>7, <2>8, <2>9, <2>10, <2>11 DEF ProcessBlock
<1> QED
  BY <1>1, <1>2, <1>3, <1>4, <1>5 DEF AsmStep

\* Every step of the composed system: what its components see of it.
LEMMA TypeStep == IInv /\ [Next]_vars => TypeOK'
<1> SUFFICES ASSUME IInv, [Next]_vars PROVE TypeOK'
  OBVIOUS
<1>1. CASE Readers
  <2>1. PICK r \in Requests : ReaderStep(r) \/ TransportStep(r)
    BY <1>1 DEF Readers
  <2>2. PoolTypeOK' /\ ReaderTypeOK'
    BY <2>1, ReaderTypes
  <2>3. AsmTypeOK'
    BY <1>1 DEF Readers, asmVars, IInv, TypeOK, AsmTypeOK
  <2> QED
    BY <2>2, <2>3 DEF TypeOK
<1>2. CASE Asm
  <2>1. PoolTypeOK' /\ AsmTypeOK'
    BY <1>2, AsmTypes DEF Asm
  <2>2. ReaderTypeOK'
    BY <1>2 DEF Asm, readerVars, IInv, TypeOK, ReaderTypeOK
  <2> QED
    BY <2>1, <2>2 DEF TypeOK
<1>3. CASE Shutdown \/ Terminating \/ UNCHANGED vars
  BY <1>3 DEF Shutdown, CloseQueue, Terminating, vars, poolVars, queueVars,
     readerVars, asmVars, IInv, TypeOK, PoolTypeOK, ReaderTypeOK, AsmTypeOK
<1> QED
  BY <1>1, <1>2, <1>3 DEF Next

-----------------------------------------------------------------------------
(* What a reader's program counter says of the blocks it holds *)

\* Every step preserves what the program counters say of the readers.
LEMMA ReaderInvStep ==
    ASSUME IInv, NEW r \in Requests, ReaderStep(r) \/ TransportStep(r)
    PROVE  ReaderInv(r)'
<1> USE DEF IInv, TypeOK, PoolTypeOK, ReaderTypeOK, ReaderInv
<1> USE BlocksAssumption
<1>1. CASE GetCurrent(r)
  <2>1. PICK b \in pool : current' = [current EXCEPT ![r] = b]
    BY <1>1 DEF GetCurrent
  <2> QED
    BY <1>1, <2>1 DEF GetCurrent, GoTo
<1>2. CASE GetCurrentFails(r)
  <2>1. todo'[r] = 0 /\ abandoned'[r] = TRUE /\ pc'[r] = "idle"
    BY <1>2 DEF GetCurrentFails, GiveUp, GoTo
  <2>2. pos[r] \in Nat
    OBVIOUS
  <2> QED
    BY <1>2, <2>1, <2>2 DEF GetCurrentFails
<1>3. CASE WriteBlock(r)
  <2> DEFINE b == current[r]
             n == IF todo[r] <= Remaining(b) THEN todo[r] ELSE Remaining(b)
  <2>1. n \in 0..todo[r]
    <3>1. b \in Blocks
      BY <1>3 DEF WriteBlock
    <3>2. Len(blk[b].data) \in Nat /\ Len(blk[b].data) <= BlockSize
      BY <3>1 DEF ContentInv, AuditBlock
    <3> QED
      BY <3>1, <3>2 DEF Remaining
  <2>2. todo'[r] = todo[r] - n
    BY <1>3 DEF WriteBlock
  <2>3. todo'[r] <= pos[r]
    <3> HIDE DEF n
    <3> QED
      BY <2>1, <2>2
  <2>4. /\ pc[r] = "write"
        /\ pc'[r] \in {AfterCapture(r), "next", "send"}
        /\ UNCHANGED <<body, current, next, pos, atEOF, abandoned, finalized, closing>>
    BY <1>3 DEF WriteBlock, GoTo
  <2> QED
    BY <2>3, <2>4 DEF AfterCapture
<1>4. CASE GetNext(r)
  <2>1. PICK b \in pool : next' = [next EXCEPT ![r] = b]
    BY <1>4 DEF GetNext
  <2> QED
    BY <1>4, <2>1 DEF GetNext, GoTo
<1>5. CASE GetNextFails(r)
  BY <1>5 DEF GetNextFails, GoTo
<1>6. CASE SendFull(r)
  <2>1. /\ current'[r] = next[r] /\ next'[r] = NoBlock /\ ~abandoned[r] /\ ~finalized[r]
        /\ UNCHANGED <<body, todo, pos, atEOF, abandoned, finalized, closing>>
    BY <1>6 DEF SendFull, Advance
  <2>2. CASE next[r] = NoBlock
    <3>1. pc'[r] = AfterCapture(r)
      BY <1>6, <2>2 DEF SendFull, GoTo
    <3> QED
      BY <1>6, <2>1, <2>2, <3>1 DEF AfterCapture, SendFull
  <2>3. CASE next[r] # NoBlock
    <3>1. pc'[r] = "write"
      BY <1>6, <2>3 DEF SendFull, GoTo
    <3> QED
      BY <2>1, <2>3, <3>1
  <2> QED
    BY <2>2, <2>3
<1>7. CASE SendFullFails(r)
  <2>1. /\ pc[r] = "send"
        /\ UNCHANGED <<body, current, next, todo, pos, atEOF, abandoned,
                       finalized, closing>>
    BY <1>7 DEF SendFullFails
  <2>2. pc'[r] = IF next[r] # NoBlock THEN "release" ELSE "abort"
    BY <1>7 DEF SendFullFails, GoTo
  <2> QED
    BY <2>1, <2>2
<1>8. CASE SendAbort(r)
  <2>1. todo'[r] = 0 /\ abandoned'[r] = TRUE /\ pc'[r] = "idle"
    BY <1>8 DEF SendAbort, GiveUp, GoTo
  <2>2. pos[r] \in Nat
    OBVIOUS
  <2> QED
    <3>1. /\ pc[r] = "abort" /\ current'[r] = NoBlock
          /\ UNCHANGED <<body, next, pos, atEOF, finalized, closing>>
      BY <1>8 DEF SendAbort
    <3>2. next[r] = NoBlock /\ ~finalized[r]
      BY <3>1
    <3> QED
      BY <2>1, <2>2, <3>1, <3>2
<1>9. CASE SendAbortFails(r)
  BY <1>9 DEF SendAbortFails, GoTo
<1>10. CASE ReleaseCurrent(r)
  BY <1>10 DEF ReleaseCurrent, GiveUp, GoTo
<1>11. CASE ReleaseNext(r)
  BY <1>11 DEF ReleaseNext, GiveUp, GoTo
<1>12. CASE Finish(r)
  BY <1>12 DEF Finish, GoTo, Return
<1>13. CASE GetSentinel(r)
  <2>1. PICK b \in pool : next' = [next EXCEPT ![r] = b]
    BY <1>13 DEF GetSentinel
  <2> QED
    BY <1>13, <2>1 DEF GetSentinel, GoTo
<1>14. CASE GetSentinelFails(r)
  <2>1. todo'[r] = 0 /\ abandoned'[r] = TRUE /\ pc'[r] = Return(r)
    BY <1>14 DEF GetSentinelFails, GiveUp, GoTo
  <2>2. pos[r] \in Nat
    OBVIOUS
  <2> QED
    <3>1. /\ pc[r] = "sentinel"
          /\ UNCHANGED <<body, current, next, pos, atEOF, finalized, closing>>
      BY <1>14 DEF GetSentinelFails
    <3>2. next[r] = NoBlock /\ current[r] = NoBlock
      BY <3>1
    <3>3. pc'[r] \in {"idle", "closed"}
      BY <2>1 DEF Return
    <3> QED
      BY <2>1, <2>2, <3>1, <3>2, <3>3
<1>15. CASE SendFinal(r)
  BY <1>15 DEF SendFinal, DropFinalBlock, GoTo, Return
<1>16. CASE SendFinalFails(r)
  BY <1>16 DEF SendFinalFails, GoTo
<1>17. CASE PutFinal(r)
  BY <1>17 DEF PutFinal, DropFinalBlock, GoTo, Return
<1>18. CASE Close(r)
  BY <1>18 DEF Close, GoTo
<1>19. CASE \E n \in 0..MaxBody, eof \in BOOLEAN : Read(r, n, eof)
  <2>1. PICK n \in 0..MaxBody, eof \in BOOLEAN : Read(r, n, eof)
    BY <1>19
  <2>2. CASE abandoned[r]
    <3>1. /\ pc[r] = "idle" /\ n > 0 /\ n <= body[r] - pos[r]
          /\ pos'[r] = pos[r] + n
          /\ UNCHANGED <<pc, todo, atEOF, body, current, next, abandoned, finalized,
                         closing>>
      BY <2>1, <2>2 DEF Read
    <3>2. ~atEOF[r] /\ pos'[r] <= body[r] /\ todo[r] <= pos'[r]
      BY <3>1
    <3>3. finalized[r] => closing[r]
      BY <3>1
    <3> QED
      BY <2>2, <3>1, <3>2, <3>3
  <2>3. CASE ~abandoned[r]
    <3>1. /\ pc[r] = "idle" /\ ~closing[r] /\ n <= body[r] - pos[r]
          /\ eof => pos[r] + n = body[r]
          /\ n > 0 \/ (eof /\ ~finalized[r])
          /\ UNCHANGED <<body, current, next, abandoned, finalized, closing>>
      BY <2>1, <2>3 DEF Read
    <3>2. pos'[r] = pos[r] + n /\ todo'[r] = n /\ atEOF'[r] = eof
      BY <2>1, <2>3 DEF Read
    <3>3. pc'[r] = IF n = 0 THEN "finish"
                   ELSE IF current[r] = NoBlock THEN "get" ELSE "write"
      BY <2>1, <2>3 DEF Read, GoTo
    <3>4. ~finalized[r]
      BY <3>1
    <3>5. pos'[r] <= body[r] /\ todo'[r] <= pos'[r] /\ (eof => pos'[r] = body[r])
      BY <3>1, <3>2
    <3>6. next[r] = NoBlock
      BY <3>1
    <3>7. atEOF'[r] => pos'[r] = body'[r]
      BY <3>1, <3>2, <3>5
    <3>8. pc'[r] = "finish" => closing'[r] \/ atEOF'[r]
      BY <3>1, <3>2, <3>3
    <3> QED
      BY <2>3, <3>1, <3>3, <3>4, <3>5, <3>6, <3>7, <3>8
  <2> QED
    BY <2>2, <2>3
<1> QED
  BY <1>1, <1>2, <1>3, <1>4, <1>5, <1>6, <1>7, <1>8, <1>9, <1>10, <1>11,
     <1>12, <1>13, <1>14, <1>15, <1>16, <1>17, <1>18, <1>19
     DEF ReaderStep, TransportStep

-----------------------------------------------------------------------------
(* A block is in one place: what each way of moving one does to that *)

Places == <<pool, queue, current, next, hand>>

\* A step that moves no block preserves conservation.
LEMMA Unmoved == BlockConservation /\ UNCHANGED Places => BlockConservation'
BY DEF Places, BlockConservation, NoneLost, NoneShared, InQueue, WithReader

\* Who is in the queue after a send and after a receive.
LEMMA AfterSend ==
    ASSUME queue \in Seq(Blocks), NEW b \in Blocks, queue' = Append(queue, b)
    PROVE  /\ \A c \in Blocks : InQueue(c)' <=> InQueue(c) \/ c = b
           /\ DOMAIN queue' = 1..(Len(queue) + 1)
           /\ \A i \in DOMAIN queue : queue'[i] = queue[i]
           /\ queue'[Len(queue) + 1] = b
<1>1. DOMAIN queue = 1..Len(queue) /\ Len(queue) \in Nat
  OBVIOUS
<1>2. DOMAIN queue' = 1..(Len(queue) + 1)
  OBVIOUS
<1>3. /\ \A i \in DOMAIN queue : queue'[i] = queue[i]
      /\ queue'[Len(queue) + 1] = b
  OBVIOUS
<1>4. \A c \in Blocks : InQueue(c)' <=> InQueue(c) \/ c = b
  BY <1>1, <1>2, <1>3 DEF InQueue
<1> QED
  BY <1>2, <1>3, <1>4

\* Receiving takes one block off the queue, the others stay in it.
LEMMA AfterReceive ==
    ASSUME queue \in Seq(Blocks), queue # <<>>, queue' = Tail(queue)
    PROVE  /\ \A c \in Blocks : InQueue(c) <=> InQueue(c)' \/ c = Head(queue)
           /\ DOMAIN queue' = 1..(Len(queue) - 1)
           /\ \A i \in DOMAIN queue' : queue'[i] = queue[i + 1] /\ i + 1 \in DOMAIN queue
           /\ Head(queue) = queue[1] /\ 1 \in DOMAIN queue
<1>1. DOMAIN queue = 1..Len(queue) /\ Len(queue) \in Nat \ {0}
  OBVIOUS
<1>2. DOMAIN queue' = 1..(Len(queue) - 1)
  OBVIOUS
<1>3. \A i \in DOMAIN queue' : queue'[i] = queue[i + 1] /\ i + 1 \in DOMAIN queue
  BY <1>1, <1>2
<1>4. Head(queue) = queue[1] /\ 1 \in DOMAIN queue
  BY <1>1
<1>5. ASSUME NEW i \in DOMAIN queue, i # 1
      PROVE  i - 1 \in DOMAIN queue' /\ queue'[i - 1] = queue[i]
  <2>1. i - 1 \in DOMAIN queue' /\ (i - 1) + 1 = i
    BY <1>1, <1>2, <1>5
  <2>2. queue'[i - 1] = queue[(i - 1) + 1]
    BY <2>1, <1>3
  <2> QED
    BY <2>1, <2>2
<1>6. \A c \in Blocks : InQueue(c) <=> InQueue(c)' \/ c = Head(queue)
  <2>1. ASSUME NEW c \in Blocks, InQueue(c) PROVE InQueue(c)' \/ c = Head(queue)
    BY <2>1, <1>4, <1>5 DEF InQueue
  <2>2. ASSUME NEW c \in Blocks, InQueue(c)' \/ c = Head(queue) PROVE InQueue(c)
    BY <2>2, <1>3, <1>4 DEF InQueue
  <2> QED
    BY <2>1, <2>2
<1> QED
  BY <1>2, <1>3, <1>4, <1>6

\* Conservation through pool.Get for the current block.
LEMMA TakeCurrent ==
    ASSUME TypeOK, BlockConservation, NEW r \in Requests, NEW b \in pool,
           current[r] = NoBlock,
           pool' = pool \ {b}, current' = [current EXCEPT ![r] = b],
           UNCHANGED <<queue, next, hand>>
    PROVE  BlockConservation'
<1> USE BlocksAssumption DEF TypeOK, PoolTypeOK, ReaderTypeOK, InQueue, WithReader
<1>1. NoneLost'
  <2>1. current'[r] = b /\ \A q \in Requests \ {r} : current'[q] = current[q]
    OBVIOUS
  <2>2. \A c \in Blocks : WithReader(c) => WithReader(c)'
    BY <2>1
  <2>3. WithReader(b)'
    BY <2>1
  <2> HIDE DEF WithReader
  <2> QED
    BY <2>2, <2>3 DEF BlockConservation, NoneLost
<1>2. NoneShared'
  <2>1. ~InQueue(b) /\ ~WithReader(b) /\ b # hand /\ b # NoBlock
    BY DEF BlockConservation, NoneShared
  <2>2. current'[r] = b /\ \A q \in Requests \ {r} : current'[q] = current[q]
    OBVIOUS
  <2>3. \A c \in Blocks : WithReader(c)' => WithReader(c) \/ c = b
    BY <2>2
  <2>4. \A c \in Blocks :
          /\ c \in pool' => ~InQueue(c)' /\ ~WithReader(c)' /\ c # hand'
          /\ InQueue(c)' => ~WithReader(c)' /\ c # hand'
          /\ WithReader(c)' => c # hand'
    <3> HIDE DEF WithReader
    <3> QED
      BY <2>1, <2>3 DEF BlockConservation, NoneShared
  <2>5. \A q, s \in Requests :
          /\ current'[q] # NoBlock => current'[q] # next'[s]
          /\ current'[q] # NoBlock /\ current'[q] = current'[s] => q = s
          /\ next'[q] # NoBlock /\ next'[q] = next'[s] => q = s
    <3>1. \A q \in Requests : current[q] # b /\ next[q] # b
      BY <2>1
    <3>2. \A q, s \in Requests :
            /\ current[q] # NoBlock => current[q] # next[s]
            /\ current[q] # NoBlock /\ current[q] = current[s] => q = s
            /\ next[q] # NoBlock /\ next[q] = next[s] => q = s
      BY DEF BlockConservation, NoneShared
    <3> HIDE DEF TypeOK, PoolTypeOK, ReaderTypeOK
    <3> QED
      BY <2>1, <2>2, <3>1, <3>2
  <2>6. \A i, j \in DOMAIN queue' : queue'[i] = queue'[j] => i = j
    BY DEF BlockConservation, NoneShared
  <2> HIDE DEF InQueue, WithReader
  <2> QED
    BY <2>4, <2>5, <2>6 DEF NoneShared
<1> QED
  BY <1>1, <1>2 DEF BlockConservation

\* Conservation through pool.Get for the next block, or a sentinel.
LEMMA TakeNext ==
    ASSUME TypeOK, BlockConservation, NEW r \in Requests, NEW b \in pool,
           next[r] = NoBlock,
           pool' = pool \ {b}, next' = [next EXCEPT ![r] = b],
           UNCHANGED <<queue, current, hand>>
    PROVE  BlockConservation'
<1> USE BlocksAssumption DEF TypeOK, PoolTypeOK, ReaderTypeOK, InQueue, WithReader
<1>1. NoneLost'
  <2>1. next'[r] = b /\ \A q \in Requests \ {r} : next'[q] = next[q]
    OBVIOUS
  <2>2. \A c \in Blocks : WithReader(c) => WithReader(c)'
    BY <2>1
  <2>3. WithReader(b)'
    BY <2>1
  <2> HIDE DEF WithReader
  <2> QED
    BY <2>2, <2>3 DEF BlockConservation, NoneLost
<1>2. NoneShared'
  <2>1. ~InQueue(b) /\ ~WithReader(b) /\ b # hand /\ b # NoBlock
    BY DEF BlockConservation, NoneShared
  <2>2. next'[r] = b /\ \A q \in Requests \ {r} : next'[q] = next[q]
    OBVIOUS
  <2>3. \A c \in Blocks : WithReader(c)' => WithReader(c) \/ c = b
    BY <2>2
  <2>4. \A c \in Blocks :
          /\ c \in pool' => ~InQueue(c)' /\ ~WithReader(c)' /\ c # hand'
          /\ InQueue(c)' => ~WithReader(c)' /\ c # hand'
          /\ WithReader(c)' => c # hand'
    <3> HIDE DEF WithReader
    <3> QED
      BY <2>1, <2>3 DEF BlockConservation, NoneShared
  <2>5. \A q, s \in Requests :
          /\ current'[q] # NoBlock => current'[q] # next'[s]
          /\ current'[q] # NoBlock /\ current'[q] = current'[s] => q = s
          /\ next'[q] # NoBlock /\ next'[q] = next'[s] => q = s
    <3>1. \A q \in Requests : current[q] # b /\ next[q] # b
      BY <2>1
    <3>2. \A q, s \in Requests :
            /\ current[q] # NoBlock => current[q] # next[s]
            /\ current[q] # NoBlock /\ current[q] = current[s] => q = s
            /\ next[q] # NoBlock /\ next[q] = next[s] => q = s
      BY DEF BlockConservation, NoneShared
    <3> HIDE DEF TypeOK, PoolTypeOK, ReaderTypeOK
    <3> QED
      BY <2>1, <2>2, <3>1, <3>2
  <2>6. \A i, j \in DOMAIN queue' : queue'[i] = queue'[j] => i = j
    BY DEF BlockConservation, NoneShared
  <2> HIDE DEF InQueue, WithReader
  <2> QED
    BY <2>4, <2>5, <2>6 DEF NoneShared
<1> QED
  BY <1>1, <1>2 DEF BlockConservation

\* Conservation through sending the current block.
LEMMA SendCurrent ==
    ASSUME TypeOK, BlockConservation, NEW r \in Requests, current[r] # NoBlock,
           queue' = Append(queue, current[r]),
           current' = [current EXCEPT ![r] = next[r]],
           next' = [next EXCEPT ![r] = NoBlock],
           UNCHANGED <<pool, hand>>
    PROVE  BlockConservation'
<1> USE BlocksAssumption DEF TypeOK, PoolTypeOK, ReaderTypeOK, InQueue, WithReader
<1>1. current[r] \in Blocks
  OBVIOUS
<1>2. current'[r] = next[r] /\ next'[r] = NoBlock
      /\ \A q \in Requests \ {r} : current'[q] = current[q] /\ next'[q] = next[q]
  OBVIOUS
<1>3. \A c \in Blocks : WithReader(c)' <=> WithReader(c) /\ c # current[r]
  <2>1. \A q \in Requests : /\ current[r] # next[q]
                            /\ current[q] = current[r] => q = r
    BY DEF BlockConservation, NoneShared
  <2> QED
    BY <1>1, <1>2, <2>1
<1>4. NoneLost'
  <2> HIDE DEF InQueue, WithReader
  <2> QED
    BY <1>1, <1>3, AfterSend DEF BlockConservation, NoneLost
<1>5. NoneShared'
  <2>1. \A c \in Blocks :
          /\ c \in pool' => ~InQueue(c)' /\ ~WithReader(c)' /\ c # hand'
          /\ InQueue(c)' => ~WithReader(c)' /\ c # hand'
          /\ WithReader(c)' => c # hand'
    <3>1. WithReader(current[r])
      BY <1>1
    <3> HIDE DEF InQueue, WithReader
    <3> QED
      BY <1>1, <1>3, <3>1, AfterSend DEF BlockConservation, NoneShared
  <2>2. \A i, j \in DOMAIN queue' : queue'[i] = queue'[j] => i = j
    <3>1. WithReader(current[r])
      BY <1>1
    <3>2. \A i \in DOMAIN queue : queue[i] # current[r]
      BY <1>1, <3>1 DEF BlockConservation, NoneShared
    <3>3. \A i, j \in DOMAIN queue : queue[i] = queue[j] => i = j
      BY DEF BlockConservation, NoneShared
    <3>4. DOMAIN queue' = DOMAIN queue \cup {Len(queue) + 1}
      BY <1>1
    <3>5. /\ \A i \in DOMAIN queue : queue'[i] = queue[i]
          /\ queue'[Len(queue) + 1] = current[r]
      BY <1>1, AfterSend
    <3>6. ASSUME NEW i \in DOMAIN queue, queue'[i] = queue'[Len(queue) + 1]
          PROVE  FALSE
      BY <3>2, <3>5, <3>6
    <3> HIDE DEF TypeOK, PoolTypeOK, ReaderTypeOK
    <3> QED
      BY <3>3, <3>4, <3>5, <3>6
  <2>3. \A q, s \in Requests :
          /\ current'[q] # NoBlock => current'[q] # next'[s]
          /\ current'[q] # NoBlock /\ current'[q] = current'[s] => q = s
          /\ next'[q] # NoBlock /\ next'[q] = next'[s] => q = s
    <3>1. \A q, s \in Requests :
            /\ current[q] # NoBlock => current[q] # next[s]
            /\ current[q] # NoBlock /\ current[q] = current[s] => q = s
            /\ next[q] # NoBlock /\ next[q] = next[s] => q = s
      BY DEF BlockConservation, NoneShared
    <3> HIDE DEF TypeOK, PoolTypeOK, ReaderTypeOK, InQueue, WithReader
    <3> QED
      BY <1>2, <3>1
  <2> HIDE DEF InQueue, WithReader
  <2> QED
    BY <2>1, <2>2, <2>3 DEF NoneShared
<1> QED
  BY <1>4, <1>5 DEF BlockConservation

\* Conservation through sending the sentinel.
LEMMA SendNext ==
    ASSUME TypeOK, BlockConservation, NEW r \in Requests, next[r] # NoBlock,
           queue' = Append(queue, next[r]),
           next' = [next EXCEPT ![r] = NoBlock],
           UNCHANGED <<pool, current, hand>>
    PROVE  BlockConservation'
<1> USE BlocksAssumption DEF TypeOK, PoolTypeOK, ReaderTypeOK, InQueue, WithReader
<1>1. next[r] \in Blocks
  OBVIOUS
<1>2. next'[r] = NoBlock
      /\ \A q \in Requests \ {r} : next'[q] = next[q]
  OBVIOUS
<1>3. \A c \in Blocks : WithReader(c)' <=> WithReader(c) /\ c # next[r]
  <2>1. \A q \in Requests : /\ current[q] # next[r]
                            /\ next[q] = next[r] => q = r
    BY DEF BlockConservation, NoneShared
  <2> QED
    BY <1>1, <1>2, <2>1
<1>4. NoneLost'
  <2> HIDE DEF InQueue, WithReader
  <2> QED
    BY <1>1, <1>3, AfterSend DEF BlockConservation, NoneLost
<1>5. NoneShared'
  <2>1. \A c \in Blocks :
          /\ c \in pool' => ~InQueue(c)' /\ ~WithReader(c)' /\ c # hand'
          /\ InQueue(c)' => ~WithReader(c)' /\ c # hand'
          /\ WithReader(c)' => c # hand'
    <3>1. WithReader(next[r])
      BY <1>1
    <3> HIDE DEF InQueue, WithReader
    <3> QED
      BY <1>1, <1>3, <3>1, AfterSend DEF BlockConservation, NoneShared
  <2>2. \A i, j \in DOMAIN queue' : queue'[i] = queue'[j] => i = j
    <3>1. WithReader(next[r])
      BY <1>1
    <3>2. \A i \in DOMAIN queue : queue[i] # next[r]
      BY <1>1, <3>1 DEF BlockConservation, NoneShared
    <3>3. \A i, j \in DOMAIN queue : queue[i] = queue[j] => i = j
      BY DEF BlockConservation, NoneShared
    <3>4. DOMAIN queue' = DOMAIN queue \cup {Len(queue) + 1}
      BY <1>1
    <3>5. /\ \A i \in DOMAIN queue : queue'[i] = queue[i]
          /\ queue'[Len(queue) + 1] = next[r]
      BY <1>1, AfterSend
    <3>6. ASSUME NEW i \in DOMAIN queue, queue'[i] = queue'[Len(queue) + 1]
          PROVE  FALSE
      BY <3>2, <3>5, <3>6
    <3> HIDE DEF TypeOK, PoolTypeOK, ReaderTypeOK
    <3> QED
      BY <3>3, <3>4, <3>5, <3>6
  <2>3. \A q, s \in Requests :
          /\ current'[q] # NoBlock => current'[q] # next'[s]
          /\ current'[q] # NoBlock /\ current'[q] = current'[s] => q = s
          /\ next'[q] # NoBlock /\ next'[q] = next'[s] => q = s
    <3>1. \A q, s \in Requests :
            /\ current[q] # NoBlock => current[q] # next[s]
            /\ current[q] # NoBlock /\ current[q] = current[s] => q = s
            /\ next[q] # NoBlock /\ next[q] = next[s] => q = s
      BY DEF BlockConservation, NoneShared
    <3> HIDE DEF TypeOK, PoolTypeOK, ReaderTypeOK, InQueue, WithReader
    <3> QED
      BY <1>2, <3>1
  <2> HIDE DEF InQueue, WithReader
  <2> QED
    BY <2>1, <2>2, <2>3 DEF NoneShared
<1> QED
  BY <1>4, <1>5 DEF BlockConservation

\* Conservation through giving the current block back to the pool.
LEMMA PutCurrent ==
    ASSUME TypeOK, BlockConservation, NEW r \in Requests, current[r] # NoBlock,
           Put(current[r]), current' = [current EXCEPT ![r] = NoBlock],
           UNCHANGED <<queue, next, hand>>
    PROVE  BlockConservation'
<1> USE BlocksAssumption DEF TypeOK, PoolTypeOK, ReaderTypeOK, InQueue, WithReader
<1>1. pool' = pool \cup {current[r]}
  <2>1. current[r] \in Blocks /\ current[r] \notin pool
    BY DEF BlockConservation, NoneShared
  <2> QED
    BY <2>1, PutHasRoom
<1>2. NoneLost'
  BY <1>1 DEF BlockConservation, NoneLost
<1>3. NoneShared'
  <2>1. \A c \in Blocks : WithReader(c)' => WithReader(c) /\ c # current[r]
    BY DEF BlockConservation, NoneShared
  <2>2. \A c \in Blocks :
          /\ c \in pool' => ~InQueue(c)' /\ ~WithReader(c)' /\ c # hand'
          /\ InQueue(c)' => ~WithReader(c)' /\ c # hand'
          /\ WithReader(c)' => c # hand'
    <3>1. WithReader(current[r]) /\ current[r] \in Blocks
      OBVIOUS
    <3> HIDE DEF WithReader
    <3> QED
      BY <1>1, <2>1, <3>1 DEF BlockConservation, NoneShared
  <2>3. /\ \A i, j \in DOMAIN queue' : queue'[i] = queue'[j] => i = j
        /\ \A q, s \in Requests :
             /\ current'[q] # NoBlock => current'[q] # next'[s]
             /\ current'[q] # NoBlock /\ current'[q] = current'[s] => q = s
             /\ next'[q] # NoBlock /\ next'[q] = next'[s] => q = s
    BY DEF BlockConservation, NoneShared
  <2> HIDE DEF InQueue, WithReader
  <2> QED
    BY <2>2, <2>3 DEF NoneShared
<1> QED
  BY <1>2, <1>3 DEF BlockConservation

\* Conservation through giving the next block back to the pool.
LEMMA PutNext ==
    ASSUME TypeOK, BlockConservation, NEW r \in Requests, next[r] # NoBlock,
           Put(next[r]), next' = [next EXCEPT ![r] = NoBlock],
           UNCHANGED <<queue, current, hand>>
    PROVE  BlockConservation'
<1> USE BlocksAssumption DEF TypeOK, PoolTypeOK, ReaderTypeOK, InQueue, WithReader
<1>1. pool' = pool \cup {next[r]}
  <2>1. next[r] \in Blocks /\ next[r] \notin pool
    BY DEF BlockConservation, NoneShared
  <2> QED
    BY <2>1, PutHasRoom
<1>2. NoneLost'
  BY <1>1 DEF BlockConservation, NoneLost
<1>3. NoneShared'
  <2>1. \A c \in Blocks : WithReader(c)' => WithReader(c) /\ c # next[r]
    BY DEF BlockConservation, NoneShared
  <2>2. \A c \in Blocks :
          /\ c \in pool' => ~InQueue(c)' /\ ~WithReader(c)' /\ c # hand'
          /\ InQueue(c)' => ~WithReader(c)' /\ c # hand'
          /\ WithReader(c)' => c # hand'
    <3>1. WithReader(next[r]) /\ next[r] \in Blocks
      OBVIOUS
    <3> HIDE DEF WithReader
    <3> QED
      BY <1>1, <2>1, <3>1 DEF BlockConservation, NoneShared
  <2>3. /\ \A i, j \in DOMAIN queue' : queue'[i] = queue'[j] => i = j
        /\ \A q, s \in Requests :
             /\ current'[q] # NoBlock => current'[q] # next'[s]
             /\ current'[q] # NoBlock /\ current'[q] = current'[s] => q = s
             /\ next'[q] # NoBlock /\ next'[q] = next'[s] => q = s
    BY DEF BlockConservation, NoneShared
  <2> HIDE DEF InQueue, WithReader
  <2> QED
    BY <2>2, <2>3 DEF NoneShared
<1> QED
  BY <1>2, <1>3 DEF BlockConservation

\* Conservation through the assembler's receive.
LEMMA TakeHand ==
    ASSUME TypeOK, BlockConservation, hand = NoBlock, queue # <<>>,
           hand' = Head(queue), queue' = Tail(queue),
           UNCHANGED <<pool, current, next>>
    PROVE  BlockConservation'
<1> USE BlocksAssumption DEF TypeOK, PoolTypeOK, ReaderTypeOK, InQueue, WithReader
<1>1. NoneLost'
  <2> HIDE DEF InQueue, WithReader
  <2>1. \A c \in Blocks : WithReader(c)' <=> WithReader(c)
    BY DEF WithReader
  <2> QED
    BY <2>1, AfterReceive DEF BlockConservation, NoneLost
<1>2. NoneShared'
  BY SMTT(30) DEF BlockConservation, NoneShared
<1> QED
  BY <1>1, <1>2 DEF BlockConservation

\* Conservation through the assembler's pool.Put.
LEMMA PutHandBack ==
    ASSUME TypeOK, BlockConservation, hand # NoBlock,
           Put(hand), hand' = NoBlock, UNCHANGED <<queue, current, next>>
    PROVE  BlockConservation'
<1> USE BlocksAssumption DEF TypeOK, PoolTypeOK, ReaderTypeOK, InQueue, WithReader
<1>1. pool' = pool \cup {hand}
  <2>1. hand \in Blocks /\ hand \notin pool
    BY DEF BlockConservation, NoneShared, AsmTypeOK
  <2> QED
    BY <2>1, PutHasRoom
<1>2. NoneLost'
  BY <1>1 DEF BlockConservation, NoneLost
<1>3. NoneShared'
  BY <1>1 DEF BlockConservation, NoneShared
<1> QED
  BY <1>2, <1>3 DEF BlockConservation

\* Every reader step is one of those moves.
LEMMA ReaderConservation ==
    ASSUME IInv, NEW r \in Requests, ReaderStep(r) \/ TransportStep(r), UNCHANGED hand
    PROVE  BlockConservation'
<1> USE DEF poolVars, queueVars
<1>0. /\ TypeOK /\ BlockConservation /\ ReaderInv(r)
      /\ current \in [Requests -> Blocks \cup {NoBlock}]
      /\ next \in [Requests -> Blocks \cup {NoBlock}]
  BY DEF IInv, TypeOK, ReaderTypeOK
<1>1. CASE GetCurrent(r)
  <2>1. PICK b \in pool : /\ pool' = pool \ {b}
                          /\ current' = [current EXCEPT ![r] = b]
    BY <1>1 DEF GetCurrent, Get
  <2>2. current[r] = NoBlock /\ UNCHANGED <<queue, next, hand>>
    BY <1>0, <1>1 DEF GetCurrent, ReaderInv
  <2> QED
    BY <1>0, <2>1, <2>2, TakeCurrent
<1>2. CASE GetNext(r)
  <2>1. PICK b \in pool : /\ pool' = pool \ {b}
                          /\ next' = [next EXCEPT ![r] = b]
    BY <1>2 DEF GetNext, Get
  <2>2. next[r] = NoBlock /\ UNCHANGED <<queue, current, hand>>
    BY <1>0, <1>2 DEF GetNext, ReaderInv
  <2> QED
    BY <1>0, <2>1, <2>2, TakeNext
<1>3. CASE GetSentinel(r)
  <2>1. PICK b \in pool : /\ pool' = pool \ {b}
                          /\ next' = [next EXCEPT ![r] = b]
    BY <1>3 DEF GetSentinel, Get
  <2>2. next[r] = NoBlock /\ UNCHANGED <<queue, current, hand>>
    BY <1>0, <1>3 DEF GetSentinel, ReaderInv
  <2> QED
    BY <1>0, <2>1, <2>2, TakeNext
<1>4. CASE SendFull(r)
  <2>1. current[r] # NoBlock
    BY <1>0, <1>4 DEF SendFull, ReaderInv
  <2> QED
    BY <1>0, <1>4, <2>1, SendCurrent DEF SendFull, Enqueue, Advance
<1>5. CASE SendAbort(r)
  <2>1. current[r] # NoBlock /\ next[r] = NoBlock
    BY <1>0, <1>5 DEF SendAbort, ReaderInv
  <2>2. next' = [next EXCEPT ![r] = NoBlock]
    BY <1>0, <1>5, <2>1 DEF SendAbort
  <2> QED
    BY <1>0, <1>5, <2>1, <2>2, SendCurrent DEF SendAbort, Enqueue
<1>6. CASE SendFinal(r)
  <2>1. CASE current[r] # NoBlock
    <3>1. next[r] = NoBlock
      BY <1>0, <1>6, <2>1 DEF SendFinal, ReaderInv
    <3>2. current' = [current EXCEPT ![r] = next[r]]
      BY <1>6, <3>1 DEF SendFinal, DropFinalBlock
    <3>3. queue' = Append(queue, current[r]) /\ UNCHANGED <<pool, hand>>
      BY <1>6, <2>1 DEF SendFinal, Enqueue, FinalBlock
    <3>4. next' = [next EXCEPT ![r] = NoBlock]
      BY <1>6 DEF SendFinal, DropFinalBlock
    <3> QED
      BY <1>0, <2>1, <3>2, <3>3, <3>4, SendCurrent
  <2>2. CASE current[r] = NoBlock
    <3>1. next[r] # NoBlock
      BY <1>0, <1>6, <2>2 DEF SendFinal, ReaderInv
    <3>2. queue' = Append(queue, next[r]) /\ UNCHANGED <<pool, hand>>
      BY <1>6, <2>2 DEF SendFinal, Enqueue, FinalBlock
    <3>3. next' = [next EXCEPT ![r] = NoBlock] /\ UNCHANGED current
      BY <1>0, <1>6, <2>2 DEF SendFinal, DropFinalBlock
    <3> QED
      BY <1>0, <3>1, <3>2, <3>3, SendNext
  <2> QED
    BY <2>1, <2>2
<1>7. CASE ReleaseCurrent(r)
  BY <1>0, <1>7, PutCurrent DEF ReleaseCurrent
<1>8. CASE ReleaseNext(r)
  <2>1. next[r] # NoBlock
    BY <1>0, <1>8 DEF ReleaseNext, ReaderInv
  <2> QED
    BY <1>0, <1>8, <2>1, PutNext DEF ReleaseNext
<1>9. CASE PutFinal(r)
  <2>1. CASE current[r] # NoBlock
    <3>1. next[r] = NoBlock
      BY <1>0, <1>9, <2>1 DEF PutFinal, ReaderInv
    <3>2. Put(current[r]) /\ current' = [current EXCEPT ![r] = NoBlock]
      BY <1>9, <2>1 DEF PutFinal, FinalBlock, DropFinalBlock
    <3>3. UNCHANGED <<queue, next, hand>>
      BY <1>0, <1>9, <3>1 DEF PutFinal, DropFinalBlock
    <3> QED
      BY <1>0, <2>1, <3>2, <3>3, PutCurrent
  <2>2. CASE current[r] = NoBlock
    <3>1. next[r] # NoBlock
      BY <1>0, <1>9, <2>2 DEF PutFinal, ReaderInv
    <3>2. Put(next[r]) /\ next' = [next EXCEPT ![r] = NoBlock]
      BY <1>9, <2>2 DEF PutFinal, FinalBlock, DropFinalBlock
    <3>3. UNCHANGED <<queue, current, hand>>
      BY <1>0, <1>9, <2>2 DEF PutFinal, DropFinalBlock
    <3> QED
      BY <1>0, <3>1, <3>2, <3>3, PutNext
  <2> QED
    BY <2>1, <2>2
<1>10. CASE Close(r)
  <2>1. abandoned[r] => current[r] = NoBlock
    BY <1>0 DEF ReaderInv
  <2> QED
    BY <1>0, <1>10, <2>1, Unmoved DEF Close, Places
<1>11. CASE \/ GetCurrentFails(r) \/ WriteBlock(r) \/ GetNextFails(r)
            \/ SendFullFails(r) \/ SendAbortFails(r) \/ Finish(r)
            \/ GetSentinelFails(r) \/ SendFinalFails(r)
            \/ \E n \in 0..MaxBody, eof \in BOOLEAN : Read(r, n, eof)
  <2>1. UNCHANGED Places
    BY <1>11 DEF GetCurrentFails, WriteBlock, GetNextFails, SendFullFails,
       SendAbortFails, Finish, GetSentinelFails, SendFinalFails, Read, Places
  <2> QED
    BY <1>0, <2>1, Unmoved
<1> QED
  BY <1>1, <1>2, <1>3, <1>4, <1>5, <1>6, <1>7, <1>8, <1>9, <1>10, <1>11
     DEF ReaderStep, TransportStep

\* Every assembler step is one of those moves.
LEMMA AsmConservation ==
    ASSUME IInv, AsmStep \/ WorkerTake, UNCHANGED readerVars
    PROVE  BlockConservation'
<1> USE DEF poolVars, queueVars, readerVars
<1>0. TypeOK /\ BlockConservation
  BY DEF IInv
<1>1. CASE AsmReceive
  BY <1>0, <1>1, TakeHand DEF AsmReceive
<1>2. CASE ProcessBlock
  <2>1. PutHand
    BY <1>2 DEF ProcessBlock, AsmAbort, AsmRefuse, AsmOutOfOrder, AsmTooMuch,
               AsmAppend, AsmDispatch, AsmWorkerFull
  <2> QED
    BY <1>0, <2>1, PutHandBack DEF PutHand
<1>3. CASE AsmExit \/ WorkerTake \/ \E r \in Requests : SweepStale(r)
  <2>1. UNCHANGED Places
    BY <1>3 DEF AsmExit, WorkerTake, SweepStale, Places
  <2> QED
    BY <1>0, <2>1, Unmoved
<1> QED
  BY <1>1, <1>2, <1>3 DEF AsmStep

LEMMA ConservationStep == IInv /\ [Next]_vars => BlockConservation'
<1> SUFFICES ASSUME IInv, [Next]_vars PROVE BlockConservation'
  OBVIOUS
<1>1. CASE Readers
  BY <1>1, ReaderConservation DEF Readers, asmVars
<1>2. CASE Asm
  BY <1>2, AsmConservation DEF Asm
<1>3. CASE Shutdown \/ Terminating \/ UNCHANGED vars
  <2>1. UNCHANGED Places
    BY <1>3 DEF Shutdown, CloseQueue, Terminating, vars, poolVars, queueVars,
       readerVars, asmVars, Places
  <2> QED
    BY <2>1, Unmoved DEF IInv
<1> QED
  BY <1>1, <1>2, <1>3 DEF Next

-----------------------------------------------------------------------------
(* Contents: a reader writes to its own blocks and to pooled ones only *)

OwnWrites(r) ==
    \A b \in Blocks : blk'[b] # blk[b] => b \in pool \/ b = current[r] \/ b = next[r]
Bounded == \A b \in Blocks : Len(blk[b].data) <= BlockSize
CurrentTagged(r) == current[r] # NoBlock => blk[current[r]].requestID = r
NextTagged(r) == next[r] # NoBlock /\ pc[r] \in {"final", "unsent"}
                   => blk[next[r]].requestID = r
Sent(r) == \A b \in Blocks : InQueue(b)' => InQueue(b) \/ blk'[b].requestID = r

\* A reader step writes only to blocks that this reader holds, or is just taking from
\* the pool: never to one in the queue or in the assembler's hand.
LEMMA ReaderWrites ==
    ASSUME IInv, NEW r \in Requests, ReaderStep(r) \/ TransportStep(r)
    PROVE  OwnWrites(r) /\ Bounded' /\ CurrentTagged(r)' /\ NextTagged(r)' /\ Sent(r)
<1> USE DEF poolVars, queueVars
<1>0. /\ current[r] \in Blocks \cup {NoBlock} /\ next[r] \in Blocks \cup {NoBlock}
      /\ seq[r] \in Nat /\ blk \in [Blocks -> AuditBlock] /\ pool \subseteq Blocks
      /\ current \in [Requests -> Blocks \cup {NoBlock}]
      /\ next \in [Requests -> Blocks \cup {NoBlock}]
      /\ pc \in [Requests -> ReaderPC] /\ queue \in Seq(Blocks)
      /\ ReaderInv(r) /\ Bounded /\ CurrentTagged(r) /\ NextTagged(r)
  BY DEF IInv, TypeOK, PoolTypeOK, ReaderTypeOK, ContentInv, Bounded,
         CurrentTagged, NextTagged
<1>1. CASE GetCurrent(r)
  <2>1. PICK b \in pool : /\ blk' = [blk EXCEPT ![b] = FreshBlock(r, seq[r], FALSE)]
                          /\ current' = [current EXCEPT ![r] = b]
    BY <1>1 DEF GetCurrent, Get
  <2>2. blk'[b].requestID = r /\ blk'[b].data = <<>> /\ current'[r] = b
    BY <1>0, <2>1 DEF FreshBlock
  <2>3. Bounded'
    <3>1. Len(blk'[b].data) <= BlockSize
      BY <2>2, BlocksAssumption
    <3> QED
      BY <1>0, <2>1, <3>1 DEF Bounded
  <2>4. pc'[r] = "write" /\ UNCHANGED <<queue, next>>
    BY <1>0, <1>1 DEF GetCurrent, GoTo
  <2> QED
    BY <1>0, <2>1, <2>2, <2>3, <2>4
       DEF OwnWrites, CurrentTagged, NextTagged, Sent, InQueue
<1>2. CASE GetNext(r)
  <2>1. PICK b \in pool : /\ blk' = [blk EXCEPT ![b] = ResetBlock]
                          /\ next' = [next EXCEPT ![r] = b]
    BY <1>2 DEF GetNext, Get
  <2>2. blk'[b].data = <<>>
    BY <1>0, <2>1 DEF FreshBlock, ResetBlock
  <2>3. Bounded'
    <3>1. Len(blk'[b].data) <= BlockSize
      BY <2>2, BlocksAssumption
    <3> QED
      BY <1>0, <2>1, <3>1 DEF Bounded
  <2>4. current[r] \notin pool
    BY <1>0, BlocksAssumption
       DEF IInv, BlockConservation, NoneShared, WithReader
  <2>5. pc'[r] = "send" /\ UNCHANGED <<queue, current>>
    BY <1>0, <1>2 DEF GetNext, GoTo
  <2> QED
    BY <1>0, <2>1, <2>3, <2>4, <2>5
       DEF OwnWrites, CurrentTagged, NextTagged, Sent, InQueue
<1>3. CASE GetSentinel(r)
  <2>1. PICK b \in pool : /\ blk' = [blk EXCEPT ![b] = FreshBlock(r, seq[r], TRUE)]
                          /\ next' = [next EXCEPT ![r] = b]
    BY <1>3 DEF GetSentinel, Get
  <2>2. blk'[b].requestID = r /\ blk'[b].data = <<>> /\ next'[r] = b
    BY <1>0, <2>1 DEF FreshBlock
  <2>3. Bounded'
    <3>1. Len(blk'[b].data) <= BlockSize
      BY <2>2, BlocksAssumption
    <3> QED
      BY <1>0, <2>1, <3>1 DEF Bounded
  <2>4. current[r] = NoBlock /\ UNCHANGED <<queue, current>>
    BY <1>0, <1>3 DEF GetSentinel, ReaderInv
  <2> QED
    BY <1>0, <2>1, <2>2, <2>3, <2>4
       DEF OwnWrites, CurrentTagged, NextTagged, Sent, InQueue
<1>4. CASE WriteBlock(r)
  <2> DEFINE b == current[r]
             n == IF todo[r] <= Remaining(b) THEN todo[r] ELSE Remaining(b)
             u == [i \in 1..n |-> pos[r] - todo[r] + i]
  <2>1. b \in Blocks
    BY <1>0, <1>4 DEF WriteBlock, ReaderInv
  <2>2. Len(blk[b].data) \in Nat /\ Len(blk[b].data) <= BlockSize
    BY <1>0, <2>1 DEF Bounded, AuditBlock
  <2>3. todo[r] \in Nat /\ pos[r] \in Nat /\ todo[r] <= pos[r]
    BY <1>0, BodyAssumption DEF ReaderInv, IInv, TypeOK, ReaderTypeOK
  <2>4. n \in Nat /\ Len(blk[b].data) + n <= BlockSize
    <3>1. BlockSize \in Nat /\ Remaining(b) = BlockSize - Len(blk[b].data)
      BY BlocksAssumption DEF Remaining
    <3>2. CASE todo[r] <= Remaining(b)
      BY <2>2, <2>3, <3>1, <3>2
    <3>3. CASE ~(todo[r] <= Remaining(b))
      BY <2>2, <2>3, <3>1, <3>3
    <3> QED
      BY <3>2, <3>3
  <2>5. u \in Seq(Units) /\ Len(u) = n
    <3> HIDE DEF n
    <3> QED
      BY <2>3, <2>4 DEF Units
  <2>6. blk' = [blk EXCEPT ![b] = Fill(@, u)]
    BY <1>4 DEF WriteBlock
  <2> HIDE DEF u, n
  <2>7. /\ Fill(blk[b], u).requestID = blk[b].requestID
        /\ Len(Fill(blk[b], u).data) <= BlockSize
    BY <1>0, <2>1, <2>4, <2>5, FillFacts
  <2>8. UNCHANGED <<queue, current, next>>
    BY <1>4 DEF WriteBlock
  <2>9. next[r] = NoBlock
    BY <1>0, <1>4 DEF WriteBlock, ReaderInv
  <2> QED
    BY <1>0, <2>1, <2>6, <2>7, <2>8, <2>9
       DEF OwnWrites, Bounded, CurrentTagged, NextTagged, Sent, InQueue
<1>5. CASE SendFull(r)
  <2>1. current[r] \in Blocks /\ queue' = Append(queue, current[r])
        /\ current' = [current EXCEPT ![r] = next[r]]
        /\ next' = [next EXCEPT ![r] = NoBlock]
    BY <1>0, <1>5 DEF SendFull, Enqueue, Advance, ReaderInv
  <2>2. CASE next[r] = NoBlock
    <3>1. UNCHANGED blk
      BY <1>5, <2>2 DEF SendFull
    <3>2. current'[r] = NoBlock /\ next'[r] = NoBlock
      BY <1>0, <2>1, <2>2
    <3>3. Sent(r)
      BY <1>0, <2>1, <3>1, AfterSend, BlocksAssumption DEF Sent, CurrentTagged
    <3> QED
      BY <1>0, <3>1, <3>2, <3>3
         DEF OwnWrites, Bounded, CurrentTagged, NextTagged
  <2>3. CASE next[r] # NoBlock
    <3>1. blk' = [blk EXCEPT ![next[r]] = Tag(@, r, seq[r])]
      BY <1>5, <2>3 DEF SendFull
    <3>2. /\ Tag(blk[next[r]], r, seq[r]).requestID = r
          /\ Tag(blk[next[r]], r, seq[r]).data = blk[next[r]].data
      BY <1>0, <2>3, TagFacts
    <3>3. current[r] # next[r]
      BY <1>0, <2>1, BlocksAssumption DEF IInv, BlockConservation, NoneShared
    <3>4. current'[r] = next[r] /\ next'[r] = NoBlock
      BY <1>0, <2>1
    <3>5. /\ blk'[next[r]].requestID = r
          /\ blk'[next[r]].data = blk[next[r]].data
          /\ \A b \in Blocks \ {next[r]} : blk'[b] = blk[b]
      BY <1>0, <2>3, <3>1, <3>2
    <3>6. Sent(r)
      BY <1>0, <2>1, <3>3, <3>5, AfterSend, BlocksAssumption DEF Sent, CurrentTagged
    <3> QED
      BY <1>0, <3>4, <3>5, <3>6
         DEF OwnWrites, Bounded, CurrentTagged, NextTagged
  <2> QED
    BY <2>2, <2>3
<1>6. CASE GetNextFails(r) \/ SendFullFails(r) \/ Finish(r)
  <2>1. UNCHANGED <<queue, current, next>>
    BY <1>6 DEF GetNextFails, SendFullFails, Finish
  <2>2. pc[r] \notin {"final", "unsent"} /\ (next[r] # NoBlock => pc[r] = "send")
    BY <1>0, <1>6 DEF GetNextFails, SendFullFails, Finish, ReaderInv
  <2>3. pc'[r] \in {"final", "unsent"} => next[r] = NoBlock
    BY <1>0, <1>6, <2>2 DEF GetNextFails, SendFullFails, Finish, GoTo
  <2>4. CASE UNCHANGED blk
    BY <1>0, <2>1, <2>3, <2>4
       DEF OwnWrites, Bounded, CurrentTagged, NextTagged, Sent, InQueue
  <2>5. ASSUME NEW c \in AuditBlock, current[r] # NoBlock,
               c.requestID = blk[current[r]].requestID,
               c.data = blk[current[r]].data,
               blk' = [blk EXCEPT ![current[r]] = c]
        PROVE  OwnWrites(r) /\ Bounded' /\ CurrentTagged(r)' /\ NextTagged(r)' /\ Sent(r)
    BY <1>0, <2>1, <2>3, <2>5
       DEF OwnWrites, Bounded, CurrentTagged, NextTagged, Sent, InQueue
  <2>6. \/ UNCHANGED blk
        \/ current[r] # NoBlock /\ blk' = [blk EXCEPT ![current[r]] = MarkAbort(@)]
        \/ current[r] # NoBlock /\ blk' = [blk EXCEPT ![current[r]] = MarkFinal(@)]
    BY <1>0, <1>6 DEF GetNextFails, SendFullFails, Finish, ReaderInv
  <2> QED
    BY <1>0, <2>4, <2>5, <2>6, MarkFacts
<1>7. CASE SendAbort(r) \/ SendFinal(r)
  <2>1. UNCHANGED blk
    BY <1>7 DEF SendAbort, SendFinal
  <2>2. PICK b \in {current[r], next[r]} \ {NoBlock} :
          queue' = Append(queue, b) /\ blk[b].requestID = r
    BY <1>0, <1>7 DEF SendAbort, SendFinal, Enqueue, FinalBlock, ReaderInv,
                      CurrentTagged, NextTagged
  <2>3. current'[r] = NoBlock /\ (next'[r] = NoBlock \/ next'[r] = next[r])
    BY <1>0, <1>7 DEF SendAbort, SendFinal, DropFinalBlock
  <2>4. next'[r] # NoBlock => pc'[r] \notin {"final", "unsent"}
    BY <1>0, <1>7 DEF SendAbort, SendFinal, DropFinalBlock, GoTo
  <2> QED
    BY <1>0, <2>1, <2>2, <2>3, <2>4, AfterSend
       DEF OwnWrites, Bounded, CurrentTagged, NextTagged, Sent
<1>8. CASE \/ GetCurrentFails(r) \/ SendAbortFails(r)
           \/ ReleaseCurrent(r) \/ ReleaseNext(r)
           \/ GetSentinelFails(r) \/ SendFinalFails(r) \/ PutFinal(r)
           \/ TransportStep(r)
  <2>1. UNCHANGED <<blk, queue>>
    BY <1>8 DEF GetCurrentFails, SendAbortFails, ReleaseCurrent, ReleaseNext,
       GetSentinelFails, SendFinalFails, PutFinal, TransportStep, Read, Close
  <2>2. current'[r] = NoBlock \/ current'[r] = current[r]
    BY <1>0, <1>8 DEF GetCurrentFails, SendAbortFails, ReleaseCurrent, ReleaseNext,
       GetSentinelFails, SendFinalFails, PutFinal, DropFinalBlock, TransportStep,
       Read, Close
  <2>3. next'[r] = NoBlock \/ (next'[r] = next[r] /\ (pc'[r] \in {"final", "unsent"}
                                  => pc[r] \in {"final", "unsent"}))
    <3>1. CASE \/ GetCurrentFails(r) \/ SendAbortFails(r) \/ ReleaseCurrent(r)
               \/ GetSentinelFails(r)
      BY <1>0, <3>1 DEF GetCurrentFails, SendAbortFails, ReleaseCurrent,
         GetSentinelFails, GoTo, Return
    <3>2. CASE ReleaseNext(r) \/ PutFinal(r)
      BY <1>0, <3>2 DEF ReleaseNext, PutFinal, DropFinalBlock
    <3>3. CASE SendFinalFails(r)
      BY <1>0, <3>3 DEF SendFinalFails
    <3>4. CASE TransportStep(r)
      BY <1>0, <3>4 DEF TransportStep, Read, Close, GoTo
    <3> QED
      BY <1>8, <3>1, <3>2, <3>3, <3>4
  <2> QED
    BY <1>0, <2>1, <2>2, <2>3
       DEF OwnWrites, Bounded, CurrentTagged, NextTagged, Sent, InQueue
<1> QED
  BY <1>1, <1>2, <1>3, <1>4, <1>5, <1>6, <1>7, <1>8 DEF ReaderStep

-----------------------------------------------------------------------------
(* The rest of the system while reader r steps *)

\* A reader step touches neither another reader's blocks nor its references.
LEMMA OthersUntouched ==
    ASSUME IInv, NEW r \in Requests, ReaderStep(r) \/ TransportStep(r),
           NEW q \in Requests, q # r
    PROVE  UNCHANGED <<body[q], pc[q], current[q], next[q], todo[q], pos[q],
                       atEOF[q], abandoned[q], finalized[q], closing[q]>>
<1> USE DEF IInv, TypeOK, ReaderTypeOK
<1>1. CASE GetCurrent(r) \/ GetNext(r) \/ GetSentinel(r)
  BY <1>1 DEF GetCurrent, GetNext, GetSentinel, GoTo
<1>2. CASE GetCurrentFails(r) \/ GetNextFails(r) \/ GetSentinelFails(r)
  BY <1>2 DEF GetCurrentFails, GetNextFails, GetSentinelFails, GiveUp, GoTo
<1>3. CASE WriteBlock(r) \/ Finish(r)
  BY <1>3 DEF WriteBlock, Finish, GoTo
<1>4. CASE SendFull(r)
  BY <1>4 DEF SendFull, Advance, GoTo
<1>5. CASE SendFullFails(r) \/ SendAbort(r) \/ SendAbortFails(r)
  BY <1>5 DEF SendFullFails, SendAbort, SendAbortFails, GiveUp, GoTo
<1>6. CASE ReleaseCurrent(r) \/ ReleaseNext(r)
  BY <1>6 DEF ReleaseCurrent, ReleaseNext, GiveUp, GoTo
<1>7. CASE SendFinal(r) \/ SendFinalFails(r) \/ PutFinal(r)
  BY <1>7 DEF SendFinal, SendFinalFails, PutFinal, DropFinalBlock, GoTo
<1>8. CASE TransportStep(r)
  <2>1. CASE Close(r)
    BY <2>1 DEF Close, GoTo
  <2>2. CASE \E n \in 0..MaxBody, eof \in BOOLEAN : Read(r, n, eof)
    BY <2>2 DEF Read, GoTo
  <2> QED
    BY <1>8, <2>1, <2>2 DEF TransportStep
<1> QED
  BY <1>1, <1>2, <1>3, <1>4, <1>5, <1>6, <1>7, <1>8 DEF ReaderStep

\* Reader steps preserve ContentInv.
LEMMA ReadersContent ==
    ASSUME IInv, NEW r \in Requests, ReaderStep(r) \/ TransportStep(r), UNCHANGED hand
    PROVE  /\ \A q \in Requests : ReaderInv(q)'
           /\ ContentInv'
           /\ \A b \in Blocks : b = hand \/ InQueue(b) => blk'[b] = blk[b]
<1>1. OwnWrites(r) /\ Bounded' /\ CurrentTagged(r)' /\ NextTagged(r)' /\ Sent(r)
  BY ReaderWrites
<1>2. ASSUME NEW q \in Requests, q # r
      PROVE  UNCHANGED <<body[q], pc[q], current[q], next[q], todo[q], pos[q],
                         atEOF[q], abandoned[q], finalized[q], closing[q]>>
  BY <1>2, OthersUntouched
<1>3. ASSUME NEW q \in Requests PROVE ReaderInv(q)'
  <2>1. CASE q = r
    BY <2>1, ReaderInvStep
  <2>2. CASE q # r
    BY <1>2, <2>2 DEF IInv, ReaderInv
  <2> QED
    BY <2>1, <2>2
<1>4. /\ current \in [Requests -> Blocks \cup {NoBlock}]
      /\ next \in [Requests -> Blocks \cup {NoBlock}]
      /\ NoneShared
  BY DEF IInv, TypeOK, ReaderTypeOK, BlockConservation
<1>5. ASSUME NEW b \in Blocks, b = hand \/ InQueue(b) PROVE blk'[b] = blk[b]
  BY <1>1, <1>4, <1>5 DEF OwnWrites, NoneShared, WithReader
<1>6. ASSUME NEW q \in Requests, q # r PROVE CurrentTagged(q)' /\ NextTagged(q)'
  <2>1. current[q] # NoBlock => blk'[current[q]] = blk[current[q]]
    BY <1>1, <1>4, <1>6 DEF OwnWrites, NoneShared, WithReader
  <2>2. next[q] # NoBlock => blk'[next[q]] = blk[next[q]]
    BY <1>1, <1>4, <1>6 DEF OwnWrites, NoneShared, WithReader
  <2> QED
    BY <1>2, <1>6, <2>1, <2>2 DEF CurrentTagged, NextTagged, IInv, ContentInv
<1>7. ASSUME NEW b \in Blocks, InQueue(b)' \/ b = hand'
      PROVE  blk'[b].requestID \in Requests
  BY <1>1, <1>5, <1>7 DEF Sent, IInv, ContentInv
<1>8. ContentInv'
  BY <1>1, <1>6, <1>7 DEF ContentInv, Bounded, CurrentTagged, NextTagged
<1> QED
  BY <1>3, <1>5, <1>8

\* Assembler steps preserve ContentInv.
LEMMA AsmContent ==
    ASSUME IInv, AsmStep \/ WorkerTake, UNCHANGED readerVars
    PROVE  /\ \A q \in Requests : ReaderInv(q)'
           /\ ContentInv'
           /\ UNCHANGED blk
<1>1. UNCHANGED blk
  BY DEF AsmStep, AsmReceive, ProcessBlock, AsmAbort, AsmRefuse, AsmOutOfOrder,
         AsmTooMuch, AsmAppend, AsmDispatch, AsmWorkerFull, PutHand, AsmExit,
         SweepStale, WorkerTake, poolVars
<1>2. \A q \in Requests : ReaderInv(q)'
  BY DEF readerVars, IInv, ReaderInv
<1>3. \A b \in Blocks : InQueue(b)' \/ b = hand' => InQueue(b) \/ b = hand
  <2>1. CASE AsmReceive
    <3>1. queue \in Seq(Blocks) /\ queue # <<>> /\ queue' = Tail(queue)
          /\ hand' = Head(queue)
      BY <2>1 DEF AsmReceive, IInv, TypeOK, PoolTypeOK
    <3> QED
      BY <3>1, AfterReceive
  <2>2. CASE ~AsmReceive
    <3>1. UNCHANGED queue /\ (hand' = hand \/ hand' = NoBlock)
      BY <2>2 DEF AsmStep, ProcessBlock, AsmAbort, AsmRefuse, AsmOutOfOrder,
         AsmTooMuch, AsmAppend, AsmDispatch, AsmWorkerFull, PutHand, AsmExit,
         SweepStale, WorkerTake, queueVars
    <3> QED
      BY <3>1, BlocksAssumption DEF InQueue
  <2> QED
    BY <2>1, <2>2
<1>4. ContentInv'
  BY <1>1, <1>3 DEF ContentInv, IInv, readerVars
<1> QED
  BY <1>1, <1>2, <1>4

\* Every step preserves ContentInv.
LEMMA ContentStep ==
    ASSUME IInv, [Next]_vars
    PROVE  /\ \A q \in Requests : ReaderInv(q)'
           /\ ContentInv'
           /\ \A b \in Blocks : b = hand \/ InQueue(b) => blk'[b] = blk[b]
<1>1. CASE Readers
  BY <1>1, ReadersContent DEF Readers, asmVars
<1>2. CASE Asm
  BY <1>2, AsmContent DEF Asm
<1>3. CASE Shutdown \/ Terminating \/ UNCHANGED vars
  <2>1. UNCHANGED <<pool, blk, queue, hand, readerVars>>
    BY <1>3 DEF Shutdown, CloseQueue, Terminating, vars, poolVars, queueVars, asmVars
  <2> QED
    BY <2>1 DEF IInv, ReaderInv, ContentInv, InQueue, readerVars
<1> QED
  BY <1>1, <1>2, <1>3 DEF Next

\* Every step preserves the invariant.
LEMMA NextIInv == IInv /\ [Next]_vars => IInv'
BY TypeStep, ConservationStep, ContentStep DEF IInv

-----------------------------------------------------------------------------
(* Theorems about the blocks *)

\* IInv, which the other theorems need, holds in every reachable state.
THEOREM Inductive == Spec => []IInv
BY InitIInv, NextIInv, PTL DEF Spec

\* Every variable keeps its type; in particular the queue never holds more
\* than its capacity and no reader counts past the body it was given.
THEOREM TypeCorrect == Spec => []TypeOK
<1>1. IInv => TypeOK
  BY DEF IInv
<1> QED
  BY <1>1, Inductive, PTL

\* However readers, assembler and shutdown interleave, and whichever sends and
\* Gets fail, every block of the pool is in exactly one place.
THEOREM BlocksConserved == Spec => []BlockConservation
<1>1. IInv => BlockConservation
  BY DEF IInv
<1> QED
  BY <1>1, Inductive, PTL

\* A reader that abandoned capture holds no block: Close has nothing to reclaim.
THEOREM NothingReclaimed == Spec => []AbandonedHoldsNothing
<1>1. IInv => AbandonedHoldsNothing
  BY DEF IInv, AbandonedHoldsNothing, ReaderInv
<1> QED
  BY <1>1, Inductive, PTL

\* No step writes to a block that was sent and not yet processed.
THEOREM Frozen == Spec => QueuedBlocksFrozen
<1>1. IInv /\ [Next]_vars
        => [\A b \in Blocks : b = hand \/ InQueue(b) => blk'[b] = blk[b]]_vars
  BY ContentStep
<1> QED
  BY <1>1, Inductive, PTL DEF Spec, QueuedBlocksFrozen

-----------------------------------------------------------------------------
(* The inductive invariant of the requests *)

\* The first unit of the n-th block is preceded by that many.
Off(n) == n * BlockSize
InPlace(c) == \A i \in DOMAIN c.data : c.data[i] = Off(c.seq) + i

\* The blocks of r that were sent and not processed yet, and their order.
Transit(b) == b = hand \/ InQueue(b)
Mine(r, b) == Transit(b) /\ blk[b].requestID = r
Ahead(b, c) ==
    \/ b = hand /\ InQueue(c)
    \/ \E i, j \in DOMAIN queue : i < j /\ queue[i] = b /\ queue[j] = c

\* How many blocks that are not final ones r has sent.
SentSeq(r) ==
    IF current[r] # NoBlock \/ pc[r] = "release" THEN seq[r] - 1 ELSE seq[r]

\* finish has been and has nothing left to do.
Finished(r) == finalized[r] /\ pc[r] \in {"idle", "finish", "closed"}

\* ... and nothing was given up.
Over(r) ==
    /\ Finished(r) /\ drops[r] = 0
    /\ current[r] = NoBlock /\ next[r] = NoBlock

\* A reader gives up once.
DropInv(r) ==
    /\ drops[r] <= 1
    /\ abandoned[r] => drops[r] = 1
    /\ drops[r] = 1 => abandoned[r] \/ Finished(r)

\* Where in the body the reader is, and what is in the blocks it holds.
CurrentInv(r) ==
    LET c == blk[current[r]]
    IN  /\ seq[r] >= 1 /\ c.seq = seq[r] - 1
        /\ InPlace(c)
        /\ pos[r] > 0 /\ pos[r] - todo[r] = Off(c.seq) + Len(c.data)
        /\ c.final <=> pc[r] \in {"final", "unsent"}
        /\ c.abort => pc[r] \in {"abort", "release"}
        /\ pc[r] = "abort" => c.abort
        /\ pc[r] \in {"next", "send"} => Len(c.data) = BlockSize

NextInv(r) ==
    LET c == blk[next[r]]
    IN  /\ pc[r] = "send" => c.data = <<>> /\ ~c.final /\ ~c.abort
        /\ pc[r] = "final" => /\ c.data = <<>> /\ c.final /\ ~c.abort
                              /\ c.seq = seq[r]

PositionInv(r) ==
    /\ pc[r] \in {"get", "write", "next"} => todo[r] > 0
    /\ pc[r] = "send" => (next[r] # NoBlock <=> todo[r] > 0)
    /\ pc[r] \in {"idle", "finish", "sentinel", "final", "unsent", "closed"}
         => todo[r] = 0
    /\ pc[r] = "closed" => abandoned[r] \/ finalized[r]
    /\ pc[r] \in {"sentinel", "final", "unsent"} => finalized[r]
    /\ pc[r] \in {"sentinel", "release"} => seq[r] >= 1
    /\ current[r] # NoBlock => CurrentInv(r)
    /\ next[r] # NoBlock => NextInv(r)
    /\ current[r] = NoBlock /\ pc[r] = "final" => seq[r] >= 1
    /\ current[r] = NoBlock
       /\ \/ pc[r] \in {"get", "sentinel", "final"}
          \/ pc[r] \in {"idle", "finish"} /\ ~finalized[r] /\ ~abandoned[r]
       => pos[r] - todo[r] = Off(seq[r])

\* What a block on its way to the assembler says, and the order they come in.
SentInv(r) ==
    \A b \in Blocks : Mine(r, b) =>
        LET c == blk[b]
        IN  /\ c.final =>
                 /\ Over(r)
                 /\ c.seq <= seq[r] /\ seq[r] >= 1 /\ pos[r] > 0
                 /\ Off(c.seq) + Len(c.data) = pos[r]
                 /\ ~c.abort
            /\ ~c.final => c.seq < SentSeq(r)
            /\ c.abort => drops[r] = 1
            /\ ~c.final /\ ~c.abort => Len(c.data) = BlockSize
            /\ InPlace(c)
            /\ \A d \in Blocks : Mine(r, d) /\ Ahead(b, d)
                 => c.seq < blk[d].seq /\ ~c.final

\* A block of r was accepted, or something of r counted.
Counted(r) == \E c \in Counters : stats[r][c] > 0
Touched(r) == r \in DOMAIN inflight \/ Counted(r) \/ dispatched[r] # <<>>

\* A buffer holds the beginning of the body, and what the assembler has counted
\* or dispatched has none and gets none.
BufferInv(r) ==
    /\ r \in DOMAIN inflight =>
         /\ inflight[r].nextSeq >= 1
         /\ Len(inflight[r].data) = Off(inflight[r].nextSeq)
         /\ \A i \in DOMAIN inflight[r].data : inflight[r].data[i] = i
         /\ ~Counted(r)
    /\ Touched(r) => /\ SentSeq(r) >= 1
                     /\ \A b \in Blocks : Mine(r, b) => blk[b].seq >= 1
    /\ dispatched[r] # <<>> =>
         /\ Len(dispatched[r]) = 1
         /\ r \notin DOMAIN inflight
         /\ ~Counted(r)
         /\ Over(r)
         /\ \A b \in Blocks : ~Mine(r, b)

\* As long as nothing of r is lost, all it has sent since what the buffer holds
\* is under way: no block is ever out of order.
ChainInv(r) ==
    running /\ ~Lost(r) /\ dispatched[r] = <<>> =>
        /\ BufferOf(r).nextSeq <= SentSeq(r)
        /\ \A b \in Blocks : Mine(r, b) => blk[b].seq >= BufferOf(r).nextSeq
        /\ \A n \in BufferOf(r).nextSeq .. (SentSeq(r) - 1) :
             \E b \in Blocks : Mine(r, b) /\ blk[b].seq = n

\* The final block is under way when the reader has finished.
FinalInv(r) ==
    pos[r] > 0 /\ ~Lost(r) /\ dispatched[r] = <<>> /\ Finished(r)
      => \E b \in Blocks : Mine(r, b) /\ blk[b].final

\* The assembler returns when nothing can be sent any more.
ExitInv == ~running => ~queueOpen /\ queue = <<>> /\ hand = NoBlock

Fate(r) ==
    /\ DropInv(r) /\ PositionInv(r) /\ SentInv(r) /\ BufferInv(r)
    /\ ChainInv(r) /\ FinalInv(r)

BytesInv ==
    /\ IsFiniteSet(DOMAIN inflight)
    /\ InflightAccounting

PInv == IInv /\ ExitInv /\ BytesInv /\ \A r \in Requests : Fate(r)

-----------------------------------------------------------------------------
(* The assembler's total *)

Sum(f, S) == SumFunctionOnSet(f, S)
HeldNow == [r \in Requests |-> Held(r)]

\* What the buffers hold is a natural number each.
LEMMA HeldType ==
    ASSUME IInv
    PROVE  /\ \A r \in Requests : Held(r) \in Nat
           /\ inflightBytes \in Int
           /\ DOMAIN inflight \subseteq Requests
<1>1. ASSUME NEW r \in Requests PROVE Held(r) \in Nat
  <2>1. CASE r \in DOMAIN inflight
    <3>1. inflight[r] \in PayloadBuffer
      BY <2>1 DEF IInv, TypeOK, AsmTypeOK
    <3>2. Len(inflight[r].data) \in Nat
      BY <3>1 DEF PayloadBuffer
    <3> QED
      BY <2>1, <3>2 DEF Held
  <2>2. CASE r \notin DOMAIN inflight
    BY <2>2 DEF Held
  <2> QED
    BY <2>1, <2>2
<1> QED
  BY <1>1 DEF IInv, TypeOK, AsmTypeOK

\* Discarding a buffer subtracts what it held.
LEMMA DiscardBytes ==
    ASSUME IInv, BytesInv, running, NEW r \in Requests, Discard(r)
    PROVE  /\ IsFiniteSet(DOMAIN inflight')
           /\ inflightBytes' <= Budget
           /\ inflightBytes' = Sum(HeldNow', DOMAIN inflight')
<1> DEFINE D == DOMAIN inflight
<1>1. /\ IsFiniteSet(D) /\ inflightBytes <= Budget /\ Budget \in Nat
      /\ inflightBytes = Sum(HeldNow, D)
  BY AssemblerAssumption DEF BytesInv, InflightAccounting, Sum, HeldNow
<1>2. /\ \A z \in Requests : Held(z) \in Nat
      /\ inflightBytes \in Int /\ D \subseteq Requests
  BY HeldType
<1>3. /\ inflight' = [q \in D \ {r} |-> inflight[q]]
      /\ inflightBytes' = inflightBytes - Held(r)
  BY DEF Discard
<1>4. DOMAIN inflight' = D \ {r}
  BY <1>3
<1>5. \A z \in D \ {r} : Held(z)' = Held(z)
  BY <1>3, <1>4 DEF Held
<1>6. IsFiniteSet(D \ {r})
  BY <1>1, FS_RemoveElement
<1>7. Sum(HeldNow', D \ {r}) = Sum(HeldNow, D \ {r})
  <2> DEFINE f == HeldNow
             g == HeldNow'
  <2>1. \A z \in D \ {r} : g[z] = f[z]
    BY <1>2, <1>5 DEF HeldNow
  <2> HIDE DEF f, g
  <2>2. SumFunctionOnSet(g, D \ {r}) = SumFunctionOnSet(f, D \ {r})
    BY <1>6, <2>1, SumSame
  <2> QED
    BY <2>2 DEF Sum, f, g
<1>8. Sum(HeldNow, D) = Held(r) + Sum(HeldNow, D \ {r})
  <2>1. CASE r \in D
    <3> DEFINE f == HeldNow
    <3>1. (\A z \in D : f[z] \in Int) /\ f[r] = Held(r)
      BY <1>2 DEF HeldNow
    <3> HIDE DEF f, D
    <3>2. SumFunctionOnSet(f, D) = f[r] + SumFunctionOnSet(f, D \ {r})
      BY <1>1, <2>1, <3>1, SumRemove
    <3> QED
      BY <3>1, <3>2 DEF Sum, f
  <2>2. CASE r \notin D
    <3>1. D \ {r} = D /\ Held(r) = 0
      BY <2>2 DEF Held
    <3> QED
      BY ONLY <1>1, <1>2, <3>1
  <2> QED
    BY <2>1, <2>2
<1>9. inflightBytes' = Sum(HeldNow, D \ {r}) /\ inflightBytes' <= Budget
  <2> DEFINE A == Sum(HeldNow, D)
             B == Sum(HeldNow, D \ {r})
             h == Held(r)
             old == inflightBytes
             new == inflightBytes'
  <2>1. h \in Nat /\ old \in Int /\ A = h + B /\ old = A /\ new = old - h
        /\ old <= Budget /\ Budget \in Nat
    BY <1>1, <1>2, <1>3, <1>8
  <2>2. B \in Int
    <3> DEFINE f == HeldNow
    <3>1. \A z \in D \ {r} : f[z] \in Int
      BY <1>2 DEF HeldNow
    <3> HIDE DEF f, D
    <3>2. SumFunctionOnSet(f, D \ {r}) \in Int
      BY <1>6, <3>1, SumType
    <3> QED
      BY <3>2 DEF Sum, f
  <2> HIDE DEF A, B, h, old, new
  <2>3. new = B /\ new <= Budget
    BY <2>1, <2>2
  <2> QED
    BY <2>3 DEF new, B
<1> QED
  BY <1>4, <1>6, <1>7, <1>9

\* What an accepted block does to the assembler's map and total.
LEMMA AppendFacts ==
    ASSUME IInv, AsmAppend, NEW r \in Requests, r = Rid
    PROVE  /\ inflight' = [q \in DOMAIN inflight \cup {r} |->
                IF q = r THEN [data |-> Appended, nextSeq |-> BufferOf(r).nextSeq + 1]
                ELSE inflight[q]]
           /\ inflightBytes' = NewBytes /\ ~OverBudget
           /\ Appended = BufferOf(r).data \o blk[hand].data
           /\ BufferOf(r).data \in Seq(Units) /\ blk[hand].data \in Seq(Units)
           /\ BufferOf(r).nextSeq \in Nat
<1>1. hand # NoBlock /\ ~OverBudget /\ inflightBytes' = NewBytes
  BY DEF AsmAppend, PutHand, Accepted
<1>2. inflight' = [q \in DOMAIN inflight \cup {Rid} |->
        IF q = Rid THEN [data |-> Appended, nextSeq |-> BufferOf(q).nextSeq + 1]
        ELSE inflight[q]]
  BY DEF AsmAppend
<1>3. inflight' = [q \in DOMAIN inflight \cup {r} |->
        IF q = r THEN [data |-> Appended, nextSeq |-> BufferOf(r).nextSeq + 1]
        ELSE inflight[q]]
  BY <1>2
<1>4. hand \in Blocks /\ BufferOf(r) \in PayloadBuffer
  BY <1>1, HandFacts
<1>5. blk[hand].data \in Seq(Units) /\ BufferOf(r).data \in Seq(Units)
      /\ BufferOf(r).nextSeq \in Nat
  BY <1>4 DEF IInv, TypeOK, PoolTypeOK, AuditBlock, PayloadBuffer
<1>6. Appended = BufferOf(r).data \o blk[hand].data
  BY DEF Appended
<1> QED
  BY <1>1, <1>3, <1>5, <1>6

\* Appending a block adds its bytes, which the budget was checked for.
LEMMA AppendBytes ==
    ASSUME IInv, BytesInv, running, AsmAppend, NEW r \in Requests, r = Rid
    PROVE  /\ IsFiniteSet(DOMAIN inflight')
           /\ inflightBytes' <= Budget
           /\ inflightBytes' = Sum(HeldNow', DOMAIN inflight')
<1> DEFINE D == DOMAIN inflight
           E == D \cup {r}
           f == HeldNow
           g == HeldNow'
           n == Len(blk[hand].data)
<1>1. /\ IsFiniteSet(D) /\ Budget \in Nat /\ inflightBytes \in Int
      /\ inflightBytes = SumFunctionOnSet(f, D)
      /\ \A z \in Requests : Held(z) \in Nat
      /\ D \subseteq Requests
  BY HeldType, AssemblerAssumption DEF BytesInv, InflightAccounting, HeldNow
<1>2. /\ inflight' = [q \in E |->
           IF q = r THEN [data |-> Appended, nextSeq |-> BufferOf(r).nextSeq + 1]
           ELSE inflight[q]]
      /\ inflightBytes' = NewBytes /\ ~OverBudget
      /\ Appended = BufferOf(r).data \o blk[hand].data
      /\ BufferOf(r).data \in Seq(Units) /\ blk[hand].data \in Seq(Units)
  BY AppendFacts
<1>3. Len(BufferOf(r).data) = Held(r)
  BY DEF BufferOf, Held
<1>4. n \in Nat /\ Len(Appended) = Held(r) + n
  <2> DEFINE s == BufferOf(r).data
             t == blk[hand].data
  <2>1. s \in Seq(Units) /\ t \in Seq(Units) /\ Appended = s \o t
    BY <1>2
  <2> HIDE DEF s, t
  <2>2. Len(t) \in Nat /\ Len(s \o t) = Len(s) + Len(t)
    BY <2>1
  <2> QED
    BY <1>3, <2>1, <2>2 DEF s, t
<1>5. DOMAIN inflight' = E /\ inflight'[r].data = Appended
      /\ \A z \in D \ {r} : inflight'[z] = inflight[z]
  BY <1>2
<1>6. Held(r)' = Held(r) + n
  BY <1>4, <1>5 DEF Held
<1>7. \A z \in D \ {r} : Held(z)' = Held(z)
  BY <1>5 DEF Held
<1>8. inflightBytes' = inflightBytes + n /\ inflightBytes' <= Budget
  BY <1>1, <1>2, <1>4 DEF NewBytes, OverBudget
<1>9. IsFiniteSet(E)
  BY <1>1, FS_AddElement
<1>10. /\ \A z \in E : f[z] \in Int
       /\ g[r] = f[r] + n /\ g[r] \in Int
       /\ \A z \in D \ {r} : g[z] = f[z]
       /\ \A z \in E : g[z] \in Int
       /\ r \notin D => f[r] = 0
  <2>1. \A z \in Requests : f[z] = Held(z) /\ g[z] = Held(z)'
    BY DEF HeldNow
  <2>2. r \notin D => Held(r) = 0
    BY DEF Held
  <2> HIDE DEF f, g, n
  <2> QED
    BY <1>1, <1>4, <1>6, <1>7, <2>1, <2>2
<1>11. SumFunctionOnSet(g, E) = SumFunctionOnSet(f, D) + n
  <2>0. n \in Nat
    BY <1>4
  <2>1. CASE r \in D
    <3>1. E = D
      BY <2>1
    <3> HIDE DEF D, f, g, n, E
    <3>2. SumFunctionOnSet(g, D) = SumFunctionOnSet(f, D) + g[r] - f[r]
      <4>1. (\A z \in D : f[z] \in Int) /\ g[r] \in Int
        BY <1>10, <3>1
      <4>2. \A z \in D \ {r} : g[z] = f[z]
        BY <1>10
      <4>3. IsFiniteSet(D)
        BY <1>1
      <4> QED
        BY ONLY <2>1, <4>1, <4>2, <4>3, SumUpdate
    <3>3. SumFunctionOnSet(f, D) \in Int
      BY <1>1, <1>10, <3>1, SumType
    <3> QED
      BY <1>10, <2>0, <2>1, <3>1, <3>2, <3>3
  <2>2. CASE r \notin D
    <3>1. \A z \in D : g[z] = f[z]
      BY <1>10, <2>2
    <3> HIDE DEF D, f, g, n
    <3>2. SumFunctionOnSet(g, D) = SumFunctionOnSet(f, D)
      BY <1>1, <3>1, SumSame
    <3>3. SumFunctionOnSet(g, E) = SumFunctionOnSet(g, D) + g[r]
      <4>1. \A z \in D \cup {r} : g[z] \in Int
        BY <1>10 DEF E
      <4>2. SumFunctionOnSet(g, D \cup {r}) = SumFunctionOnSet(g, D) + g[r]
        BY <1>1, <2>2, <4>1, SumAdd
      <4> QED
        BY <4>2 DEF E
    <3>4. g[r] = n
      BY <1>10, <2>0, <2>2
    <3> QED
      BY <3>2, <3>3, <3>4
  <2> QED
    BY <2>1, <2>2
<1> QED
  BY <1>1, <1>5, <1>8, <1>9, <1>11 DEF Sum

\* Nothing is sent, received or processed after the assembler has returned.
LEMMA ExitStep == IInv /\ ExitInv /\ [Next]_vars => ExitInv'
<1> SUFFICES ASSUME IInv, ExitInv, [Next]_vars PROVE ExitInv'
  OBVIOUS
<1> USE DEF ExitInv, queueVars
<1>1. CASE Readers
  <2>1. PICK r \in Requests : ReaderStep(r) \/ TransportStep(r)
    BY <1>1 DEF Readers
  <2>2. UNCHANGED queueOpen /\ (queueOpen \/ UNCHANGED queue)
    <3>1. CASE SendFull(r) \/ SendAbort(r) \/ SendFinal(r)
      BY <3>1 DEF SendFull, SendAbort, SendFinal, CanSend, Enqueue
    <3>2. CASE ~(SendFull(r) \/ SendAbort(r) \/ SendFinal(r))
      BY <2>1, <3>2 DEF ReaderStep, TransportStep, GetCurrent, GetCurrentFails,
         WriteBlock, GetNext, GetNextFails, SendFullFails, SendAbortFails,
         ReleaseCurrent, ReleaseNext, Finish, GetSentinel, GetSentinelFails,
         SendFinalFails, PutFinal, Read, Close
    <3> QED
      BY <3>1, <3>2
  <2> QED
    BY <1>1, <2>2 DEF Readers, asmVars
<1>2. CASE Asm
  <2>1. CASE ProcessBlock
    BY <2>1 DEF ProcessBlock, AsmAbort, AsmRefuse, AsmOutOfOrder, AsmTooMuch,
                AsmAppend, AsmDispatch, AsmWorkerFull, PutHand
  <2>2. CASE ~ProcessBlock
    BY <1>2, <2>2 DEF Asm, AsmStep, AsmReceive, AsmExit, SweepStale, WorkerTake
  <2> QED
    BY <2>1, <2>2
<1>3. CASE Shutdown \/ Terminating \/ UNCHANGED vars
  BY <1>3 DEF Shutdown, CloseQueue, Terminating, vars, asmVars
<1> QED
  BY <1>1, <1>2, <1>3 DEF Next

\* Every step preserves the accounting.
LEMMA BytesStep == IInv /\ ExitInv /\ BytesInv /\ [Next]_vars => BytesInv'
<1> SUFFICES ASSUME IInv, ExitInv, BytesInv, [Next]_vars PROVE BytesInv'
  OBVIOUS
<1>1. ASSUME UNCHANGED <<inflight, inflightBytes, running>> PROVE BytesInv'
  <2>1. HeldNow' = HeldNow
    BY <1>1 DEF HeldNow, Held
  <2> QED
    BY <1>1, <2>1 DEF BytesInv, InflightAccounting, HeldNow
<1>2. ASSUME UNCHANGED running,
             IsFiniteSet(DOMAIN inflight'), inflightBytes' <= Budget,
             inflightBytes' = Sum(HeldNow', DOMAIN inflight')
      PROVE  BytesInv'
  BY <1>2 DEF BytesInv, InflightAccounting, Sum, HeldNow
<1>3. CASE Readers \/ Shutdown \/ Terminating \/ UNCHANGED vars
  BY <1>1, <1>3 DEF Readers, Shutdown, Terminating, vars, asmVars
<1>4. CASE Asm
  <2>1. CASE AsmReceive \/ WorkerTake
    BY <1>1, <2>1 DEF AsmReceive, WorkerTake
  <2>2. CASE AsmExit
    <3>1. DOMAIN inflight' = {} /\ ~running' /\ UNCHANGED inflightBytes
      BY <2>2 DEF AsmExit
    <3> QED
      BY <3>1, FS_EmptySet DEF BytesInv, InflightAccounting
  <2>3. CASE \E r \in Requests : SweepStale(r)
    BY <1>2, <2>3, DiscardBytes DEF SweepStale
  <2>4. CASE ProcessBlock
    <3>1. hand # NoBlock /\ running /\ UNCHANGED running
      BY <2>4 DEF ExitInv, ProcessBlock, AsmAbort, AsmRefuse, AsmOutOfOrder, AsmTooMuch,
                 AsmAppend, AsmDispatch, AsmWorkerFull, PutHand
    <3>2. PICK r \in Requests : r = Rid
      BY <3>1, HandFacts
    <3>3. CASE AsmRefuse
      BY <1>1, <3>1, <3>3 DEF AsmRefuse
    <3>4. CASE AsmAppend
      BY <1>2, <3>1, <3>2, <3>4, AppendBytes
    <3>5. CASE Discard(Rid)
      <4>1. Discard(r)
        BY <3>2, <3>5 DEF Discard, Held
      <4> QED
        BY <1>2, <3>1, <4>1, DiscardBytes
    <3> QED
      BY <2>4, <3>2, <3>3, <3>4, <3>5
         DEF ProcessBlock, AsmAbort, AsmOutOfOrder, AsmTooMuch, AsmDispatch,
             AsmWorkerFull
  <2> QED
    BY <1>4, <2>1, <2>2, <2>3, <2>4 DEF Asm, AsmStep
<1> QED
  BY <1>3, <1>4 DEF Next

-----------------------------------------------------------------------------
(* Positions, and the blocks on their way *)

\* Counting in blocks: where each of them begins.
LEMMA OffFacts ==
    /\ Off(0) = 0
    /\ \A n \in Nat : Off(n) \in Nat /\ Off(n + 1) = Off(n) + BlockSize
    /\ \A n \in Nat : n >= 1 => Off(n) >= 1
<1>0. BlockSize \in Nat /\ BlockSize >= 1
  BY BlocksAssumption
<1>1. Off(0) = 0
  BY <1>0 DEF Off
<1>2. ASSUME NEW n \in Nat PROVE Off(n) \in Nat /\ Off(n + 1) = Off(n) + BlockSize
  BY <1>0 DEF Off
<1>3. ASSUME NEW n \in Nat, n >= 1 PROVE Off(n) >= 1
  <2>1. PICK m \in Nat : n = m + 1
    <3>1. n - 1 \in Nat /\ n = (n - 1) + 1
      BY <1>3
    <3> QED
      BY <3>1
  <2>2. Off(m) \in Nat /\ Off(n) = Off(m) + BlockSize
    BY <1>2, <2>1
  <2> QED
    BY <1>0, <2>2
<1> QED
  BY <1>1, <1>2, <1>3

\* Nothing was sent or received: the same blocks are on their way, in the same
\* order.
LEMMA TransitSame ==
    ASSUME UNCHANGED <<queue, hand>>
    PROVE  /\ \A b : Transit(b)' <=> Transit(b)
           /\ \A b, c : Ahead(b, c)' <=> Ahead(b, c)
BY DEF Transit, InQueue, Ahead

\* A block that is sent comes behind all the others.
LEMMA TransitSend ==
    ASSUME queue \in Seq(Blocks), hand \in Blocks \cup {NoBlock},
           NEW b \in Blocks, ~Transit(b),
           queue' = Append(queue, b), UNCHANGED hand
    PROVE  /\ \A c \in Blocks : Transit(c)' <=> Transit(c) \/ c = b
           /\ \A c, d \in Blocks :
                Ahead(c, d)' <=> Ahead(c, d) \/ (Transit(c) /\ d = b)
<1> DEFINE n == Len(queue)
<1>1. /\ n \in Nat
      /\ DOMAIN queue = 1..n /\ DOMAIN queue' = 1..(n + 1)
      /\ \A i \in 1..n : queue'[i] = queue[i]
      /\ queue'[n + 1] = b
  OBVIOUS
<1> HIDE DEF n
<1>2. \A c \in Blocks : InQueue(c)' <=> InQueue(c) \/ c = b
  BY <1>1 DEF InQueue
<1>3. ASSUME NEW c \in Blocks, NEW d \in Blocks
      PROVE  (\E i, j \in DOMAIN queue' : i < j /\ queue'[i] = c /\ queue'[j] = d)
             <=> \/ \E i, j \in DOMAIN queue : i < j /\ queue[i] = c /\ queue[j] = d
                 \/ InQueue(c) /\ d = b
  <2>1. ASSUME NEW i \in 1..n, NEW j \in 1..n, i < j, queue[i] = c, queue[j] = d
        PROVE  i \in DOMAIN queue' /\ j \in DOMAIN queue'
               /\ queue'[i] = c /\ queue'[j] = d
    BY <1>1, <2>1
  <2>2. ASSUME NEW i \in 1..n, queue[i] = c, d = b
        PROVE  i \in DOMAIN queue' /\ n + 1 \in DOMAIN queue' /\ i < n + 1
               /\ queue'[i] = c /\ queue'[n + 1] = d
    BY <1>1, <2>2
  <2>3. ASSUME NEW i \in 1..(n + 1), NEW j \in 1..(n + 1), i < j,
               queue'[i] = c, queue'[j] = d
        PROVE  i \in 1..n /\ queue[i] = c
               /\ ((j \in 1..n /\ queue[j] = d) \/ d = b)
    BY <1>1, <2>3
  <2> QED
    BY <1>1, <2>1, <2>2, <2>3 DEF InQueue
<1>4. ~InQueue(b) /\ b # hand
  BY DEF Transit
<1>5. \A c \in Blocks : Transit(c)' <=> Transit(c) \/ c = b
  BY <1>2 DEF Transit
<1>6. ASSUME NEW c \in Blocks, NEW d \in Blocks
      PROVE  Ahead(c, d)' <=> Ahead(c, d) \/ (Transit(c) /\ d = b)
  <2> DEFINE Before == \E i, j \in DOMAIN queue :
                         i < j /\ queue[i] = c /\ queue[j] = d
             After == \E i, j \in DOMAIN queue' :
                        i < j /\ queue'[i] = c /\ queue'[j] = d
  <2>1. Ahead(c, d) <=> (c = hand /\ InQueue(d)) \/ Before
    BY DEF Ahead
  <2>2. Ahead(c, d)' <=> (c = hand /\ InQueue(d)') \/ After
    BY DEF Ahead
  <2>3. After <=> Before \/ (InQueue(c) /\ d = b)
    BY <1>3
  <2>4. InQueue(d)' <=> InQueue(d) \/ d = b
    BY <1>2
  <2> HIDE DEF Before, After
  <2> QED
    BY <2>1, <2>2, <2>3, <2>4 DEF Transit
<1> QED
  BY <1>5, <1>6

\* A block that is received was the first of the queue and stays the first.
LEMMA TransitReceive ==
    ASSUME queue \in Seq(Blocks), queue # <<>>, hand = NoBlock,
           hand' = Head(queue), queue' = Tail(queue),
           \A i, j \in DOMAIN queue : queue[i] = queue[j] => i = j
    PROVE  /\ \A c \in Blocks : Transit(c)' <=> Transit(c)
           /\ \A c, d \in Blocks : Ahead(c, d)' <=> Ahead(c, d)
<1> DEFINE n == Len(queue)
<1>1. /\ n \in Nat /\ n >= 1
      /\ DOMAIN queue = 1..n /\ DOMAIN queue' = 1..(n - 1)
      /\ \A i \in 1..(n - 1) : queue'[i] = queue[i + 1]
      /\ hand' = queue[1] /\ hand' \in Blocks
  OBVIOUS
<1> HIDE DEF n
<1>2. ASSUME NEW c \in Blocks PROVE InQueue(c) <=> InQueue(c)' \/ c = hand'
  <2>1. ASSUME NEW i \in 1..n, queue[i] = c PROVE InQueue(c)' \/ c = hand'
    <3>1. CASE i = 1
      BY <1>1, <2>1, <3>1
    <3>2. CASE i # 1
      <4>1. i - 1 \in 1..(n - 1) /\ queue'[i - 1] = c
        <5>1. i - 1 \in 1..(n - 1) /\ (i - 1) + 1 = i
          BY <1>1, <3>2
        <5> QED
          BY <1>1, <2>1, <5>1
      <4> QED
        BY <1>1, <4>1 DEF InQueue
    <3> QED
      BY <3>1, <3>2
  <2>2. ASSUME NEW i \in 1..(n - 1), queue'[i] = c PROVE InQueue(c)
    <3>1. i + 1 \in 1..n /\ queue[i + 1] = c
      BY <1>1, <2>2
    <3> QED
      BY <1>1, <3>1 DEF InQueue
  <2>3. 1 \in DOMAIN queue
    BY <1>1
  <2> QED
    BY <1>1, <2>1, <2>2, <2>3 DEF InQueue
<1>3. hand \notin Blocks /\ \A c \in Blocks : ~(c = hand)
  BY BlocksAssumption
<1>4. ASSUME NEW c \in Blocks, NEW d \in Blocks PROVE Ahead(c, d)' <=> Ahead(c, d)
  <2>1. Ahead(c, d) <=>
          \E i, j \in DOMAIN queue : i < j /\ queue[i] = c /\ queue[j] = d
    BY <1>3 DEF Ahead
  <2>2. Ahead(c, d)' <=>
          \/ c = hand' /\ InQueue(d)'
          \/ \E i, j \in DOMAIN queue' : i < j /\ queue'[i] = c /\ queue'[j] = d
    BY DEF Ahead
  <2>3. ASSUME NEW i \in 1..n, NEW j \in 1..n, i < j, queue[i] = c, queue[j] = d
        PROVE  Ahead(c, d)'
    <3>1. j - 1 \in 1..(n - 1) /\ (j - 1) + 1 = j
      BY <1>1, <2>3
    <3>2. j - 1 \in DOMAIN queue' /\ queue'[j - 1] = d
      BY <1>1, <2>3, <3>1
    <3>3. CASE i = 1
      BY <1>1, <2>2, <2>3, <3>2, <3>3 DEF InQueue
    <3>4. CASE i # 1
      <4>1. i - 1 \in 1..(n - 1) /\ (i - 1) + 1 = i /\ i - 1 < j - 1
        BY <1>1, <2>3, <3>4
      <4>2. i - 1 \in DOMAIN queue' /\ queue'[i - 1] = c
        BY <1>1, <2>3, <4>1
      <4> QED
        BY <2>2, <3>2, <4>1, <4>2
    <3> QED
      BY <3>3, <3>4
  <2>4. ASSUME c = hand', InQueue(d)' PROVE Ahead(c, d)
    <3>1. PICK j \in 1..(n - 1) : queue'[j] = d
      BY <1>1, <2>4 DEF InQueue
    <3>2. 1 \in DOMAIN queue /\ j + 1 \in DOMAIN queue /\ 1 < j + 1
          /\ queue[1] = c /\ queue[j + 1] = d
      BY <1>1, <2>4, <3>1
    <3> QED
      BY <2>1, <3>2
  <2>5. ASSUME NEW i \in 1..(n - 1), NEW j \in 1..(n - 1), i < j,
               queue'[i] = c, queue'[j] = d
        PROVE  Ahead(c, d)
    <3>1. i + 1 \in DOMAIN queue /\ j + 1 \in DOMAIN queue /\ i + 1 < j + 1
          /\ queue[i + 1] = c /\ queue[j + 1] = d
      BY <1>1, <2>5
    <3> QED
      BY <2>1, <3>1
  <2> QED
    BY <1>1, <2>1, <2>2, <2>3, <2>4, <2>5
<1>5. \A c \in Blocks : Transit(c)' <=> Transit(c)
  BY <1>2, <1>3 DEF Transit
<1> QED
  BY <1>4, <1>5

\* The block in the assembler's hand was ahead of all the others.
LEMMA TransitPut ==
    ASSUME IInv, PutHand
    PROVE  /\ hand \in Blocks /\ Transit(hand) /\ ~Ahead(hand, hand)
           /\ \A c \in Blocks : Transit(c)' <=> Transit(c) /\ c # hand
           /\ \A c, d \in Blocks : Ahead(c, d)' <=> Ahead(c, d) /\ c # hand
           /\ \A c \in Blocks : Transit(c) /\ c # hand => Ahead(hand, c)
<1>1. hand \in Blocks /\ hand # NoBlock /\ hand' = NoBlock /\ UNCHANGED queue
      /\ ~InQueue(hand)
  BY DEF PutHand, queueVars, IInv, TypeOK, AsmTypeOK, BlockConservation, NoneShared
<1>2. \A c \in Blocks : c # NoBlock
  BY BlocksAssumption
<1>3. \A c \in Blocks : InQueue(c)' <=> InQueue(c)
  BY <1>1 DEF InQueue
<1>4. \A c \in Blocks : Transit(c)' <=> Transit(c) /\ c # hand
  BY <1>1, <1>2, <1>3 DEF Transit
<1>5. ASSUME NEW c \in Blocks, NEW d \in Blocks
      PROVE  Ahead(c, d)' <=> Ahead(c, d) /\ c # hand
  <2>1. Ahead(c, d)' <=>
          \E i, j \in DOMAIN queue : i < j /\ queue[i] = c /\ queue[j] = d
    BY <1>1, <1>2 DEF Ahead
  <2>2. \A i \in DOMAIN queue : queue[i] # hand
    BY <1>1 DEF InQueue
  <2> QED
    BY <2>1, <2>2 DEF Ahead
<1>6. \A c \in Blocks : Transit(c) /\ c # hand => Ahead(hand, c)
  BY DEF Transit, Ahead
<1>7. ~Ahead(hand, hand)
  BY <1>1 DEF Ahead, InQueue
<1> QED
  BY <1>1, <1>4, <1>5, <1>6, <1>7 DEF Transit

\* Only blocks on their way are ahead of others.
LEMMA AheadTransit == \A b, c : Ahead(b, c) => Transit(b) /\ Transit(c)
BY DEF Ahead, Transit, InQueue

-----------------------------------------------------------------------------
(* What a step of reader r does to r *)

\* A step that sends nothing.  The last line: it finishes r only when there was
\* nothing to send.
Quiet(r) ==
    /\ UNCHANGED queue
    /\ Over(r) => Over(r)' /\ UNCHANGED <<seq[r], pos[r]>>
    /\ SentSeq(r)' >= SentSeq(r) /\ drops'[r] >= drops[r]
    /\ SentSeq(r)' = SentSeq(r) \/ drops'[r] > 0
    /\ pos'[r] > 0 /\ drops'[r] = 0 /\ Finished(r)'
         => Finished(r) /\ drops[r] = 0 /\ UNCHANGED pos[r]

\* A step that sends block b.
Sends(r, b) ==
    LET c == blk[b]
    IN  /\ ~Transit(b) /\ queue' = Append(queue, b) /\ blk'[b] = blk[b]
        /\ c.requestID = r /\ InPlace(c)
        /\ ~Finished(r)
        /\ SentSeq(r)' >= SentSeq(r) /\ drops'[r] >= drops[r]
        /\ c.seq >= SentSeq(r)
        /\ \/ SentSeq(r)' = SentSeq(r)
           \/ SentSeq(r)' = SentSeq(r) + 1 /\ c.seq = SentSeq(r)
        /\ ~c.final => c.seq < SentSeq(r)'
        /\ c.final => /\ Over(r)'
                      /\ c.seq <= seq'[r] /\ seq'[r] >= 1 /\ pos'[r] > 0
                      /\ Off(c.seq) + Len(c.data) = pos'[r]
                      /\ ~c.abort
        /\ c.abort => drops'[r] = 1
        /\ ~c.final /\ ~c.abort => Len(c.data) = BlockSize
        /\ Finished(r)' => c.final \/ drops'[r] > 0

\* What the invariants say of one reader.
LEMMA ReaderFacts ==
    ASSUME IInv, NEW r \in Requests
    PROVE  /\ pc \in [Requests -> ReaderPC]
           /\ current \in [Requests -> Blocks \cup {NoBlock}]
           /\ next \in [Requests -> Blocks \cup {NoBlock}]
           /\ seq \in [Requests -> Nat] /\ drops \in [Requests -> Nat]
           /\ todo \in [Requests -> 0..MaxBody]
           /\ pos \in [Requests -> 0..MaxBody] /\ body \in [Requests -> 0..MaxBody]
           /\ abandoned \in [Requests -> BOOLEAN]
           /\ finalized \in [Requests -> BOOLEAN]
           /\ closing \in [Requests -> BOOLEAN] /\ atEOF \in [Requests -> BOOLEAN]
           /\ todo[r] \in Nat /\ pos[r] \in Nat /\ body[r] \in Nat
           /\ blk \in [Blocks -> AuditBlock] /\ pool \subseteq Blocks
           /\ ReaderInv(r) /\ NoBlock \notin Blocks
<1>1. MaxBody \in Nat /\ NoBlock \notin Blocks
  BY BodyAssumption, BlocksAssumption
<1>2. TypeOK /\ ReaderInv(r)
  BY DEF IInv
<1>3. todo[r] \in 0..MaxBody /\ pos[r] \in 0..MaxBody /\ body[r] \in 0..MaxBody
  BY <1>2 DEF TypeOK, ReaderTypeOK
<1>4. todo[r] \in Nat /\ pos[r] \in Nat /\ body[r] \in Nat
  BY <1>1, <1>3
<1> QED
  BY <1>1, <1>2, <1>4 DEF TypeOK, ReaderTypeOK, PoolTypeOK

\* Where a reader ends up that gives up, or that only moves on.
LEMMA LocalNoBlock ==
    ASSUME IInv, NEW r \in Requests, DropInv(r), PositionInv(r),
           \/ GetCurrentFails(r) \/ SendAbortFails(r) \/ SendFinalFails(r)
           \/ GetSentinelFails(r) \/ ReleaseCurrent(r) \/ ReleaseNext(r)
           \/ PutFinal(r) \/ Close(r)
    PROVE  DropInv(r)' /\ PositionInv(r)' /\ Quiet(r)
<1>0. /\ pc \in [Requests -> ReaderPC]
      /\ current \in [Requests -> Blocks \cup {NoBlock}]
      /\ next \in [Requests -> Blocks \cup {NoBlock}]
      /\ seq \in [Requests -> Nat] /\ drops \in [Requests -> Nat]
      /\ todo \in [Requests -> 0..MaxBody]
      /\ abandoned \in [Requests -> BOOLEAN]
      /\ finalized \in [Requests -> BOOLEAN]
      /\ closing \in [Requests -> BOOLEAN]
      /\ todo[r] \in Nat /\ pos[r] \in Nat
      /\ ReaderInv(r) /\ NoBlock \notin Blocks
  BY ReaderFacts
<1> USE DEF DropInv, PositionInv, CurrentInv, NextInv, Quiet, Over, Finished,
            SentSeq, ReaderInv, queueVars, poolVars
<1>1. CASE GetCurrentFails(r)
  <2>1. /\ pc[r] = "get" /\ pc'[r] = "idle" /\ todo'[r] = 0
        /\ drops'[r] = drops[r] + 1 /\ abandoned'[r] = TRUE
        /\ UNCHANGED <<body, current, next, seq, pos, finalized, blk, queue>>
    BY <1>0, <1>1 DEF GetCurrentFails, GiveUp, GoTo
  <2> QED
    BY <1>0, <2>1
<1>2. CASE SendAbortFails(r)
  <2>1. /\ pc[r] = "abort" /\ pc'[r] = "release"
        /\ UNCHANGED <<body, current, next, seq, pos, finalized, blk, queue,
                       todo, drops, abandoned>>
    BY <1>0, <1>2 DEF SendAbortFails, GoTo
  <2> QED
    BY <1>0, <2>1
<1>3. CASE SendFinalFails(r)
  <2>1. /\ pc[r] = "final" /\ pc'[r] = "unsent"
        /\ UNCHANGED <<body, current, next, seq, pos, finalized, blk, queue,
                       todo, drops, abandoned>>
    BY <1>0, <1>3 DEF SendFinalFails, GoTo
  <2> QED
    BY <1>0, <2>1
<1>4. CASE GetSentinelFails(r)
  <2>1. /\ pc[r] = "sentinel" /\ pc'[r] \in {"idle", "closed"} /\ todo'[r] = 0
        /\ drops'[r] = drops[r] + 1 /\ abandoned'[r] = TRUE
        /\ UNCHANGED <<body, current, next, seq, pos, finalized, blk, queue>>
    BY <1>0, <1>4 DEF GetSentinelFails, GiveUp, GoTo, Return
  <2> QED
    BY <1>0, <2>1
<1>5. CASE ReleaseCurrent(r)
  <2>1. /\ pc[r] = "release" /\ current[r] # NoBlock /\ current'[r] = NoBlock
        /\ UNCHANGED <<body, next, seq, pos, finalized, blk, queue>>
    BY <1>0, <1>5 DEF ReleaseCurrent
  <2>2. CASE next[r] # NoBlock
    <3>1. UNCHANGED <<pc, todo, drops, abandoned>>
      BY <1>5, <2>2 DEF ReleaseCurrent
    <3> QED
      BY <1>0, <2>1, <2>2, <3>1
  <2>3. CASE next[r] = NoBlock
    <3>1. /\ pc'[r] = "idle" /\ todo'[r] = 0
          /\ drops'[r] = drops[r] + 1 /\ abandoned'[r] = TRUE
      BY <1>0, <1>5, <2>3 DEF ReleaseCurrent, GiveUp, GoTo
    <3> QED
      BY <1>0, <2>1, <2>3, <3>1
  <2> QED
    BY <2>2, <2>3
<1>6. CASE ReleaseNext(r)
  <2>1. /\ pc[r] = "release" /\ current[r] = NoBlock /\ next'[r] = NoBlock
        /\ UNCHANGED <<body, current, seq, pos, finalized, blk, queue>>
        /\ pc'[r] = "idle" /\ todo'[r] = 0
        /\ drops'[r] = drops[r] + 1 /\ abandoned'[r] = TRUE
    BY <1>0, <1>6 DEF ReleaseNext, GiveUp, GoTo
  <2> QED
    BY <1>0, <2>1
<1>7. CASE PutFinal(r)
  <2>1. /\ pc[r] = "unsent" /\ pc'[r] \in {"idle", "closed"}
        /\ current'[r] = NoBlock /\ next'[r] = NoBlock
        /\ UNCHANGED <<body, seq, pos, finalized, blk, queue, todo>>
        /\ drops'[r] = drops[r] + 1
        /\ abandoned'[r] = (abandoned[r] \/ current[r] = NoBlock)
    BY <1>0, <1>7 DEF PutFinal, DropFinalBlock, GoTo, Return
  <2> QED
    BY <1>0, <2>1
<1>8. CASE Close(r)
  <2>1. /\ pc[r] = "idle"
        /\ UNCHANGED <<body, next, seq, pos, finalized, blk, queue, todo,
                       drops, abandoned>>
        /\ pc'[r] = IF abandoned[r] THEN "closed" ELSE "finish"
        /\ UNCHANGED current[r]
    BY <1>0, <1>8 DEF Close, GoTo
  <2> QED
    BY <1>0, <2>1
<1> QED
  BY <1>1, <1>2, <1>3, <1>4, <1>5, <1>6, <1>7, <1>8

\* What marking a block leaves alone.
LEMMA MarkKeeps ==
    ASSUME NEW c \in AuditBlock
    PROVE  /\ MarkFinal(c).seq = c.seq /\ MarkFinal(c).data = c.data
           /\ MarkFinal(c).final = TRUE /\ MarkFinal(c).abort = c.abort
           /\ MarkAbort(c).seq = c.seq /\ MarkAbort(c).data = c.data
           /\ MarkAbort(c).final = c.final /\ MarkAbort(c).abort = TRUE
<1>1. /\ MarkFinal(c).seq = c.seq /\ MarkFinal(c).data = c.data
      /\ MarkFinal(c).final = TRUE /\ MarkFinal(c).abort = c.abort
  BY DEF MarkFinal, AuditBlock
<1>2. /\ MarkAbort(c).seq = c.seq /\ MarkAbort(c).data = c.data
      /\ MarkAbort(c).final = c.final /\ MarkAbort(c).abort = TRUE
  BY DEF MarkAbort, AuditBlock
<1> QED
  BY <1>1, <1>2

\* What tagging and filling a block leave alone.
LEMMA TagKeeps ==
    ASSUME NEW c \in AuditBlock, NEW r \in Requests, NEW n \in Nat
    PROVE  /\ Tag(c, r, n).seq = n /\ Tag(c, r, n).data = c.data
           /\ Tag(c, r, n).final = c.final /\ Tag(c, r, n).abort = c.abort
BY DEF Tag, AuditBlock

\* Filling a block adds to its data and leaves the rest of it alone.
LEMMA FillKeeps ==
    ASSUME NEW c \in AuditBlock, NEW u
    PROVE  /\ Fill(c, u).seq = c.seq /\ Fill(c, u).data = c.data \o u
           /\ Fill(c, u).final = c.final /\ Fill(c, u).abort = c.abort
BY DEF Fill, AuditBlock

\* A reader that takes a block from the pool.
LEMMA LocalGet ==
    ASSUME IInv, NEW r \in Requests, DropInv(r), PositionInv(r),
           GetCurrent(r) \/ GetNext(r) \/ GetSentinel(r)
    PROVE  DropInv(r)' /\ PositionInv(r)' /\ Quiet(r)
<1>0. /\ pc \in [Requests -> ReaderPC]
      /\ current \in [Requests -> Blocks \cup {NoBlock}]
      /\ next \in [Requests -> Blocks \cup {NoBlock}]
      /\ seq \in [Requests -> Nat] /\ drops \in [Requests -> Nat]
      /\ blk \in [Blocks -> AuditBlock] /\ pool \subseteq Blocks
      /\ todo[r] \in Nat /\ pos[r] \in Nat
      /\ ReaderInv(r) /\ NoBlock \notin Blocks
  BY ReaderFacts
<1> USE DEF DropInv, PositionInv, CurrentInv, NextInv, Quiet, Over, Finished,
            SentSeq, ReaderInv, queueVars, poolVars, FreshBlock, ResetBlock
<1>1. CASE GetCurrent(r)
  <2>1. PICK b \in pool : /\ blk' = [blk EXCEPT ![b] = FreshBlock(r, seq[r], FALSE)]
                          /\ current' = [current EXCEPT ![r] = b]
    BY <1>1 DEF GetCurrent, Get
  <2>2. /\ pc[r] = "get" /\ pc'[r] = "write" /\ seq'[r] = seq[r] + 1
        /\ UNCHANGED <<body, next, todo, pos, abandoned, finalized, drops, queue>>
    BY <1>0, <1>1 DEF GetCurrent, GoTo
  <2>3. /\ b \in Blocks /\ current'[r] = b
        /\ blk'[b].seq = seq[r] /\ blk'[b].data = <<>>
        /\ blk'[b].final = FALSE /\ blk'[b].abort = FALSE
    BY <1>0, <2>1
  <2>4. InPlace(blk'[b])
    BY <2>3 DEF InPlace
  <2>5. Len(blk'[b].data) = 0
    BY <2>3
  <2>6. Off(seq[r]) \in Nat /\ seq[r] \in Nat
    BY <1>0, OffFacts
  <2> QED
    BY <1>0, <2>2, <2>3, <2>4, <2>5, <2>6
<1>2. CASE GetNext(r)
  <2>1. PICK b \in pool : /\ blk' = [blk EXCEPT ![b] = ResetBlock]
                          /\ next' = [next EXCEPT ![r] = b]
    BY <1>2 DEF GetNext, Get
  <2>2. /\ pc[r] = "next" /\ pc'[r] = "send"
        /\ UNCHANGED <<body, current, seq, todo, pos, abandoned, finalized,
                       drops, queue>>
    BY <1>0, <1>2 DEF GetNext, GoTo
  <2>3. /\ b \in Blocks /\ next'[r] = b
        /\ blk'[b].data = <<>> /\ blk'[b].final = FALSE /\ blk'[b].abort = FALSE
    BY <1>0, <2>1
  <2>4. current[r] \notin pool
    BY <1>0 DEF IInv, BlockConservation, NoneShared, WithReader
  <2>5. current[r] # NoBlock => blk'[current[r]] = blk[current[r]]
    BY <1>0, <2>1, <2>4
  <2> QED
    BY <1>0, <2>2, <2>3, <2>5
<1>3. CASE GetSentinel(r)
  <2>1. PICK b \in pool : /\ blk' = [blk EXCEPT ![b] = FreshBlock(r, seq[r], TRUE)]
                          /\ next' = [next EXCEPT ![r] = b]
    BY <1>3 DEF GetSentinel, Get
  <2>2. /\ pc[r] = "sentinel" /\ pc'[r] = "final"
        /\ UNCHANGED <<body, current, seq, todo, pos, abandoned, finalized,
                       drops, queue>>
    BY <1>0, <1>3 DEF GetSentinel, GoTo
  <2>3. /\ b \in Blocks /\ next'[r] = b /\ blk'[b].seq = seq[r]
        /\ blk'[b].data = <<>> /\ blk'[b].final = TRUE /\ blk'[b].abort = FALSE
    BY <1>0, <2>1
  <2> QED
    BY <1>0, <2>2, <2>3
<1> QED
  BY <1>1, <1>2, <1>3

\* A reader that gets more of the body.
LEMMA LocalRead ==
    ASSUME IInv, NEW r \in Requests, DropInv(r), PositionInv(r),
           NEW n \in 0..MaxBody, NEW eof \in BOOLEAN, Read(r, n, eof)
    PROVE  DropInv(r)' /\ PositionInv(r)' /\ Quiet(r)
<1>0. /\ pc \in [Requests -> ReaderPC]
      /\ current \in [Requests -> Blocks \cup {NoBlock}]
      /\ next \in [Requests -> Blocks \cup {NoBlock}]
      /\ seq \in [Requests -> Nat] /\ drops \in [Requests -> Nat]
      /\ todo \in [Requests -> 0..MaxBody]
      /\ pos \in [Requests -> 0..MaxBody]
      /\ abandoned \in [Requests -> BOOLEAN]
      /\ finalized \in [Requests -> BOOLEAN]
      /\ todo[r] \in Nat /\ pos[r] \in Nat /\ body[r] \in Nat
      /\ ReaderInv(r) /\ NoBlock \notin Blocks
  BY ReaderFacts
<1>1. n \in Nat
  BY BodyAssumption
<1> USE DEF DropInv, PositionInv, CurrentInv, NextInv, Quiet, Over, Finished,
            SentSeq, ReaderInv, queueVars, poolVars
<1>2. /\ pc[r] = "idle" /\ ~closing[r] /\ n <= body[r] - pos[r]
      /\ n > 0 \/ (~abandoned[r] /\ ~finalized[r])
      /\ pos'[r] = pos[r] + n
      /\ UNCHANGED <<body, current, next, seq, abandoned, finalized, drops,
                     blk, queue>>
  BY <1>0 DEF Read
<1>3. ~finalized[r]
  BY <1>0, <1>1, <1>2
<1>4. CASE abandoned[r]
  <2>1. UNCHANGED <<pc, todo>>
    BY <1>4 DEF Read
  <2> QED
    BY <1>0, <1>1, <1>2, <1>3, <1>4, <2>1
<1>5. CASE ~abandoned[r]
  <2>1. /\ todo'[r] = n
        /\ pc'[r] = IF n = 0 THEN "finish"
                    ELSE IF current[r] = NoBlock THEN "get" ELSE "write"
    BY <1>0, <1>5 DEF Read, GoTo
  <2> QED
    BY <1>0, <1>1, <1>2, <1>3, <1>5, <2>1
<1> QED
  BY <1>4, <1>5

\* A reader that marks its block, or whose finish has no block to mark.
LEMMA LocalMark ==
    ASSUME IInv, NEW r \in Requests, DropInv(r), PositionInv(r),
           GetNextFails(r) \/ SendFullFails(r) \/ Finish(r)
    PROVE  DropInv(r)' /\ PositionInv(r)' /\ Quiet(r)
<1>0. /\ pc \in [Requests -> ReaderPC]
      /\ current \in [Requests -> Blocks \cup {NoBlock}]
      /\ next \in [Requests -> Blocks \cup {NoBlock}]
      /\ seq \in [Requests -> Nat] /\ drops \in [Requests -> Nat]
      /\ abandoned \in [Requests -> BOOLEAN]
      /\ finalized \in [Requests -> BOOLEAN]
      /\ blk \in [Blocks -> AuditBlock]
      /\ todo[r] \in Nat /\ pos[r] \in Nat
      /\ ReaderInv(r) /\ NoBlock \notin Blocks
  BY ReaderFacts
<1> USE DEF DropInv, PositionInv, CurrentInv, NextInv, Quiet, Over, Finished,
            SentSeq, ReaderInv, queueVars, poolVars
<1>1. ASSUME current[r] # NoBlock, next[r] = NoBlock,
             blk' = [blk EXCEPT ![current[r]] = MarkAbort(@)],
             pc[r] \in {"next", "send"}, pc'[r] = "abort",
             UNCHANGED <<current, next, seq, todo, pos, abandoned, finalized,
                         drops, queue>>
      PROVE  DropInv(r)' /\ PositionInv(r)' /\ Quiet(r)
  <2>1. /\ blk'[current[r]] = MarkAbort(blk[current[r]])
        /\ blk[current[r]] \in AuditBlock
    BY <1>0, <1>1
  <2>2. /\ blk'[current[r]].seq = blk[current[r]].seq
        /\ blk'[current[r]].data = blk[current[r]].data
        /\ blk'[current[r]].final = blk[current[r]].final
        /\ blk'[current[r]].abort = TRUE
    BY <2>1, MarkKeeps
  <2> QED
    BY <1>0, <1>1, <2>2 DEF InPlace
<1>2. CASE GetNextFails(r)
  BY <1>0, <1>1, <1>2 DEF GetNextFails, GoTo
<1>3. CASE SendFullFails(r)
  <2>1. CASE next[r] = NoBlock
    BY <1>0, <1>1, <1>3, <2>1 DEF SendFullFails, GoTo
  <2>2. CASE next[r] # NoBlock
    <3>1. /\ pc[r] = "send" /\ pc'[r] = "release"
          /\ UNCHANGED <<blk, current, next, seq, todo, pos, abandoned, finalized,
                         drops, queue>>
      BY <1>0, <1>3, <2>2 DEF SendFullFails, GoTo
    <3> QED
      BY <1>0, <2>2, <3>1
  <2> QED
    BY <2>1, <2>2
<1>4. CASE Finish(r)
  <2>1. /\ pc[r] = "finish" /\ finalized'[r] = TRUE
        /\ UNCHANGED <<current, next, seq, todo, pos, abandoned, drops, queue>>
    BY <1>0, <1>4 DEF Finish
  <2>2. CASE ~finalized[r] /\ current[r] # NoBlock
    <3>1. /\ blk'[current[r]] = MarkFinal(blk[current[r]]) /\ pc'[r] = "final"
          /\ blk[current[r]] \in AuditBlock
      BY <1>0, <1>4, <2>2 DEF Finish, GoTo
    <3>2. /\ blk'[current[r]].seq = blk[current[r]].seq
          /\ blk'[current[r]].data = blk[current[r]].data
          /\ blk'[current[r]].final = TRUE
          /\ blk'[current[r]].abort = blk[current[r]].abort
      BY <3>1, MarkKeeps
    <3> QED
      BY <1>0, <2>1, <2>2, <3>1, <3>2 DEF InPlace
  <2>3. CASE ~finalized[r] /\ current[r] = NoBlock
    <3>1. /\ pc'[r] = IF seq[r] > 0 THEN "sentinel" ELSE Return(r)
          /\ UNCHANGED blk
      BY <1>0, <1>4, <2>3 DEF Finish, GoTo
    <3>2. Return(r) \in {"idle", "closed"}
      BY DEF Return
    <3>3. seq[r] = 0 => Off(seq[r]) = 0
      BY OffFacts
    <3> QED
      BY <1>0, <2>1, <2>3, <3>1, <3>2, <3>3
  <2>4. CASE finalized[r]
    <3>1. /\ pc'[r] \in {"idle", "closed"} /\ UNCHANGED blk
      BY <1>0, <1>4, <2>4 DEF Finish, GoTo, Return
    <3> QED
      BY <1>0, <2>1, <2>4, <3>1
  <2> QED
    BY <2>2, <2>3, <2>4
<1> QED
  BY <1>2, <1>3, <1>4

\* Copying: what lies in the block stays the part of the body it stands for.
LEMMA FillInPlace ==
    ASSUME NEW c \in AuditBlock, InPlace(c), NEW n \in Nat, NEW k \in Nat,
           k = Off(c.seq) + Len(c.data), Off(c.seq) \in Nat
    PROVE  LET u == [i \in 1..n |-> k + i]
           IN  /\ InPlace(Fill(c, u))
               /\ Len(Fill(c, u).data) = Len(c.data) + n
<1> DEFINE u == [i \in 1..n |-> k + i]
           m == Len(c.data)
           d == c.data
           e == Fill(c, u).data
<1>1. d \in Seq(Units) /\ m \in Nat /\ c.seq \in Nat
  BY DEF AuditBlock
<1>2. u \in Seq(Nat) /\ Len(u) = n
  <2>1. \A i \in 1..n : k + i \in Nat
    OBVIOUS
  <2> QED
    BY <2>1
<1>3. e = d \o u /\ Fill(c, u).seq = c.seq
  BY FillKeeps
<1>4. /\ Len(e) = m + n /\ DOMAIN e = 1..(m + n)
      /\ \A i \in 1..(m + n) : e[i] = IF i <= m THEN d[i] ELSE u[i - m]
  <2>1. d \in Seq(Nat)
    BY <1>1 DEF Units
  <2> HIDE DEF u, d, e
  <2>2. /\ Len(d \o u) = Len(d) + Len(u)
        /\ \A i \in 1..(Len(d) + Len(u)) :
             (d \o u)[i] = IF i <= Len(d) THEN d[i] ELSE u[i - Len(d)]
    BY <1>2, <2>1, SMTT(30)
  <2>3. d \o u \in Seq(Nat)
    BY <1>2, <2>1
  <2>4. DOMAIN e = 1..Len(e)
    BY <1>3, <2>3
  <2>5. Len(d) = m
    BY DEF d
  <2> QED
    BY <1>2, <1>3, <2>2, <2>4, <2>5
<1>5. \A i \in 1..m : d[i] = Off(c.seq) + i
  BY <1>1 DEF InPlace
<1>6. \A i \in 1..n : u[i] = k + i
  OBVIOUS
<1>7. ASSUME NEW i \in 1..(m + n) PROVE e[i] = Off(c.seq) + i
  <2> HIDE DEF u, d, e
  <2>1. CASE i <= m
    <3>1. i \in 1..m
      BY <1>1, <2>1
    <3> QED
      BY <1>4, <1>5, <2>1, <3>1
  <2>2. CASE ~(i <= m)
    <3>1. i - m \in 1..n /\ k + (i - m) = Off(c.seq) + i
      <4>1. k = Off(c.seq) + m
        OBVIOUS
      <4> HIDE DEF m
      <4> QED
        BY <1>1, <2>2, <4>1
    <3>2. e[i] = u[i - m]
      BY <1>4, <2>2
    <3> QED
      BY <1>6, <3>1, <3>2
  <2> QED
    BY <2>1, <2>2
<1>8. InPlace(Fill(c, u))
  BY <1>3, <1>4, <1>7 DEF InPlace
<1> QED
  BY <1>4, <1>8

\* Writing to the current block: what is captured is what was sent before and
\* what the blocks in hand hold.
LEMMA LocalWrite ==
    ASSUME IInv, NEW r \in Requests, DropInv(r), PositionInv(r), WriteBlock(r)
    PROVE  DropInv(r)' /\ PositionInv(r)' /\ Quiet(r)
<1>0. /\ pc \in [Requests -> ReaderPC]
      /\ current \in [Requests -> Blocks \cup {NoBlock}]
      /\ next \in [Requests -> Blocks \cup {NoBlock}]
      /\ seq \in [Requests -> Nat] /\ drops \in [Requests -> Nat]
      /\ todo \in [Requests -> 0..MaxBody]
      /\ blk \in [Blocks -> AuditBlock]
      /\ todo[r] \in Nat /\ pos[r] \in Nat
      /\ ReaderInv(r) /\ NoBlock \notin Blocks
  BY ReaderFacts
<1> DEFINE b == current[r]
           c == blk[b]
           rest == BlockSize - Len(c.data)
           n == IF todo[r] <= rest THEN todo[r] ELSE rest
           k == pos[r] - todo[r]
           u == [i \in 1..n |-> k + i]
<1>1. /\ pc[r] = "write" /\ blk' = [blk EXCEPT ![b] = Fill(@, u)]
      /\ todo'[r] = todo[r] - n
      /\ pc'[r] = IF n # rest THEN AfterCapture(r)
                  ELSE IF todo[r] > n THEN "next" ELSE "send"
      /\ UNCHANGED <<body, current, next, seq, pos, abandoned, finalized,
                     drops, queue>>
  BY <1>0 DEF WriteBlock, Remaining, GoTo, queueVars
<1>2. b # NoBlock /\ b \in Blocks /\ c \in AuditBlock /\ next[r] = NoBlock
  BY <1>0, <1>1 DEF ReaderInv
<1>3. /\ seq[r] >= 1 /\ c.seq = seq[r] - 1 /\ InPlace(c)
      /\ pos[r] > 0 /\ k = Off(c.seq) + Len(c.data)
      /\ ~c.final /\ ~c.abort /\ todo[r] > 0
  BY <1>1, <1>2 DEF PositionInv, CurrentInv
<1>4. c.seq \in Nat /\ Off(c.seq) \in Nat /\ Len(c.data) \in Nat
      /\ Len(c.data) <= BlockSize /\ BlockSize \in Nat
      /\ c.final \in BOOLEAN /\ c.abort \in BOOLEAN
  <2>1. c.seq \in Nat /\ c.data \in Seq(Units) /\ c.final \in BOOLEAN /\ c.abort \in BOOLEAN
    BY <1>2 DEF AuditBlock
  <2>2. Len(c.data) <= BlockSize
    BY <1>2 DEF IInv, ContentInv
  <2>3. Off(c.seq) \in Nat /\ BlockSize \in Nat
    BY <2>1, OffFacts, BlocksAssumption
  <2>4. Len(c.data) \in Nat
    BY <2>1
  <2> HIDE DEF c
  <2> QED
    BY ONLY <2>1, <2>2, <2>3, <2>4
<1>5. k \in Nat /\ rest \in Nat
  BY <1>0, <1>4 DEF ReaderInv
<1>6. n \in Nat /\ n <= todo[r] /\ n <= rest /\ (n = todo[r] \/ n = rest)
  <2> DEFINE t == todo[r]
  <2>1. t \in Nat /\ rest \in Nat
    BY <1>0, <1>5
  <2>2. n = IF t <= rest THEN t ELSE rest
    OBVIOUS
  <2> HIDE DEF rest, n, t
  <2>3. n \in Nat /\ n <= t /\ n <= rest /\ (n = t \/ n = rest)
    BY ONLY <2>1, <2>2
  <2> QED
    BY <2>3 DEF t
<1> HIDE DEF n
<1>7. InPlace(Fill(c, u)) /\ Len(Fill(c, u).data) = Len(c.data) + n
  <2> HIDE DEF c, k
  <2> QED
    BY <1>2, <1>3, <1>4, <1>5, <1>6, FillInPlace
<1>8. blk'[b] = Fill(c, u)
  BY <1>0, <1>1, <1>2
<1>9. /\ Fill(c, u).seq = c.seq
      /\ Fill(c, u).final = c.final /\ Fill(c, u).abort = c.abort
  <2> HIDE DEF c, u
  <2> QED
    BY <1>2, FillKeeps
<1>10. /\ pc'[r] \in {"idle", "finish", "next", "send"}
       /\ pc'[r] \in {"idle", "finish"} => todo'[r] = 0
       /\ pc'[r] = "next" => todo'[r] > 0
       /\ pc'[r] = "send" => todo'[r] = 0
       /\ pc'[r] \in {"next", "send"} => n = rest
  <2>1. AfterCapture(r) \in {"idle", "finish"}
    BY DEF AfterCapture
  <2>2. todo[r] \in Nat
    BY <1>0
  <2> HIDE DEF rest
  <2> QED
    BY <1>1, <1>5, <1>6, <2>1, <2>2
<1>11. n = rest => Len(Fill(c, u).data) = BlockSize
  BY <1>4, <1>7
<1>12. CurrentInv(r)'
  <2> DEFINE d == blk'[b]
  <2>1. /\ d.seq = c.seq /\ ~d.final /\ ~d.abort /\ InPlace(d)
        /\ Len(d.data) = Len(c.data) + n
        /\ n = rest => Len(d.data) = BlockSize
    BY <1>3, <1>7, <1>8, <1>9, <1>11
  <2>2. pos'[r] - todo'[r] = Off(c.seq) + (Len(c.data) + n)
    <3> DEFINE l == Len(c.data)
               o == Off(c.seq)
    <3>1. /\ pos'[r] = pos[r] /\ todo'[r] = todo[r] - n
          /\ pos[r] - todo[r] = o + l /\ l \in Nat /\ o \in Nat /\ n \in Nat
          /\ pos[r] \in Nat /\ todo[r] \in Nat
      BY <1>0, <1>1, <1>3, <1>4, <1>6
    <3> HIDE DEF l, o
    <3>2. pos'[r] - todo'[r] = o + (l + n)
      BY <3>1
    <3> QED
      BY <3>2 DEF l, o
  <2> HIDE DEF d, c, rest, k
  <2>3. /\ seq'[r] = seq[r] /\ pos'[r] = pos[r] /\ current'[r] = b
    BY <1>1
  <2>4. d = blk'[current'[r]]
    BY <2>3 DEF d
  <2> QED
    BY <1>3, <1>10, <2>1, <2>2, <2>3, <2>4 DEF CurrentInv
<1>13. PositionInv(r)'
  <2> HIDE DEF n, c, rest, k, u
  <2>1. next'[r] = NoBlock /\ current'[r] # NoBlock
    BY <1>1, <1>2
  <2> QED
    BY <1>10, <1>12, <2>1 DEF PositionInv
<1>14. DropInv(r)'
  <2> HIDE DEF n, c, rest, k, u
  <2> QED
    BY <1>1, <1>10 DEF DropInv, Finished
<1>15. Quiet(r)
  <2> HIDE DEF n, c, rest, k, u
  <2>1. SentSeq(r)' = SentSeq(r) /\ SentSeq(r) \in Int
    BY <1>0, <1>1, <1>2 DEF SentSeq
  <2>2. ~finalized[r]
    BY <1>0, <1>1 DEF ReaderInv
  <2> QED
    BY <1>0, <1>1, <2>1, <2>2 DEF Quiet, Over, Finished
<1> QED
  BY <1>13, <1>14, <1>15

\* A block that a reader holds is not on its way.
LEMMA HeldNotTransit ==
    ASSUME IInv, NEW r \in Requests,
           NEW b \in Blocks, b = current[r] \/ b = next[r]
    PROVE  ~Transit(b)
BY DEF IInv, BlockConservation, NoneShared, WithReader, Transit

\* The full block goes out.
LEMMA LocalSendFull ==
    ASSUME IInv, NEW r \in Requests, DropInv(r), PositionInv(r), SendFull(r)
    PROVE  /\ DropInv(r)' /\ PositionInv(r)'
           /\ \E b \in Blocks : Sends(r, b)
<1>0. /\ pc \in [Requests -> ReaderPC]
      /\ current \in [Requests -> Blocks \cup {NoBlock}]
      /\ next \in [Requests -> Blocks \cup {NoBlock}]
      /\ seq \in [Requests -> Nat] /\ drops \in [Requests -> Nat]
      /\ blk \in [Blocks -> AuditBlock]
      /\ todo[r] \in Nat /\ pos[r] \in Nat
      /\ ReaderInv(r) /\ NoBlock \notin Blocks
  BY ReaderFacts
<1> DEFINE b == current[r]
           c == blk[b]
<1>1. /\ pc[r] = "send" /\ queue' = Append(queue, b)
      /\ current'[r] = next[r] /\ next'[r] = NoBlock
      /\ UNCHANGED <<body, todo, pos, abandoned, finalized, drops>>
  BY <1>0 DEF SendFull, Enqueue, Advance
<1>2. b # NoBlock /\ b \in Blocks /\ c \in AuditBlock /\ ~Transit(b)
      /\ ~finalized[r] /\ ~abandoned[r]
  BY <1>0, <1>1, HeldNotTransit DEF ReaderInv
<1>3. /\ seq[r] >= 1 /\ c.seq = seq[r] - 1 /\ InPlace(c) /\ pos[r] > 0
      /\ pos[r] - todo[r] = Off(c.seq) + Len(c.data)
      /\ ~c.final /\ ~c.abort /\ Len(c.data) = BlockSize
      /\ next[r] # NoBlock <=> todo[r] > 0
      /\ next[r] # NoBlock => blk[next[r]].data = <<>>
                              /\ ~blk[next[r]].final /\ ~blk[next[r]].abort
  BY <1>1, <1>2 DEF PositionInv, CurrentInv, NextInv
<1>4. c.requestID = r
  BY <1>2 DEF IInv, ContentInv
<1>5. pos[r] - todo[r] = Off(seq[r])
  <2>1. c.seq \in Nat /\ c.seq + 1 = seq[r] /\ seq[r] \in Nat
    BY <1>0, <1>3
  <2>2. Off(seq[r]) = Off(c.seq) + BlockSize
    BY <2>1, OffFacts
  <2> QED
    BY <1>3, <2>2
<1>6. DropInv(r)'
  BY <1>1, <1>2 DEF DropInv, Finished
<1>7. CASE next[r] = NoBlock
  <2>1. /\ pc'[r] \in {"idle", "finish"} /\ UNCHANGED <<blk, seq>>
    BY <1>0, <1>7 DEF SendFull, GoTo, AfterCapture
  <2>2. PositionInv(r)'
    BY <1>0, <1>1, <1>2, <1>3, <1>5, <1>7, <2>1 DEF PositionInv
  <2>3. SentSeq(r) = seq[r] - 1 /\ SentSeq(r)' = seq[r]
    BY <1>1, <1>2, <1>7, <2>1 DEF SentSeq
  <2>4. ~Finished(r)' /\ ~Finished(r)
    BY <1>1, <1>2 DEF Finished
  <2>5. Sends(r, b)
    BY <1>0, <1>1, <1>2, <1>3, <1>4, <2>1, <2>3, <2>4 DEF Sends
  <2> QED
    BY <1>2, <1>6, <2>2, <2>5
<1>8. CASE next[r] # NoBlock
  <2> DEFINE d == next[r]
  <2>1. d \in Blocks /\ d # b /\ blk[d] \in AuditBlock /\ seq[r] \in Nat
    BY <1>0, <1>2, <1>8 DEF IInv, BlockConservation, NoneShared
  <2>2. /\ pc'[r] = "write" /\ seq'[r] = seq[r] + 1
        /\ blk' = [blk EXCEPT ![d] = Tag(@, r, seq[r])]
    BY <1>0, <1>8 DEF SendFull, GoTo
  <2>3. blk'[b] = blk[b] /\ blk'[d] = Tag(blk[d], r, seq[r])
    BY <1>0, <1>2, <2>1, <2>2
  <2>4. /\ blk'[d].seq = seq[r] /\ blk'[d].data = blk[d].data
        /\ blk'[d].final = blk[d].final /\ blk'[d].abort = blk[d].abort
    BY <2>1, <2>3, TagKeeps
  <2>5. /\ blk'[d].data = <<>> /\ Len(blk'[d].data) = 0
        /\ ~blk'[d].final /\ ~blk'[d].abort
    BY <1>3, <1>8, <2>4
  <2>6. InPlace(blk'[d])
    BY <2>5 DEF InPlace
  <2>7. Off(seq[r]) \in Nat
    BY <2>1, OffFacts
  <2>8. current'[r] = d /\ d # NoBlock
    BY <1>1, <1>8
  <2>9. CurrentInv(r)'
    <3> HIDE DEF d
    <3> QED
      BY <1>1, <1>3, <1>5, <2>1, <2>2, <2>4, <2>5, <2>6, <2>7, <2>8
         DEF CurrentInv
  <2>10. PositionInv(r)'
    BY <1>1, <1>3, <1>8, <2>2, <2>8, <2>9 DEF PositionInv
  <2>11. SentSeq(r) = seq[r] - 1 /\ SentSeq(r)' = seq[r]
    BY <1>0, <1>1, <1>2, <2>2, <2>8 DEF SentSeq
  <2>12. ~Finished(r)' /\ ~Finished(r)
    BY <1>1, <1>2 DEF Finished
  <2>13. Sends(r, b)
    BY <1>0, <1>1, <1>2, <1>3, <1>4, <2>3, <2>11, <2>12 DEF Sends
  <2> QED
    BY <1>2, <1>6, <2>10, <2>13
<1> QED
  BY <1>7, <1>8

\* The abort signal goes out.
LEMMA LocalSendAbort ==
    ASSUME IInv, NEW r \in Requests, DropInv(r), PositionInv(r), SendAbort(r)
    PROVE  /\ DropInv(r)' /\ PositionInv(r)'
           /\ \E b \in Blocks : Sends(r, b)
<1>0. /\ pc \in [Requests -> ReaderPC]
      /\ current \in [Requests -> Blocks \cup {NoBlock}]
      /\ next \in [Requests -> Blocks \cup {NoBlock}]
      /\ seq \in [Requests -> Nat] /\ drops \in [Requests -> Nat]
      /\ todo \in [Requests -> 0..MaxBody]
      /\ abandoned \in [Requests -> BOOLEAN]
      /\ blk \in [Blocks -> AuditBlock]
      /\ todo[r] \in Nat /\ pos[r] \in Nat
      /\ ReaderInv(r) /\ NoBlock \notin Blocks
  BY ReaderFacts
<1> DEFINE b == current[r]
           c == blk[b]
<1>1. /\ pc[r] = "abort" /\ pc'[r] = "idle" /\ queue' = Append(queue, b)
      /\ current'[r] = NoBlock /\ UNCHANGED <<next, seq, pos, finalized, blk>>
      /\ drops'[r] = drops[r] + 1 /\ abandoned'[r] = TRUE /\ todo'[r] = 0
  BY <1>0 DEF SendAbort, Enqueue, GiveUp, GoTo, poolVars
<1>2. b # NoBlock /\ b \in Blocks /\ c \in AuditBlock /\ ~Transit(b)
      /\ ~finalized[r] /\ ~abandoned[r] /\ next[r] = NoBlock
  BY <1>0, <1>1, HeldNotTransit DEF ReaderInv
<1>3. /\ seq[r] >= 1 /\ c.seq = seq[r] - 1 /\ InPlace(c)
      /\ pos[r] - todo[r] = Off(c.seq) + Len(c.data) /\ ~c.final /\ c.abort
  BY <1>1, <1>2 DEF PositionInv, CurrentInv
<1>4. c.requestID = r
  BY <1>2 DEF IInv, ContentInv
<1>5. ~Finished(r)' /\ ~Finished(r)
  BY <1>1, <1>2 DEF Finished
<1>6. drops[r] = 0 /\ drops'[r] = 1
  BY <1>0, <1>1, <1>2, <1>5, SMTT(30) DEF DropInv
<1>7. DropInv(r)'
  BY <1>1, <1>6 DEF DropInv
<1>8. PositionInv(r)'
  BY <1>1, <1>2 DEF PositionInv
<1>9. SentSeq(r) = seq[r] - 1 /\ SentSeq(r)' = seq[r]
  BY <1>1, <1>2 DEF SentSeq
<1>10. Sends(r, b)
  <2>1. blk'[b] = blk[b] /\ seq[r] \in Nat
    BY <1>0, <1>1
  <2> QED
    BY <1>1, <1>2, <1>3, <1>4, <1>5, <1>6, <1>9, <2>1 DEF Sends
<1> QED
  BY <1>2, <1>7, <1>8, <1>10

\* The final block goes out.
LEMMA LocalSendFinal ==
    ASSUME IInv, NEW r \in Requests, DropInv(r), PositionInv(r), SendFinal(r)
    PROVE  /\ DropInv(r)' /\ PositionInv(r)'
           /\ \E b \in Blocks : Sends(r, b)
<1>0. /\ pc \in [Requests -> ReaderPC]
      /\ current \in [Requests -> Blocks \cup {NoBlock}]
      /\ next \in [Requests -> Blocks \cup {NoBlock}]
      /\ seq \in [Requests -> Nat] /\ drops \in [Requests -> Nat]
      /\ blk \in [Blocks -> AuditBlock]
      /\ todo[r] \in Nat /\ pos[r] \in Nat
      /\ ReaderInv(r) /\ NoBlock \notin Blocks
  BY ReaderFacts
<1> DEFINE b == FinalBlock(r)
           c == blk[b]
<1>1. /\ pc[r] = "final" /\ pc'[r] \in {"idle", "closed"}
      /\ queue' = Append(queue, b)
      /\ current'[r] = NoBlock /\ next'[r] = NoBlock
      /\ UNCHANGED <<seq, pos, finalized, blk, todo, drops, abandoned>>
  BY <1>0 DEF SendFinal, Enqueue, DropFinalBlock, GoTo, Return, poolVars
<1>2. finalized[r] /\ todo[r] = 0 /\ ~abandoned[r]
      /\ (current[r] = NoBlock <=> next[r] # NoBlock)
  BY <1>0, <1>1 DEF PositionInv, ReaderInv
<1>3. Finished(r)' /\ ~Finished(r)
  BY <1>1, <1>2 DEF Finished
<1>4. drops[r] = 0
  BY <1>0, <1>2, <1>3 DEF DropInv
<1>5. Over(r)'
  BY <1>1, <1>3, <1>4 DEF Over
<1>6. DropInv(r)' /\ PositionInv(r)'
  BY <1>1, <1>2, <1>4 DEF DropInv, PositionInv
<1>7. b \in Blocks /\ c \in AuditBlock /\ ~Transit(b) /\ c.requestID = r
  <2>1. b \in Blocks /\ (b = current[r] \/ b = next[r])
    BY <1>0, <1>2 DEF FinalBlock
  <2>2. c.requestID = r
    BY <1>0, <1>1, <1>2 DEF FinalBlock, IInv, ContentInv
  <2> QED
    BY <1>0, <2>1, <2>2, HeldNotTransit
<1>8. blk'[b] = blk[b] /\ SentSeq(r)' = seq[r] /\ seq'[r] = seq[r]
      /\ drops'[r] = drops[r] /\ pos'[r] = pos[r]
  BY <1>1 DEF SentSeq
<1>9. CASE current[r] # NoBlock
  <2>1. b = current[r]
    BY <1>9 DEF FinalBlock
  <2>2. /\ seq[r] >= 1 /\ c.seq = seq[r] - 1 /\ InPlace(c) /\ pos[r] > 0
        /\ pos[r] - todo[r] = Off(c.seq) + Len(c.data)
        /\ c.final /\ ~c.abort
    BY <1>1, <1>9, <2>1 DEF PositionInv, CurrentInv
  <2>3. SentSeq(r) = seq[r] - 1
    BY <1>9 DEF SentSeq
  <2>4. Sends(r, b)
    <3>1. Off(c.seq) + Len(c.data) = pos[r]
      BY <1>0, <1>2, <2>2
    <3>2. seq[r] \in Nat /\ drops[r] \in Nat
      BY <1>0
    <3> HIDE DEF b
    <3> QED
      BY <1>1, <1>3, <1>5, <1>7, <1>8, <2>2, <2>3, <3>1, <3>2 DEF Sends
  <2> QED
    BY <1>6, <1>7, <2>4
<1>10. CASE current[r] = NoBlock
  <2>1. b = next[r] /\ next[r] # NoBlock
    BY <1>2, <1>10 DEF FinalBlock
  <2>2. /\ seq[r] >= 1 /\ pos[r] - todo[r] = Off(seq[r])
        /\ c.data = <<>> /\ c.final /\ ~c.abort /\ c.seq = seq[r]
    BY <1>1, <1>10, <2>1 DEF PositionInv, NextInv
  <2>3. SentSeq(r) = seq[r]
    BY <1>1, <1>10 DEF SentSeq
  <2>4. InPlace(c) /\ Len(c.data) = 0
    BY <2>2 DEF InPlace
  <2>5. Sends(r, b)
    <3>1. seq[r] \in Nat /\ drops[r] \in Nat /\ Off(seq[r]) \in Nat
          /\ Off(seq[r]) >= 1
      BY <1>0, <2>2, OffFacts
    <3>2. pos[r] = Off(seq[r])
      BY <1>0, <1>2, <2>2
    <3>3. Off(c.seq) + Len(c.data) = pos[r] /\ pos[r] > 0
      BY <2>2, <2>4, <3>1, <3>2
    <3> HIDE DEF b
    <3> QED
      BY <1>1, <1>3, <1>5, <1>7, <1>8, <2>2, <2>3, <2>4, <3>1, <3>3 DEF Sends
  <2> QED
    BY <1>6, <1>7, <2>5
<1> QED
  BY <1>9, <1>10

\* Every step of a reader, as the reader sees it.
LEMMA LocalStep ==
    ASSUME IInv, NEW r \in Requests, DropInv(r), PositionInv(r),
           ReaderStep(r) \/ TransportStep(r)
    PROVE  /\ DropInv(r)' /\ PositionInv(r)'
           /\ Quiet(r) \/ \E b \in Blocks : Sends(r, b)
<1>1. CASE ReaderStep(r)
  BY <1>1, LocalNoBlock, LocalGet, LocalMark, LocalWrite, LocalSendFull,
     LocalSendAbort, LocalSendFinal DEF ReaderStep
<1>2. CASE TransportStep(r)
  BY <1>2, LocalNoBlock, LocalRead DEF TransportStep
<1> QED
  BY <1>1, <1>2

-----------------------------------------------------------------------------
(* What a step of reader r does to the blocks of r on their way *)

\* Two sequences one after the other.
LEMMA Concatenation ==
    ASSUME NEW u \in Seq(Nat), NEW v \in Seq(Nat)
    PROVE  /\ Len(u \o v) = Len(u) + Len(v) /\ DOMAIN (u \o v) = 1..Len(u \o v)
           /\ DOMAIN u = 1..Len(u) /\ DOMAIN v = 1..Len(v)
           /\ Len(u) \in Nat /\ Len(v) \in Nat
           /\ \A i \in 1..(Len(u) + Len(v)) :
                (u \o v)[i] = IF i <= Len(u) THEN u[i] ELSE v[i - Len(u)]
OBVIOUS

\* Types of what the invariants compare.
LEMMA SeqTypes ==
    ASSUME IInv, NEW r \in Requests
    PROVE  /\ SentSeq(r) \in Int /\ seq[r] \in Nat /\ drops[r] \in Nat
           /\ pos[r] \in Nat
           /\ \A b \in Blocks : /\ blk[b].seq \in Nat /\ blk[b].data \in Seq(Units)
                                /\ blk[b].final \in BOOLEAN
                                /\ blk[b].abort \in BOOLEAN
           /\ BufferOf(r) \in PayloadBuffer
           /\ BufferOf(r).nextSeq \in Nat /\ BufferOf(r).data \in Seq(Units)
           /\ r \in DOMAIN inflight => BufferOf(r) = inflight[r]
           /\ \A c \in Counters : stats[r][c] \in Nat
<1>1. seq[r] \in Nat /\ drops[r] \in Nat /\ pos[r] \in Nat
      /\ blk \in [Blocks -> AuditBlock]
  BY ReaderFacts
<1>2. SentSeq(r) \in Int
  BY <1>1 DEF SentSeq
<1>3. \A b \in Blocks : /\ blk[b].seq \in Nat /\ blk[b].data \in Seq(Units)
                        /\ blk[b].final \in BOOLEAN /\ blk[b].abort \in BOOLEAN
  BY <1>1 DEF AuditBlock
<1>4. BufferOf(r) \in PayloadBuffer
  BY DEF IInv, TypeOK, AsmTypeOK, BufferOf, PayloadBuffer
<1>5. BufferOf(r).nextSeq \in Nat /\ BufferOf(r).data \in Seq(Units)
  BY <1>4 DEF PayloadBuffer
<1>6. r \in DOMAIN inflight => BufferOf(r) = inflight[r]
  BY DEF BufferOf
<1>7. \A c \in Counters : stats[r][c] \in Nat
  BY DEF IInv, TypeOK, AsmTypeOK
<1> QED
  BY <1>1, <1>2, <1>3, <1>4, <1>5, <1>6, <1>7

\* Everything said of the request's blocks and buffer, whoever steps.
Under(r) == SentInv(r) /\ BufferInv(r) /\ ChainInv(r) /\ FinalInv(r)

\* Nothing is lost after the step that was not lost, or given up, before it.
LEMMA LostKept ==
    ASSUME IInv, NEW r \in Requests, drops'[r] >= drops[r], drops'[r] \in Nat,
           UNCHANGED stats
    PROVE  (Counted(r)' <=> Counted(r))
           /\ (Lost(r)' <=> Counted(r) \/ drops'[r] > 0)
           /\ (Lost(r) <=> Counted(r) \/ drops[r] > 0)
           /\ (~Lost(r)' => ~Lost(r) /\ drops'[r] = 0)
BY SeqTypes DEF Lost, Counted

\* What the assembler's side says of a request whose reader takes a quiet step.
LEMMA QuietUnder ==
    ASSUME IInv, NEW r \in Requests, Quiet(r), UNCHANGED asmVars, Under(r),
           drops'[r] \in Nat, drops'[r] <= 1, SentSeq(r)' \in Int,
           \A b \in Blocks : Transit(b) => blk'[b] = blk[b]
    PROVE  Under(r)'
<1>0. /\ SentSeq(r) \in Int /\ seq[r] \in Nat /\ drops[r] \in Nat
      /\ \A b \in Blocks : blk[b].seq \in Nat
  BY SeqTypes
<1>1. /\ Over(r) => Over(r)' /\ seq'[r] = seq[r] /\ pos'[r] = pos[r]
      /\ SentSeq(r)' >= SentSeq(r) /\ drops'[r] >= drops[r]
      /\ SentSeq(r)' = SentSeq(r) \/ drops'[r] > 0
      /\ pos'[r] > 0 /\ drops'[r] = 0 /\ Finished(r)'
           => Finished(r) /\ drops[r] = 0 /\ pos'[r] = pos[r]
      /\ UNCHANGED queue
  BY DEF Quiet
<1>2. /\ \A b \in Blocks : Transit(b)' <=> Transit(b)
      /\ \A b, c \in Blocks : Ahead(b, c)' <=> Ahead(b, c)
  BY <1>1, TransitSame DEF asmVars
<1>3. /\ \A b \in Blocks : Mine(r, b)' <=> Mine(r, b)
      /\ \A b \in Blocks : Mine(r, b) => blk'[b] = blk[b]
  BY <1>2 DEF Mine
<1>4. UNCHANGED <<inflight, stats, dispatched, running>>
      /\ BufferOf(r)' = BufferOf(r)
  BY DEF asmVars, BufferOf
<1>5. /\ Counted(r)' <=> Counted(r)
      /\ Lost(r)' <=> Counted(r) \/ drops'[r] > 0
      /\ ~Lost(r)' => ~Lost(r) /\ drops'[r] = 0
  BY <1>1, <1>4, LostKept
<1>6. drops[r] = 1 => drops'[r] = 1
  BY <1>0, <1>1
<1>7. SentInv(r)'
  BY <1>0, <1>1, <1>2, <1>3, <1>6 DEF Under, SentInv, InPlace
<1>8. BufferInv(r)'
  BY <1>0, <1>1, <1>3, <1>4, <1>5 DEF Under, BufferInv, Touched
<1>9. ChainInv(r)'
  BY <1>0, <1>1, <1>3, <1>4, <1>5 DEF Under, ChainInv
<1>10. FinalInv(r)'
  BY <1>1, <1>3, <1>4, <1>5 DEF Under, FinalInv
<1> QED
  BY <1>7, <1>8, <1>9, <1>10 DEF Under

\* The block that is sent is the next one, and the last one if it is final.
LEMMA SendUnder ==
    ASSUME IInv, NEW r \in Requests, NEW b \in Blocks, Sends(r, b),
           UNCHANGED asmVars, Under(r), DropInv(r),
           drops'[r] \in Nat, drops'[r] <= 1, SentSeq(r)' \in Int,
           \A c \in Blocks : Transit(c) => blk'[c] = blk[c]
    PROVE  Under(r)'
<1>0. /\ SentSeq(r) \in Int /\ seq[r] \in Nat /\ drops[r] \in Nat
      /\ \A c \in Blocks : blk[c].seq \in Nat
  BY SeqTypes
<1>1. /\ ~Transit(b) /\ queue' = Append(queue, b) /\ blk'[b] = blk[b]
      /\ blk[b].requestID = r /\ InPlace(blk[b])
      /\ ~Finished(r)
      /\ SentSeq(r)' >= SentSeq(r) /\ drops'[r] >= drops[r]
      /\ blk[b].seq >= SentSeq(r)
      /\ \/ SentSeq(r)' = SentSeq(r)
         \/ SentSeq(r)' = SentSeq(r) + 1 /\ blk[b].seq = SentSeq(r)
      /\ ~blk[b].final => blk[b].seq < SentSeq(r)'
      /\ blk[b].final =>
           /\ Over(r)'
           /\ blk[b].seq <= seq'[r] /\ seq'[r] >= 1 /\ pos'[r] > 0
           /\ Off(blk[b].seq) + Len(blk[b].data) = pos'[r]
           /\ ~blk[b].abort
      /\ blk[b].abort => drops'[r] = 1
      /\ ~blk[b].final /\ ~blk[b].abort => Len(blk[b].data) = BlockSize
      /\ Finished(r)' => blk[b].final \/ drops'[r] > 0
  BY DEF Sends
<1>2. /\ \A c \in Blocks : Transit(c)' <=> Transit(c) \/ c = b
      /\ \A c, d \in Blocks :
           Ahead(c, d)' <=> Ahead(c, d) \/ (Transit(c) /\ d = b)
  <2>1. queue \in Seq(Blocks) /\ hand \in Blocks \cup {NoBlock} /\ UNCHANGED hand
    BY DEF IInv, TypeOK, PoolTypeOK, AsmTypeOK, asmVars
  <2> QED
    BY <1>1, <2>1, TransitSend
<1>3. /\ \A c \in Blocks : Mine(r, c)' <=> Mine(r, c) \/ c = b
      /\ \A c \in Blocks : Mine(r, c) \/ c = b => blk'[c] = blk[c]
      /\ \A c, d \in Blocks : Mine(r, c) /\ Ahead(c, d)' => Ahead(c, d) \/ d = b
      /\ \A d \in Blocks : ~Ahead(b, d)'
      /\ ~Mine(r, b)
  <2>1. \A d \in Blocks : ~Ahead(b, d)
    BY <1>1, AheadTransit
  <2> QED
    BY <1>1, <1>2, <2>1 DEF Mine
<1>4. UNCHANGED <<inflight, stats, dispatched, running>>
      /\ BufferOf(r)' = BufferOf(r)
  BY DEF asmVars, BufferOf
<1>5. /\ Counted(r)' <=> Counted(r)
      /\ Lost(r)' <=> Counted(r) \/ drops'[r] > 0
      /\ ~Lost(r)' => ~Lost(r) /\ drops'[r] = 0
  BY <1>1, <1>4, LostKept
<1>6. drops[r] = 1 => drops'[r] = 1
  BY <1>0, <1>1
<1>7. \A c \in Blocks : Mine(r, c) => ~blk[c].final /\ blk[c].seq < SentSeq(r)
  BY <1>1 DEF Under, SentInv, Over
<1>8. SentInv(r)'
  <2>1. ASSUME NEW c \in Blocks, Mine(r, c)
        PROVE  /\ c # b /\ blk'[c] = blk[c]
               /\ ~blk[c].final /\ blk[c].seq < SentSeq(r)'
               /\ blk[c].abort => drops'[r] = 1
               /\ ~blk[c].abort => Len(blk[c].data) = BlockSize
               /\ InPlace(blk[c])
               /\ \A d \in Blocks : Mine(r, d)' /\ Ahead(c, d)'
                    => blk[c].seq < blk'[d].seq
    <3>1. /\ blk[c].abort => drops[r] = 1
          /\ ~blk[c].abort => Len(blk[c].data) = BlockSize
          /\ InPlace(blk[c])
          /\ \A d \in Blocks : Mine(r, d) /\ Ahead(c, d) => blk[c].seq < blk[d].seq
      BY <1>7, <2>1 DEF Under, SentInv
    <3>2. blk[c].seq < blk[b].seq /\ blk[c].seq < SentSeq(r)'
      BY <1>0, <1>1, <1>7, <2>1
    <3>3. ASSUME NEW d \in Blocks, Mine(r, d)', Ahead(c, d)'
          PROVE  blk[c].seq < blk'[d].seq
      <4>1. CASE d = b
        BY <1>1, <3>2, <4>1
      <4>2. CASE d # b
        <5>1. Mine(r, d) /\ Ahead(c, d) /\ blk'[d] = blk[d]
          BY <1>3, <2>1, <3>3, <4>2
        <5> QED
          BY <3>1, <5>1
      <4> QED
        BY <4>1, <4>2
    <3> QED
      BY <1>3, <1>6, <1>7, <2>1, <3>1, <3>2, <3>3
  <2>2. ASSUME NEW c \in Blocks, Mine(r, c)'
        PROVE  LET k == blk'[c]
               IN  /\ k.final =>
                        /\ Over(r)'
                        /\ k.seq <= seq'[r] /\ seq'[r] >= 1 /\ pos'[r] > 0
                        /\ Off(k.seq) + Len(k.data) = pos'[r]
                        /\ ~k.abort
                   /\ ~k.final => k.seq < SentSeq(r)'
                   /\ k.abort => drops'[r] = 1
                   /\ ~k.final /\ ~k.abort => Len(k.data) = BlockSize
                   /\ InPlace(k)
                   /\ \A d \in Blocks : Mine(r, d)' /\ Ahead(c, d)'
                        => k.seq < blk'[d].seq /\ ~k.final
    <3>1. CASE c = b
      BY <1>1, <1>3, <3>1
    <3>2. CASE c # b
      <4>1. Mine(r, c)
        BY <1>3, <2>2, <3>2
      <4>2. /\ blk'[c] = blk[c]
            /\ ~blk[c].final /\ blk[c].seq < SentSeq(r)'
            /\ blk[c].abort => drops'[r] = 1
            /\ ~blk[c].abort => Len(blk[c].data) = BlockSize
            /\ InPlace(blk[c])
            /\ \A d \in Blocks : Mine(r, d)' /\ Ahead(c, d)'
                 => blk[c].seq < blk'[d].seq
        BY <2>1, <4>1
      <4> QED
        BY <4>2
    <3> QED
      BY <3>1, <3>2
  <2> QED
    BY <2>2 DEF SentInv, InPlace
<1>9. BufferInv(r)'
  <2>1. Touched(r)' <=> Touched(r)
    BY <1>4, <1>5 DEF Touched
  <2>2. dispatched[r] = <<>>
    BY <1>1 DEF Under, BufferInv, Over
  <2>3. Touched(r) => /\ SentSeq(r)' >= 1
                      /\ \A c \in Blocks : Mine(r, c)' => blk'[c].seq >= 1
    <3>1. Touched(r) => /\ SentSeq(r) >= 1
                        /\ \A c \in Blocks : Mine(r, c) => blk[c].seq >= 1
      BY DEF Under, BufferInv
    <3>2. Touched(r) => SentSeq(r)' >= 1 /\ blk[b].seq >= 1
      BY <1>0, <1>1, <3>1
    <3> QED
      BY <1>3, <3>1, <3>2
  <2> QED
    BY <1>4, <1>5, <2>1, <2>2, <2>3 DEF Under, BufferInv
<1>10. ChainInv(r)'
  <2>1. SUFFICES ASSUME running', ~Lost(r)', dispatched'[r] = <<>>
                 PROVE  /\ BufferOf(r).nextSeq <= SentSeq(r)'
                        /\ \A c \in Blocks : Mine(r, c)' =>
                             blk'[c].seq >= BufferOf(r).nextSeq
                        /\ \A n \in BufferOf(r).nextSeq .. (SentSeq(r)' - 1) :
                             \E c \in Blocks : Mine(r, c)' /\ blk'[c].seq = n
    BY <1>4 DEF ChainInv
  <2> DEFINE m == BufferOf(r).nextSeq
             s == SentSeq(r)
             t == SentSeq(r)'
  <2>2. m \in Nat /\ s \in Int /\ t \in Int
    BY <1>0, SeqTypes
  <2>3. /\ m <= s
        /\ \A c \in Blocks : Mine(r, c) => blk[c].seq >= m
        /\ \A n \in m .. (s - 1) : \E c \in Blocks : Mine(r, c) /\ blk[c].seq = n
    BY <1>4, <1>5, <2>1 DEF Under, ChainInv
  <2>4. t >= s /\ blk[b].seq >= s /\ blk[b].seq \in Nat
        /\ (t = s \/ (t = s + 1 /\ blk[b].seq = s))
    BY <1>0, <1>1
  <2> HIDE DEF m, s, t
  <2>5. m <= t /\ blk[b].seq >= m
    BY <2>2, <2>3, <2>4
  <2>6. \A c \in Blocks : Mine(r, c)' => blk'[c].seq >= m
    BY <1>3, <2>3, <2>5
  <2>7. ASSUME NEW n \in m .. (t - 1)
        PROVE  \E c \in Blocks : Mine(r, c)' /\ blk'[c].seq = n
    <3>1. CASE n \in m .. (s - 1)
      <4>1. PICK c \in Blocks : Mine(r, c) /\ blk[c].seq = n
        BY <2>3, <3>1
      <4> QED
        BY <1>3, <4>1
    <3>2. CASE n \notin m .. (s - 1)
      <4>1. n = blk[b].seq
        BY <2>2, <2>4, <2>7, <3>2
      <4>2. Mine(r, b)' /\ blk'[b].seq = n
        BY <1>3, <4>1
      <4> QED
        BY <4>2
    <3> QED
      BY <3>1, <3>2
  <2> QED
    BY <2>5, <2>6, <2>7 DEF m, s, t
<1>11. FinalInv(r)'
  <2>1. Mine(r, b)' /\ blk'[b] = blk[b]
    BY <1>3
  <2>2. ~Lost(r)' => drops'[r] = 0
    BY <1>5
  <2> QED
    BY <1>1, <2>1, <2>2 DEF FinalInv
<1> QED
  BY <1>8, <1>9, <1>10, <1>11 DEF Under

-----------------------------------------------------------------------------
(* What a step does to the requests it is not about *)

\* Nothing that Fate(q) speaks of changed.
SameReader(q) ==
    /\ UNCHANGED <<pc[q], current[q], next[q], seq[q], todo[q], pos[q],
                   abandoned[q], finalized[q], drops[q]>>
    /\ current[q] # NoBlock => blk'[current[q]] = blk[current[q]]
    /\ next[q] # NoBlock => blk'[next[q]] = blk[next[q]]
SameTransit(q) ==
    /\ \A b \in Blocks : Mine(q, b)' <=> Mine(q, b)
    /\ \A b \in Blocks : Mine(q, b) => blk'[b] = blk[b]
    /\ \A b, c \in Blocks : Mine(q, b) /\ Mine(q, c)
                              => (Ahead(b, c)' <=> Ahead(b, c))
SameBuffer(q) ==
    /\ q \in DOMAIN inflight' <=> q \in DOMAIN inflight
    /\ q \in DOMAIN inflight => inflight'[q] = inflight[q]
    /\ UNCHANGED <<stats[q], dispatched[q]>>

\* A reader that nothing happens to keeps its place.
LEMMA ReaderKept ==
    ASSUME NEW q \in Requests, DropInv(q), PositionInv(q), SameReader(q)
    PROVE  /\ DropInv(q)' /\ PositionInv(q)'
           /\ SentSeq(q)' = SentSeq(q)
           /\ Over(q)' <=> Over(q)
           /\ Finished(q)' <=> Finished(q)
<1>1. /\ pc'[q] = pc[q] /\ current'[q] = current[q] /\ next'[q] = next[q]
      /\ seq'[q] = seq[q] /\ todo'[q] = todo[q] /\ pos'[q] = pos[q]
      /\ abandoned'[q] = abandoned[q] /\ finalized'[q] = finalized[q]
      /\ drops'[q] = drops[q]
  BY DEF SameReader
<1>2. Finished(q)' <=> Finished(q)
  BY <1>1 DEF Finished
<1>3. Over(q)' <=> Over(q)
  BY <1>1, <1>2 DEF Over
<1>4. SentSeq(q)' = SentSeq(q)
  BY <1>1 DEF SentSeq
<1>5. DropInv(q)'
  BY <1>1, <1>2 DEF DropInv
<1>6. current[q] # NoBlock /\ CurrentInv(q) => CurrentInv(q)'
  <2>1. SUFFICES ASSUME current[q] # NoBlock, CurrentInv(q) PROVE CurrentInv(q)'
    OBVIOUS
  <2>2. blk'[current'[q]] = blk[current[q]]
    BY <1>1, <2>1 DEF SameReader
  <2> QED
    BY <1>1, <2>1, <2>2 DEF CurrentInv, InPlace
<1>7. next[q] # NoBlock /\ NextInv(q) => NextInv(q)'
  <2>1. SUFFICES ASSUME next[q] # NoBlock, NextInv(q) PROVE NextInv(q)'
    OBVIOUS
  <2>2. blk'[next'[q]] = blk[next[q]]
    BY <1>1, <2>1 DEF SameReader
  <2> QED
    BY <1>1, <2>1, <2>2 DEF NextInv
<1>8. PositionInv(q)'
  BY <1>1, <1>6, <1>7 DEF PositionInv
<1> QED
  BY <1>2, <1>3, <1>4, <1>5, <1>8

\* A request that nothing happens to keeps its fate.
LEMMA FateKept ==
    ASSUME NEW q \in Requests, Fate(q), UNCHANGED running,
           SameReader(q), SameTransit(q), SameBuffer(q)
    PROVE  Fate(q)'
<1>1. /\ DropInv(q)' /\ PositionInv(q)'
      /\ SentSeq(q)' = SentSeq(q)
      /\ Over(q)' <=> Over(q)
      /\ Finished(q)' <=> Finished(q)
  BY ReaderKept DEF Fate
<1>2. /\ \A b \in Blocks : Mine(q, b)' <=> Mine(q, b)
      /\ \A b \in Blocks : Mine(q, b) => blk'[b] = blk[b]
      /\ \A b, c \in Blocks : Mine(q, b) /\ Mine(q, c)
                                => (Ahead(b, c)' <=> Ahead(b, c))
  BY DEF SameTransit
<1>3. /\ q \in DOMAIN inflight' <=> q \in DOMAIN inflight
      /\ q \in DOMAIN inflight => inflight'[q] = inflight[q]
      /\ stats'[q] = stats[q] /\ dispatched'[q] = dispatched[q]
  BY DEF SameBuffer
<1>4. seq'[q] = seq[q] /\ pos'[q] = pos[q] /\ drops'[q] = drops[q]
  BY DEF SameReader
<1>5. BufferOf(q)' = BufferOf(q)
  BY <1>3 DEF BufferOf
<1>6. (Counted(q)' <=> Counted(q)) /\ (Touched(q)' <=> Touched(q))
      /\ (Lost(q)' <=> Lost(q))
  BY <1>3, <1>4 DEF Counted, Touched, Lost
<1>7. SentInv(q)'
  BY <1>1, <1>2, <1>4 DEF Fate, SentInv, InPlace
<1>8. BufferInv(q)'
  BY <1>1, <1>2, <1>3, <1>6 DEF Fate, BufferInv
<1>9. ChainInv(q)'
  BY <1>1, <1>2, <1>3, <1>5, <1>6 DEF Fate, ChainInv
<1>10. FinalInv(q)'
  BY <1>1, <1>2, <1>3, <1>4, <1>6 DEF Fate, FinalInv
<1> QED
  BY <1>1, <1>7, <1>8, <1>9, <1>10 DEF Fate

\* A reader step counts blocks and drops of its own reader only.
LEMMA OthersCount ==
    ASSUME IInv, NEW r \in Requests, ReaderStep(r) \/ TransportStep(r),
           NEW q \in Requests, q # r
    PROVE  UNCHANGED <<seq[q], drops[q]>>
<1> USE DEF IInv, TypeOK, ReaderTypeOK
<1>1. CASE GetCurrent(r) \/ GetNext(r) \/ GetSentinel(r)
  BY <1>1 DEF GetCurrent, GetNext, GetSentinel
<1>2. CASE GetCurrentFails(r) \/ GetNextFails(r) \/ GetSentinelFails(r)
  BY <1>2 DEF GetCurrentFails, GetNextFails, GetSentinelFails, GiveUp
<1>3. CASE WriteBlock(r) \/ Finish(r) \/ SendFull(r)
  BY <1>3 DEF WriteBlock, Finish, SendFull
<1>4. CASE SendFullFails(r) \/ SendAbort(r) \/ SendAbortFails(r)
  BY <1>4 DEF SendFullFails, SendAbort, SendAbortFails, GiveUp
<1>5. CASE ReleaseCurrent(r) \/ ReleaseNext(r)
  BY <1>5 DEF ReleaseCurrent, ReleaseNext, GiveUp
<1>6. CASE SendFinal(r) \/ SendFinalFails(r) \/ PutFinal(r)
  BY <1>6 DEF SendFinal, SendFinalFails, PutFinal
<1>7. CASE TransportStep(r)
  BY <1>7 DEF TransportStep, Read, Close
<1> QED
  BY <1>1, <1>2, <1>3, <1>4, <1>5, <1>6, <1>7 DEF ReaderStep

\* A reader step keeps every request's fate.
LEMMA ReadersFate ==
    ASSUME IInv, \A q \in Requests : Fate(q), IInv',
           NEW r \in Requests, ReaderStep(r) \/ TransportStep(r), UNCHANGED asmVars
    PROVE  \A q \in Requests : Fate(q)'
<1>1. \A b \in Blocks : Transit(b) => blk'[b] = blk[b]
  BY ReadersContent DEF Transit, asmVars
<1>2. Fate(r)'
  <2>1. /\ DropInv(r)' /\ PositionInv(r)'
        /\ Quiet(r) \/ \E b \in Blocks : Sends(r, b)
    BY LocalStep DEF Fate
  <2>2. drops'[r] \in Nat /\ drops'[r] <= 1 /\ SentSeq(r)' \in Int
    <3>1. seq'[r] \in Nat /\ drops'[r] \in Nat
      BY DEF IInv, TypeOK, ReaderTypeOK
    <3> QED
      BY <2>1, <3>1 DEF DropInv, SentSeq
  <2>3. Under(r) /\ DropInv(r)
    BY DEF Fate, Under
  <2>4. Under(r)'
    BY <1>1, <2>1, <2>2, <2>3, QuietUnder, SendUnder
  <2> QED
    BY <2>1, <2>4 DEF Fate, Under
<1>3. ASSUME NEW q \in Requests, q # r PROVE Fate(q)'
  <2>1. OwnWrites(r)
    BY ReaderWrites
  <2>2. /\ current \in [Requests -> Blocks \cup {NoBlock}]
        /\ next \in [Requests -> Blocks \cup {NoBlock}]
        /\ NoneShared
    BY DEF IInv, TypeOK, ReaderTypeOK, BlockConservation
  <2>3. SameReader(q)
    <3>1. current[q] # NoBlock => blk'[current[q]] = blk[current[q]]
      BY <1>3, <2>1, <2>2 DEF OwnWrites, NoneShared, WithReader
    <3>2. next[q] # NoBlock => blk'[next[q]] = blk[next[q]]
      BY <1>3, <2>1, <2>2 DEF OwnWrites, NoneShared, WithReader
    <3> QED
      BY <1>3, <3>1, <3>2, OthersUntouched, OthersCount DEF SameReader
  <2>4. SameTransit(q)
    <3>1. CASE UNCHANGED queue
      <4>1. /\ \A b \in Blocks : Transit(b)' <=> Transit(b)
            /\ \A b, c \in Blocks : Ahead(b, c)' <=> Ahead(b, c)
        BY <3>1, TransitSame DEF asmVars
      <4> QED
        BY <1>1, <4>1 DEF SameTransit, Mine
    <3>2. ASSUME NEW b \in Blocks, Sends(r, b) PROVE SameTransit(q)
      <4>1. /\ ~Transit(b) /\ queue' = Append(queue, b) /\ blk'[b] = blk[b]
            /\ blk[b].requestID = r
        BY <3>2 DEF Sends
      <4>2. /\ \A c \in Blocks : Transit(c)' <=> Transit(c) \/ c = b
            /\ \A c, d \in Blocks :
                 Ahead(c, d)' <=> Ahead(c, d) \/ (Transit(c) /\ d = b)
        <5>1. queue \in Seq(Blocks) /\ hand \in Blocks \cup {NoBlock}
              /\ UNCHANGED hand
          BY DEF IInv, TypeOK, PoolTypeOK, AsmTypeOK, asmVars
        <5> QED
          BY <4>1, <5>1, TransitSend
      <4> QED
        BY <1>1, <1>3, <4>1, <4>2 DEF SameTransit, Mine
    <3>3. Quiet(r) \/ \E b \in Blocks : Sends(r, b)
      BY LocalStep DEF Fate
    <3> QED
      BY <3>1, <3>2, <3>3 DEF Quiet
  <2>5. SameBuffer(q) /\ UNCHANGED running
    BY DEF SameBuffer, asmVars
  <2> QED
    BY <2>3, <2>4, <2>5, FateKept
<1> QED
  BY <1>2, <1>3

-----------------------------------------------------------------------------
(* What the assembler does to the request whose block it has in hand *)

\* The assembler touches no reader and no block.
LEMMA AsmSameReader ==
    ASSUME UNCHANGED <<readerVars, blk>>, NEW q \in Requests
    PROVE  SameReader(q)
BY DEF SameReader, readerVars

\* What is known once the block h of r goes back to the pool: what is still on
\* its way comes later in the body, and r had no payload yet.
LEMMA HandGone ==
    ASSUME IInv, ExitInv, PutHand, UNCHANGED readerVars,
           NEW h \in Blocks, h = hand, NEW r \in Requests, r = Rid, Fate(r)
    PROVE  /\ running /\ UNCHANGED <<blk, running>>
           /\ Mine(r, h) /\ dispatched[r] = <<>>
           /\ \A b \in Blocks : Mine(r, b)' <=> Mine(r, b) /\ b # h
           /\ \A b \in Blocks : Mine(r, b) /\ b # h
                                  => blk[h].seq < blk[b].seq /\ ~blk[h].final
           /\ DropInv(r)' /\ PositionInv(r)' /\ SentInv(r)'
           /\ SentSeq(r)' = SentSeq(r) /\ SentSeq(r) >= 1
           /\ (Over(r)' <=> Over(r)) /\ (Finished(r)' <=> Finished(r))
           /\ drops'[r] = drops[r] /\ pos'[r] = pos[r]
<1>1. /\ \A b \in Blocks : Transit(b)' <=> Transit(b) /\ b # h
      /\ \A b, c \in Blocks : Ahead(b, c)' <=> Ahead(b, c) /\ b # h
      /\ \A b \in Blocks : Transit(b) /\ b # h => Ahead(h, b)
      /\ Transit(h)
  BY TransitPut
<1>2. UNCHANGED <<blk, running>> /\ running
  BY BlocksAssumption DEF PutHand, ExitInv
<1>3. Mine(r, h)
  BY <1>1 DEF Mine, Rid
<1>4. \A b \in Blocks : Mine(r, b)' <=> Mine(r, b) /\ b # h
  BY <1>1, <1>2 DEF Mine
<1>5. \A b \in Blocks : Mine(r, b) /\ b # h
                          => blk[h].seq < blk[b].seq /\ ~blk[h].final
  BY <1>1, <1>3 DEF Mine, Fate, SentInv
<1>6. dispatched[r] = <<>>
  BY <1>3 DEF Fate, BufferInv
<1>7. /\ DropInv(r)' /\ PositionInv(r)'
      /\ SentSeq(r)' = SentSeq(r)
      /\ Over(r)' <=> Over(r)
      /\ Finished(r)' <=> Finished(r)
  BY <1>2, AsmSameReader, ReaderKept DEF Fate
<1>8. SentSeq(r) >= 1
  <2>1. /\ ~blk[h].final => blk[h].seq < SentSeq(r)
        /\ blk[h].final => Over(r) /\ seq[r] >= 1
    BY <1>3 DEF Fate, SentInv
  <2>2. SentSeq(r) \in Int /\ blk[h].seq \in Nat /\ seq[r] \in Nat
    BY SeqTypes
  <2>3. Over(r) => SentSeq(r) = seq[r]
    BY DEF Over, Finished, SentSeq
  <2> QED
    BY <2>1, <2>2, <2>3
<1>9. drops'[r] = drops[r] /\ pos'[r] = pos[r] /\ seq'[r] = seq[r]
  BY DEF readerVars
<1>10. SentInv(r)'
  BY <1>1, <1>2, <1>4, <1>7, <1>9 DEF Fate, SentInv, InPlace
<1> QED
  BY <1>2, <1>3, <1>4, <1>5, <1>6, <1>7, <1>8, <1>9, <1>10

\* The blocks of r that remain are not its first.
LEMMA RestLater ==
    ASSUME IInv, NEW h \in Blocks, NEW r \in Requests,
           UNCHANGED blk,
           \A b \in Blocks : Mine(r, b)' <=> Mine(r, b) /\ b # h,
           \A b \in Blocks : Mine(r, b) /\ b # h => blk[h].seq < blk[b].seq
    PROVE  \A b \in Blocks : Mine(r, b)' => blk'[b].seq >= 1
<1>1. \A b \in Blocks : blk[b].seq \in Nat
  BY SeqTypes
<1> QED
  BY <1>1

\* As long as nothing of r is lost, the block in hand is the one expected: the
\* branch for an unexpected one is never the first to lose anything.
LEMMA InOrderUnlessLost ==
    ASSUME IInv, ExitInv, PutHand, UNCHANGED readerVars,
           NEW h \in Blocks, h = hand, NEW r \in Requests, r = Rid, Fate(r),
           ~Lost(r)
    PROVE  blk[h].seq = BufferOf(r).nextSeq
<1> DEFINE m == BufferOf(r).nextSeq
           k == blk[h].seq
           s == SentSeq(r)
<1>1. /\ running /\ Mine(r, h) /\ dispatched[r] = <<>>
      /\ \A b \in Blocks : Mine(r, b) /\ b # h => k < blk[b].seq /\ ~blk[h].final
  BY HandGone
<1>2. /\ m <= s /\ k >= m
      /\ \A n \in m .. (s - 1) : \E b \in Blocks : Mine(r, b) /\ blk[b].seq = n
  BY <1>1 DEF Fate, ChainInv
<1>3. m \in Nat /\ k \in Nat /\ s \in Int /\ seq[r] \in Nat
      /\ \A b \in Blocks : blk[b].seq \in Nat
  BY SeqTypes
<1>4. /\ ~blk[h].final => k < s
      /\ blk[h].final => k <= s
  <2>1. /\ ~blk[h].final => k < s
        /\ blk[h].final => Over(r) /\ k <= seq[r]
    BY <1>1 DEF Fate, SentInv
  <2>2. Over(r) => s = seq[r]
    BY DEF Over, Finished, SentSeq
  <2> HIDE DEF k, s
  <2> QED
    BY <2>1, <2>2
<1> HIDE DEF m, s
<1>5. CASE m = s
  BY <1>2, <1>3, <1>4, <1>5 DEF m
<1>6. CASE m # s
  <2>1. m \in m .. (s - 1)
    BY <1>2, <1>3, <1>6
  <2>2. PICK b \in Blocks : Mine(r, b) /\ blk[b].seq = m
    BY <1>2, <2>1
  <2>3. CASE b = h
    BY <2>2, <2>3 DEF m
  <2>4. CASE b # h
    BY <1>1, <1>2, <1>3, <2>2, <2>4
  <2> QED
    BY <2>3, <2>4
<1> QED
  BY <1>5, <1>6

\* An end of r in the assembler: no buffer remains, and either r is lost or it
\* was not counted before either.
LEMMA EndFate ==
    ASSUME IInv, ExitInv, PutHand, UNCHANGED readerVars,
           NEW h \in Blocks, h = hand, NEW r \in Requests, r = Rid, Fate(r),
           r \notin DOMAIN inflight', UNCHANGED dispatched,
           Lost(r)'
    PROVE  Fate(r)'
<1>1. /\ UNCHANGED <<blk, running>>
      /\ dispatched[r] = <<>>
      /\ \A b \in Blocks : Mine(r, b)' <=> Mine(r, b) /\ b # h
      /\ \A b \in Blocks : Mine(r, b) /\ b # h => blk[h].seq < blk[b].seq
      /\ DropInv(r)' /\ PositionInv(r)' /\ SentInv(r)'
      /\ SentSeq(r)' = SentSeq(r) /\ SentSeq(r) >= 1
  BY HandGone
<1>2. \A b \in Blocks : Mine(r, b)' => blk'[b].seq >= 1
  BY <1>1, RestLater
<1>3. BufferInv(r)'
  BY <1>1, <1>2 DEF BufferInv
<1>4. ChainInv(r)' /\ FinalInv(r)'
  BY DEF ChainInv, FinalInv
<1> QED
  BY <1>1, <1>3, <1>4 DEF Fate

\* A block that is accepted continues the beginning of the body that the buffer
\* holds, and nothing of r was counted as lost.
LEMMA AcceptedFacts ==
    ASSUME IInv, ExitInv, PutHand, UNCHANGED readerVars, Accepted,
           NEW h \in Blocks, h = hand, NEW r \in Requests, r = Rid, Fate(r)
    PROVE  /\ ~Counted(r)
           /\ blk[h].seq = BufferOf(r).nextSeq
           /\ Len(Appended) = Off(blk[h].seq) + Len(blk[h].data)
           /\ \A i \in DOMAIN Appended : Appended[i] = i
<1> DEFINE m == BufferOf(r).nextSeq
           s == BufferOf(r).data
           t == blk[h].data
           o == Off(m)
<1>1. blk[h].seq = m
  BY DEF Accepted, InOrder
<1>2. Mine(r, h)
  BY HandGone
<1>3. InPlace(blk[h]) /\ (Touched(r) => blk[h].seq >= 1)
  BY <1>2 DEF Fate, SentInv, BufferInv
<1>4. m \in Nat /\ s \in Seq(Units) /\ t \in Seq(Units)
  BY SeqTypes
<1>5. Len(s) = o /\ (\A i \in DOMAIN s : s[i] = i) /\ ~Counted(r)
  <2>1. CASE r \in DOMAIN inflight
    <3>1. BufferOf(r) = inflight[r]
      BY <2>1 DEF BufferOf
    <3> QED
      BY <2>1, <3>1 DEF Fate, BufferInv
  <2>2. CASE r \notin DOMAIN inflight
    <3>1. m = 0 /\ s = <<>>
      BY <2>2 DEF BufferOf
    <3>2. o = 0
      BY <3>1, OffFacts
    <3>3. ~Counted(r)
      BY <1>1, <1>3, <3>1 DEF Touched
    <3>4. Len(s) = 0 /\ DOMAIN s = {}
      BY <3>1
    <3> QED
      BY <3>2, <3>3, <3>4
  <2> QED
    BY <2>1, <2>2
<1>6. Appended = s \o t
  BY DEF Appended
<1>7. \A i \in DOMAIN t : t[i] = o + i
  BY <1>1, <1>3 DEF InPlace
<1> DEFINE a == Appended
<1>8. /\ a = s \o t /\ s \in Seq(Nat) /\ t \in Seq(Nat)
      /\ Len(s) = o /\ (\A i \in DOMAIN s : s[i] = i)
      /\ \A i \in DOMAIN t : t[i] = o + i
  BY <1>4, <1>5, <1>6, <1>7 DEF Units
<1> HIDE DEF a, s, t, o
<1>9. Len(a) = o + Len(t) /\ \A i \in DOMAIN a : a[i] = i
  <2>1. /\ Len(a) = Len(s) + Len(t) /\ DOMAIN a = 1..Len(a)
        /\ DOMAIN s = 1..Len(s) /\ DOMAIN t = 1..Len(t)
        /\ Len(s) \in Nat /\ Len(t) \in Nat
        /\ \A i \in 1..(Len(s) + Len(t)) :
             a[i] = IF i <= Len(s) THEN s[i] ELSE t[i - Len(s)]
    BY <1>8, Concatenation
  <2>2. ASSUME NEW i \in DOMAIN a PROVE a[i] = i
    <3>1. i \in 1..(Len(s) + Len(t))
      BY <2>1
    <3>2. CASE i <= Len(s)
      BY <1>8, <2>1, <3>1, <3>2
    <3>3. CASE ~(i <= Len(s))
      <4>1. i - Len(s) \in DOMAIN t /\ a[i] = t[i - Len(s)]
        BY <2>1, <3>1, <3>3
      <4>2. t[i - Len(s)] = Len(s) + (i - Len(s))
        BY <1>8, <4>1
      <4> QED
        BY <2>1, <3>1, <4>1, <4>2
    <3> QED
      BY <3>2, <3>3
  <2> QED
    BY <1>8, <2>1, <2>2
<1> QED
  BY <1>1, <1>5, <1>9 DEF a, o, t

\* A block is appended: the buffer holds one block more of the body.
LEMMA AppendFate ==
    ASSUME IInv, ExitInv, AsmAppend, UNCHANGED readerVars,
           NEW h \in Blocks, h = hand, NEW r \in Requests, r = Rid, Fate(r)
    PROVE  Fate(r)'
<1>0. PutHand /\ Accepted /\ ~blk[h].final /\ ~blk[h].abort
      /\ UNCHANGED <<stats, dispatched>>
  BY DEF AsmAppend, Accepted
<1>1. /\ running /\ UNCHANGED <<blk, running>>
      /\ Mine(r, h) /\ dispatched[r] = <<>>
      /\ \A b \in Blocks : Mine(r, b)' <=> Mine(r, b) /\ b # h
      /\ \A b \in Blocks : Mine(r, b) /\ b # h => blk[h].seq < blk[b].seq
      /\ DropInv(r)' /\ PositionInv(r)' /\ SentInv(r)'
      /\ SentSeq(r)' = SentSeq(r) /\ SentSeq(r) >= 1
      /\ (Finished(r)' <=> Finished(r))
      /\ drops'[r] = drops[r] /\ pos'[r] = pos[r]
  BY <1>0, HandGone
<1>2. /\ ~Counted(r) /\ blk[h].seq = BufferOf(r).nextSeq
      /\ Len(Appended) = Off(blk[h].seq) + Len(blk[h].data)
      /\ \A i \in DOMAIN Appended : Appended[i] = i
  BY <1>0, AcceptedFacts
<1> DEFINE k == blk[h].seq
           new == inflight'[r]
<1>3. k \in Nat /\ SentSeq(r) \in Int /\ \A b \in Blocks : blk[b].seq \in Nat
  BY SeqTypes
<1>4. /\ r \in DOMAIN inflight'
      /\ new.data = Appended /\ new.nextSeq = k + 1
  <2>1. inflight' = [q \in DOMAIN inflight \cup {r} |->
           IF q = r THEN [data |-> Appended, nextSeq |-> BufferOf(r).nextSeq + 1]
           ELSE inflight[q]]
    BY AppendFacts
  <2> QED
    BY <1>2, <2>1
<1>5. Len(blk[h].data) = BlockSize /\ k < SentSeq(r)
  BY <1>0, <1>1 DEF Fate, SentInv
<1>6. Len(new.data) = Off(new.nextSeq)
  BY <1>2, <1>3, <1>4, <1>5, OffFacts
<1>7. BufferOf(r)' = new
  BY <1>4 DEF BufferOf
<1>8. (Counted(r)' <=> Counted(r)) /\ (Lost(r)' <=> Lost(r))
  BY <1>0, <1>1 DEF Counted, Lost
<1>9. \A b \in Blocks : Mine(r, b)' => blk'[b].seq >= 1
  BY <1>1, RestLater
<1>10. BufferInv(r)'
  <2>1. new.nextSeq >= 1 /\ dispatched'[r] = <<>>
    BY <1>0, <1>1, <1>3, <1>4
  <2>2. \A i \in DOMAIN new.data : new.data[i] = i
    BY <1>2, <1>4
  <2> HIDE DEF new
  <2>3. inflight'[r] = new
    BY DEF new
  <2> QED
    BY <1>1, <1>2, <1>6, <1>8, <1>9, <2>1, <2>2, <2>3 DEF BufferInv
<1>11. ChainInv(r)'
  <2>1. SUFFICES ASSUME ~Lost(r)
                 PROVE  /\ k + 1 <= SentSeq(r)
                        /\ \A b \in Blocks : Mine(r, b)' => blk'[b].seq >= k + 1
                        /\ \A n \in (k + 1) .. (SentSeq(r) - 1) :
                             \E b \in Blocks : Mine(r, b)' /\ blk'[b].seq = n
    BY <1>1, <1>4, <1>7, <1>8 DEF ChainInv
  <2>2. \A n \in k .. (SentSeq(r) - 1) : \E b \in Blocks : Mine(r, b) /\ blk[b].seq = n
    BY <1>1, <1>2, <2>1 DEF Fate, ChainInv
  <2>3. ASSUME NEW n \in (k + 1) .. (SentSeq(r) - 1)
        PROVE  \E b \in Blocks : Mine(r, b)' /\ blk'[b].seq = n
    <3>1. n \in k .. (SentSeq(r) - 1) /\ n # k
      BY <1>3
    <3>2. PICK b \in Blocks : Mine(r, b) /\ blk[b].seq = n
      BY <2>2, <3>1
    <3>3. b # h
      BY <3>1, <3>2
    <3> QED
      BY <1>1, <3>2, <3>3
  <2>4. \A b \in Blocks : Mine(r, b)' => blk'[b].seq >= k + 1
    BY <1>1, <1>3
  <2> QED
    BY <1>3, <1>5, <2>3, <2>4
<1>12. FinalInv(r)'
  <2>1. SUFFICES ASSUME pos'[r] > 0, ~Lost(r)', dispatched'[r] = <<>>, Finished(r)'
                 PROVE  \E b \in Blocks : Mine(r, b)' /\ blk'[b].final
    BY DEF FinalInv
  <2>2. PICK b \in Blocks : Mine(r, b) /\ blk[b].final
    BY <1>1, <1>8, <2>1 DEF Fate, FinalInv
  <2> QED
    BY <1>0, <1>1, <2>2
<1> QED
  BY <1>1, <1>10, <1>11, <1>12 DEF Fate

\* The final block is accepted: the payload is the body up to where the reader
\* stopped, and it is the only one.
LEMMA DispatchFate ==
    ASSUME IInv, ExitInv, AsmDispatch, UNCHANGED readerVars,
           NEW h \in Blocks, h = hand, NEW r \in Requests, r = Rid, Fate(r)
    PROVE  /\ Fate(r)'
           /\ dispatched[r] = <<>> /\ ~Lost(r) /\ pos[r] > 0
           /\ dispatched'[r] = <<[data |-> Appended, complete |-> TRUE]>>
           /\ Len(Appended) = pos[r]
           /\ \A i \in DOMAIN Appended : Appended[i] = i
<1>0. PutHand /\ Accepted /\ blk[h].final /\ Discard(r) /\ UNCHANGED stats
  BY DEF AsmDispatch, Discard, Held
<1>1. /\ Mine(r, h) /\ dispatched[r] = <<>>
      /\ \A b \in Blocks : Mine(r, b)' <=> Mine(r, b) /\ b # h
      /\ \A b \in Blocks : Mine(r, b) /\ b # h => ~blk[h].final
      /\ DropInv(r)' /\ PositionInv(r)' /\ SentInv(r)'
      /\ SentSeq(r)' = SentSeq(r) /\ SentSeq(r) >= 1
      /\ (Over(r)' <=> Over(r))
  BY <1>0, HandGone
<1>2. /\ ~Counted(r)
      /\ Len(Appended) = Off(blk[h].seq) + Len(blk[h].data)
      /\ \A i \in DOMAIN Appended : Appended[i] = i
  BY <1>0, AcceptedFacts
<1>3. /\ Over(r) /\ pos[r] > 0
      /\ Off(blk[h].seq) + Len(blk[h].data) = pos[r]
  BY <1>0, <1>1 DEF Fate, SentInv
<1>4. \A b \in Blocks : ~Mine(r, b)'
  BY <1>0, <1>1
<1>5. dispatched'[r] = <<[data |-> Appended, complete |-> TRUE]>>
  <2> DEFINE p == [data |-> Appended, complete |-> TRUE]
  <2>1. dispatched' = [dispatched EXCEPT ![r] = Append(@, p)]
    BY DEF AsmDispatch
  <2>2. DOMAIN dispatched = Requests
    BY DEF IInv, TypeOK, AsmTypeOK
  <2> HIDE DEF p
  <2>3. dispatched'[r] = Append(dispatched[r], p)
    BY <2>1, <2>2
  <2>4. dispatched'[r] = <<p>>
    BY <1>1, <2>3
  <2> QED
    BY <2>4 DEF p
<1>6. r \notin DOMAIN inflight'
  BY <1>0 DEF Discard
<1>7. ~Counted(r)' /\ drops[r] = 0 /\ ~Lost(r)
  <2>1. drops[r] = 0
    BY <1>3 DEF Over
  <2> QED
    BY <1>0, <1>2, <2>1 DEF Counted, Lost
<1>8. dispatched'[r] # <<>> /\ Len(dispatched'[r]) = 1
  BY <1>5
<1>9. BufferInv(r)'
  BY <1>1, <1>3, <1>4, <1>6, <1>7, <1>8 DEF BufferInv
<1>10. ChainInv(r)' /\ FinalInv(r)'
  BY <1>8 DEF ChainInv, FinalInv
<1> QED
  BY <1>1, <1>2, <1>3, <1>5, <1>7, <1>9, <1>10 DEF Fate

\* Counting a request loses it.
LEMMA CountLoses ==
    ASSUME IInv, NEW r \in Requests, NEW c \in Counters, Count(c, r)
    PROVE  /\ Lost(r)' /\ Counted(r)'
           /\ \A q \in Requests : q # r => stats'[q] = stats[q]
<1>1. stats \in [Requests -> [Counters -> Nat]]
  BY DEF IInv, TypeOK, AsmTypeOK
<1>2. stats' = [stats EXCEPT ![r][c] = @ + 1]
  BY DEF Count
<1>3. stats'[r][c] = stats[r][c] + 1 /\ stats[r][c] \in Nat
  BY <1>1, <1>2
<1>4. stats'[r][c] > 0
  BY <1>3
<1>5. \A q \in Requests : q # r => stats'[q] = stats[q]
  BY <1>1, <1>2
<1> QED
  BY <1>4, <1>5 DEF Lost, Counted

\* What each branch of processBlock does to the other requests' buffers.
LEMMA ProcessOthers ==
    ASSUME IInv, ProcessBlock, NEW r \in Requests, r = Rid,
           NEW q \in Requests, q # r
    PROVE  SameBuffer(q)
<1>1. hand # NoBlock
  BY DEF ProcessBlock, AsmAbort, AsmRefuse, AsmOutOfOrder, AsmTooMuch,
         AsmAppend, AsmDispatch, AsmWorkerFull, PutHand
<1>2. ASSUME Discard(Rid) PROVE q \in DOMAIN inflight' <=> q \in DOMAIN inflight
  BY <1>2 DEF Discard
<1>3. ASSUME Discard(Rid) PROVE q \in DOMAIN inflight => inflight'[q] = inflight[q]
  BY <1>3 DEF Discard
<1>4. ASSUME NEW c \in Counters, Count(c, Rid) PROVE UNCHANGED stats[q]
  <2>1. Count(c, r)
    BY <1>4 DEF Count
  <2> QED
    BY <2>1, CountLoses
<1>5. "budgetExceeded" \in Counters /\ "oversizedDropped" \in Counters
      /\ "workerQueueFull" \in Counters
  BY DEF Counters
<1>6. CASE AsmAbort \/ AsmOutOfOrder
  BY <1>2, <1>3, <1>6 DEF AsmAbort, AsmOutOfOrder, SameBuffer
<1>7. CASE AsmRefuse
  BY <1>4, <1>5, <1>7 DEF AsmRefuse, SameBuffer
<1>8. CASE AsmTooMuch \/ AsmWorkerFull
  BY <1>2, <1>3, <1>4, <1>5, <1>8 DEF AsmTooMuch, AsmWorkerFull, SameBuffer
<1>9. CASE AsmAppend
  <2>1. inflight' = [p \in DOMAIN inflight \cup {r} |->
           IF p = r THEN [data |-> Appended, nextSeq |-> BufferOf(r).nextSeq + 1]
           ELSE inflight[p]]
    BY <1>9, AppendFacts
  <2>2. UNCHANGED <<stats, dispatched>>
    BY <1>9 DEF AsmAppend
  <2> QED
    BY <2>1, <2>2 DEF SameBuffer
<1>10. CASE AsmDispatch
  <2>1. Discard(Rid) /\ UNCHANGED stats
        /\ dispatched' = [dispatched EXCEPT
             ![Rid] = Append(@, [data |-> Appended, complete |-> TRUE])]
    BY <1>10 DEF AsmDispatch
  <2>2. UNCHANGED dispatched[q]
    BY <2>1 DEF IInv, TypeOK, AsmTypeOK
  <2> QED
    BY <1>2, <1>3, <2>1, <2>2 DEF SameBuffer
<1> QED
  BY <1>6, <1>7, <1>8, <1>9, <1>10 DEF ProcessBlock

\* Processing a block keeps every request's fate.
LEMMA ProcessFate ==
    ASSUME IInv, ExitInv, \A q \in Requests : Fate(q),
           ProcessBlock, UNCHANGED readerVars
    PROVE  \A q \in Requests : Fate(q)'
<1>1. PutHand /\ hand # NoBlock
  BY DEF ProcessBlock, AsmAbort, AsmRefuse, AsmOutOfOrder, AsmTooMuch,
         AsmAppend, AsmDispatch, AsmWorkerFull, PutHand
<1>2. PICK h \in Blocks, r \in Requests : h = hand /\ r = Rid
  BY <1>1, HandFacts
<1>3. blk[h].requestID = r /\ Mine(r, h) /\ dispatched[r] = <<>>
      /\ UNCHANGED <<blk, running>>
      /\ drops'[r] = drops[r]
  BY <1>1, <1>2, HandGone DEF Rid
<1>4. Fate(r)'
  <2>1. ASSUME r \notin DOMAIN inflight', UNCHANGED dispatched, Lost(r)'
        PROVE  Fate(r)'
    BY <1>1, <1>2, <2>1, EndFate
  <2>2. ASSUME Discard(Rid) PROVE r \notin DOMAIN inflight'
    BY <1>2, <2>2 DEF Discard
  <2>3. ASSUME NEW c \in Counters, Count(c, Rid) PROVE Lost(r)'
    <3>1. Count(c, r)
      BY <1>2, <2>3 DEF Count
    <3> QED
      BY <3>1, CountLoses
  <2>4. "budgetExceeded" \in Counters /\ "oversizedDropped" \in Counters
        /\ "workerQueueFull" \in Counters
    BY DEF Counters
  <2>5. ASSUME UNCHANGED stats, Lost(r) PROVE Lost(r)'
    BY <1>3, <2>5 DEF Lost
  <2>6. CASE AsmAbort
    <3>1. drops[r] = 1
      BY <1>2, <1>3, <2>6 DEF AsmAbort, Fate, SentInv
    <3> QED
      BY <2>1, <2>2, <2>5, <2>6, <3>1 DEF AsmAbort, Lost
  <2>7. CASE AsmOutOfOrder
    <3>1. blk[h].seq # BufferOf(r).nextSeq
      BY <1>2, <2>7 DEF AsmOutOfOrder, InOrder
    <3>2. Lost(r)
      BY <1>1, <1>2, <3>1, InOrderUnlessLost
    <3> QED
      BY <2>1, <2>2, <2>5, <2>7, <3>2 DEF AsmOutOfOrder
  <2>8. CASE AsmRefuse
    <3>1. r \notin DOMAIN inflight'
      BY <1>2, <2>8 DEF AsmRefuse, Refused
    <3> QED
      BY <2>1, <2>3, <2>4, <2>8, <3>1 DEF AsmRefuse
  <2>9. CASE AsmTooMuch \/ AsmWorkerFull
    BY <2>1, <2>2, <2>3, <2>4, <2>9 DEF AsmTooMuch, AsmWorkerFull
  <2>10. CASE AsmAppend
    BY <1>2, <2>10, AppendFate
  <2>11. CASE AsmDispatch
    BY <1>2, <2>11, DispatchFate
  <2> QED
    BY <2>6, <2>7, <2>8, <2>9, <2>10, <2>11 DEF ProcessBlock
<1>5. ASSUME NEW q \in Requests, q # r PROVE Fate(q)'
  <2>1. SameBuffer(q)
    BY <1>2, <1>5, ProcessOthers
  <2>2. SameReader(q)
    BY <1>3, AsmSameReader
  <2>3. /\ \A b \in Blocks : Transit(b)' <=> Transit(b) /\ b # h
        /\ \A b, c \in Blocks : Ahead(b, c)' <=> Ahead(b, c) /\ b # h
    BY <1>1, <1>2, TransitPut
  <2>4. SameTransit(q)
    BY <1>3, <1>5, <2>3 DEF SameTransit, Mine
  <2> QED
    BY <1>3, <2>1, <2>2, <2>4, FateKept
<1> QED
  BY <1>4, <1>5

\* Sweeping a request's buffer loses it, and keeps every fate.
LEMMA SweepFate ==
    ASSUME IInv, \A q \in Requests : Fate(q), NEW r \in Requests, SweepStale(r),
           UNCHANGED readerVars
    PROVE  \A q \in Requests : Fate(q)'
<1>1. /\ r \in DOMAIN inflight /\ Discard(r) /\ Count("staleDropped", r)
      /\ UNCHANGED <<blk, queue, hand, running, dispatched>>
  BY DEF SweepStale, Stale, poolVars, queueVars
<1>2. /\ \A b \in Blocks : Transit(b)' <=> Transit(b)
      /\ \A b, c \in Blocks : Ahead(b, c)' <=> Ahead(b, c)
  BY <1>1, TransitSame
<1>3. \A q \in Requests : SameReader(q) /\ SameTransit(q)
  BY <1>1, <1>2, AsmSameReader DEF SameTransit, Mine
<1>4. "staleDropped" \in Counters
  BY DEF Counters
<1>5. Lost(r)' /\ \A q \in Requests : q # r => stats'[q] = stats[q]
  BY <1>1, <1>4, CountLoses
<1>6. ASSUME NEW q \in Requests, q # r PROVE Fate(q)'
  <2>1. SameBuffer(q)
    BY <1>1, <1>5, <1>6 DEF Discard, SameBuffer
  <2> QED
    BY <1>1, <1>3, <2>1, FateKept
<1>7. Fate(r)'
  <2>1. /\ DropInv(r)' /\ PositionInv(r)' /\ SentSeq(r)' = SentSeq(r)
        /\ Over(r)' <=> Over(r)
    BY <1>3, ReaderKept DEF Fate
  <2>2. /\ \A b \in Blocks : Mine(r, b)' <=> Mine(r, b)
        /\ dispatched[r] = <<>>
        /\ SentSeq(r) >= 1
        /\ \A b \in Blocks : Mine(r, b) => blk[b].seq >= 1
    BY <1>1, <1>3 DEF SameTransit, Fate, BufferInv, Touched
  <2>3. r \notin DOMAIN inflight'
    BY <1>1 DEF Discard
  <2>4. drops'[r] = drops[r] /\ pos'[r] = pos[r] /\ seq'[r] = seq[r]
    BY DEF readerVars
  <2>5. SentInv(r)'
    BY <1>1, <1>2, <2>1, <2>2, <2>4 DEF Fate, SentInv, InPlace
  <2>6. BufferInv(r)'
    BY <1>1, <2>1, <2>2, <2>3 DEF BufferInv
  <2>7. ChainInv(r)' /\ FinalInv(r)'
    BY <1>5 DEF ChainInv, FinalInv
  <2> QED
    BY <2>1, <2>5, <2>6, <2>7 DEF Fate
<1> QED
  BY <1>6, <1>7

\* When the assembler returns nothing is on its way, so nothing is lost with
\* its buffers that was not lost before.
LEMMA ExitFate ==
    ASSUME IInv, \A q \in Requests : Fate(q), AsmExit, UNCHANGED readerVars
    PROVE  \A q \in Requests : Fate(q)'
<1> SUFFICES ASSUME NEW q \in Requests PROVE Fate(q)'
  OBVIOUS
<1>1. /\ DOMAIN inflight' = {} /\ ~running'
      /\ UNCHANGED <<blk, queue, hand, stats, dispatched>>
      /\ queue = <<>> /\ hand = NoBlock
  BY DEF AsmExit, poolVars, queueVars
<1>2. \A b \in Blocks : ~Transit(b) /\ ~Transit(b)'
  BY <1>1, BlocksAssumption DEF Transit, InQueue
<1>3. \A b \in Blocks : ~Mine(q, b) /\ ~Mine(q, b)'
  BY <1>2 DEF Mine
<1>4. /\ DropInv(q)' /\ PositionInv(q)' /\ SentSeq(q)' = SentSeq(q)
      /\ Over(q)' <=> Over(q)
      /\ Finished(q)' <=> Finished(q)
  BY <1>1, AsmSameReader, ReaderKept DEF Fate
<1>5. drops'[q] = drops[q] /\ pos'[q] = pos[q]
  BY DEF readerVars
<1>6. (Counted(q)' <=> Counted(q)) /\ (Lost(q)' <=> Lost(q))
  BY <1>1, <1>5 DEF Counted, Lost
<1>7. SentInv(q)'
  BY <1>3 DEF SentInv
<1>8. BufferInv(q)'
  <2>1. Touched(q)' => Touched(q)
    BY <1>1, <1>6 DEF Touched
  <2> QED
    BY <1>1, <1>3, <1>4, <1>6, <2>1 DEF Fate, BufferInv
<1>9. ChainInv(q)'
  BY <1>1 DEF ChainInv
<1>10. FinalInv(q)'
  BY <1>1, <1>3, <1>4, <1>5, <1>6 DEF Fate, FinalInv
<1> QED
  BY <1>4, <1>7, <1>8, <1>9, <1>10 DEF Fate

\* Receiving a block, and everything no request notices.
LEMMA ReceiveFate ==
    ASSUME IInv, \A q \in Requests : Fate(q), UNCHANGED readerVars,
           \/ AsmReceive \/ WorkerTake
           \/ UNCHANGED <<blk, queue, asmVars>>
    PROVE  \A q \in Requests : Fate(q)'
<1>1. UNCHANGED <<blk, inflight, running, stats, dispatched>>
  BY DEF AsmReceive, WorkerTake, poolVars, asmVars
<1>2. /\ \A b \in Blocks : Transit(b)' <=> Transit(b)
      /\ \A b, c \in Blocks : Ahead(b, c)' <=> Ahead(b, c)
  <2>1. CASE AsmReceive
    BY <2>1, TransitReceive DEF AsmReceive, IInv, TypeOK, PoolTypeOK,
       BlockConservation, NoneShared
  <2>2. CASE ~AsmReceive
    <3>1. UNCHANGED <<queue, hand>>
      BY <2>2 DEF WorkerTake, queueVars, asmVars
    <3> QED
      BY <3>1, TransitSame
  <2> QED
    BY <2>1, <2>2
<1>3. \A q \in Requests : SameReader(q) /\ SameTransit(q) /\ SameBuffer(q)
  BY <1>1, <1>2, AsmSameReader DEF SameTransit, SameBuffer, Mine
<1> QED
  BY <1>1, <1>3, FateKept

\* Every step keeps every request's fate.
LEMMA FateStep ==
    IInv /\ ExitInv /\ (\A q \in Requests : Fate(q)) /\ [Next]_vars
      => \A q \in Requests : Fate(q)'
<1> SUFFICES ASSUME IInv, ExitInv, \A q \in Requests : Fate(q), [Next]_vars
             PROVE  \A q \in Requests : Fate(q)'
  OBVIOUS
<1>1. CASE Readers
  BY <1>1, NextIInv, ReadersFate DEF Readers, Next
<1>2. CASE Asm
  BY <1>2, ProcessFate, SweepFate, ExitFate, ReceiveFate DEF Asm, AsmStep
<1>3. CASE Shutdown \/ Terminating \/ UNCHANGED vars
  BY <1>3, ReceiveFate DEF Shutdown, CloseQueue, Terminating, vars, poolVars,
     queueVars
<1> QED
  BY <1>1, <1>2, <1>3 DEF Next

\* The initial states: nothing was read, sent or counted.
LEMMA InitFate == Init => ExitInv /\ BytesInv /\ \A r \in Requests : Fate(r)
<1> SUFFICES ASSUME Init PROVE ExitInv /\ BytesInv /\ \A r \in Requests : Fate(r)
  OBVIOUS
<1> USE DEF Init, PoolInit, ReaderInit, AsmInit
<1>1. ExitInv
  BY DEF ExitInv
<1>2. DOMAIN inflight = {}
  OBVIOUS
<1>3. BytesInv
  BY <1>2, FS_EmptySet, SumEmpty, AssemblerAssumption DEF BytesInv, InflightAccounting
<1>4. ASSUME NEW r \in Requests PROVE Fate(r)
  <2>1. \A b \in Blocks : ~Mine(r, b)
    BY BlocksAssumption DEF Mine, Transit, InQueue
  <2>2. ~Counted(r) /\ ~Touched(r) /\ BufferOf(r).nextSeq = 0 /\ SentSeq(r) = 0
    BY <1>2 DEF Counted, Touched, BufferOf, SentSeq
  <2>3. DropInv(r)
    BY DEF DropInv
  <2>4. PositionInv(r)
    BY OffFacts DEF PositionInv
  <2>5. SentInv(r)
    BY <2>1 DEF SentInv
  <2>6. BufferInv(r)
    BY <1>2, <2>2 DEF BufferInv
  <2>7. ChainInv(r)
    BY <2>1, <2>2 DEF ChainInv
  <2>8. FinalInv(r)
    BY DEF FinalInv
  <2> QED
    BY <2>3, <2>4, <2>5, <2>6, <2>7, <2>8 DEF Fate
<1> QED
  BY <1>1, <1>3, <1>4

-----------------------------------------------------------------------------
(* The steps of AuditPromise that the steps of Capture are *)

\* What AuditPromise calls record and lost.
RecordNow == [q \in Requests |->
                [i \in DOMAIN dispatched[q] |-> dispatched[q][i].data]]
LostNow == [q \in Requests |-> Lost(q)]

\* Nothing visible happens.
LEMMA Stutters ==
    ASSUME UNCHANGED <<pos, dispatched>>,
           \A q \in Requests : Lost(q)' <=> Lost(q)
    PROVE  UNCHANGED Promise!vars
<1>1. LostNow' = LostNow
  <2>1. ASSUME NEW q \in Requests PROVE Lost(q)' = Lost(q)
    BY Zenon DEF Lost
  <2> QED
    BY <2>1, Zenon DEF LostNow
<1>2. RecordNow' = RecordNow
  BY DEF RecordNow
<1> QED
  BY <1>1, <1>2 DEF Promise!vars, LostNow, RecordNow

\* Request r is lost, and no other.
LEMMA Loses ==
    ASSUME UNCHANGED <<pos, dispatched>>, NEW r \in Requests,
           dispatched[r] = <<>>, Lost(r)',
           \A q \in Requests : q # r => (Lost(q)' <=> Lost(q))
    PROVE  Promise!Lose(r)
<1>1. LostNow' = [LostNow EXCEPT ![r] = TRUE]
  <2>1. ASSUME NEW q \in Requests, q # r PROVE Lost(q)' = Lost(q)
    BY <2>1, Zenon DEF Lost
  <2>2. Lost(r)' = TRUE
    OBVIOUS
  <2> DEFINE L == LostNow
             M == LostNow'
  <2>3. /\ L = [q \in Requests |-> L[q]] /\ M = [q \in Requests |-> M[q]]
        /\ M[r] = TRUE
        /\ \A q \in Requests : q # r => M[q] = L[q]
    BY <2>1, <2>2, Zenon DEF LostNow
  <2> HIDE DEF L, M
  <2>4. M = [L EXCEPT ![r] = TRUE]
    BY <2>3
  <2> QED
    BY <2>4 DEF L, M
<1>2. RecordNow' = RecordNow
  BY DEF RecordNow
<1>3. RecordNow[r] = <<>>
  BY DEF RecordNow
<1> QED
  BY <1>1, <1>2, <1>3 DEF Promise!Lose, LostNow, RecordNow

\* The audit records r: exactly the units that upstream got.
LEMMA Records ==
    ASSUME IInv, NEW r \in Requests, UNCHANGED pos,
           dispatched[r] = <<>>, ~Lost(r), pos[r] > 0,
           NEW a, a \in Seq(Units), Len(a) = pos[r],
           \A i \in DOMAIN a : a[i] = i,
           dispatched'[r] = <<[data |-> a, complete |-> TRUE]>>,
           \A q \in Requests : q # r => dispatched'[q] = dispatched[q],
           \A q \in Requests : Lost(q)' <=> Lost(q)
    PROVE  Promise!Record(r)
<1>1. LostNow' = LostNow
  <2>1. ASSUME NEW q \in Requests PROVE Lost(q)' = Lost(q)
    BY Zenon DEF Lost
  <2> QED
    BY <2>1, Zenon DEF LostNow
<1>2. RecordNow[r] = <<>> /\ ~LostNow[r]
  BY DEF RecordNow, LostNow
<1>3. a = [k \in 1..pos[r] |-> k]
  <2>1. DOMAIN a = 1..pos[r] /\ a = [k \in DOMAIN a |-> a[k]]
    OBVIOUS
  <2> QED
    BY <2>1
<1>4. RecordNow'[r] = <<[k \in 1..pos[r] |-> k]>>
  <2> DEFINE d == dispatched'[r]
  <2>1. DOMAIN d = {1} /\ d[1].data = a
    OBVIOUS
  <2>2. RecordNow'[r] = [i \in DOMAIN d |-> d[i].data]
    BY DEF RecordNow
  <2> HIDE DEF d
  <2>3. RecordNow'[r] = [i \in {1} |-> a]
    BY <2>1, <2>2
  <2>4. <<a>> = [i \in {1} |-> a]
    OBVIOUS
  <2> QED
    BY <1>3, <2>3, <2>4
<1>5. RecordNow' = [RecordNow EXCEPT ![r] = <<[k \in 1..pos[r] |-> k]>>]
  <2> DEFINE L == RecordNow
             M == RecordNow'
             v == <<[k \in 1..pos[r] |-> k]>>
  <2>1. /\ L = [q \in Requests |-> L[q]] /\ M = [q \in Requests |-> M[q]]
        /\ \A q \in Requests : q # r => M[q] = L[q]
    BY DEF RecordNow
  <2>2. M[r] = v
    BY <1>4
  <2> HIDE DEF L, M, v
  <2>3. M = [L EXCEPT ![r] = v]
    BY <2>1, <2>2
  <2> QED
    BY <2>3 DEF L, M, v
<1> QED
  BY <1>1, <1>2, <1>5 DEF Promise!Record, LostNow, RecordNow

\* A reader passes on more of the body, gives up, or does nothing visible.
LEMMA ReadersRefine ==
    ASSUME IInv, NEW r \in Requests, Fate(r),
           ReaderStep(r) \/ TransportStep(r), UNCHANGED asmVars
    PROVE  Promise!Pass(r) \/ Promise!Lose(r) \/ UNCHANGED Promise!vars
<1>1. /\ pos \in [Requests -> 0..MaxBody] /\ drops \in [Requests -> Nat]
      /\ pos[r] \in Nat /\ body[r] \in 0..MaxBody /\ MaxBody \in Nat
      /\ ReaderInv(r)
  BY BodyAssumption, ReaderFacts
<1>2. UNCHANGED <<stats, dispatched>>
  BY DEF asmVars
<1>3. dispatched[r] # <<>> => Over(r)
  BY DEF Fate, BufferInv
<1>4. ASSUME drops' = [drops EXCEPT ![r] = @ + 1], UNCHANGED pos,
             pc[r] \in {"get", "abort", "release", "sentinel", "unsent"}
      PROVE  Promise!Lose(r)
  <2>1. dispatched[r] = <<>>
    BY <1>3, <1>4 DEF Over, Finished
  <2>2. Lost(r)'
    BY <1>1, <1>4 DEF Lost
  <2>3. \A q \in Requests : q # r => (Lost(q)' <=> Lost(q))
    BY <1>1, <1>2, <1>4 DEF Lost
  <2> QED
    BY <1>2, <1>4, <2>1, <2>2, <2>3, Loses
<1>5. ASSUME UNCHANGED <<drops, pos>> PROVE UNCHANGED Promise!vars
  <2>1. \A q \in Requests : Lost(q)' <=> Lost(q)
    BY <1>2, <1>5 DEF Lost
  <2> QED
    BY <1>2, <1>5, <2>1, Stutters
<1>6. CASE \/ GetCurrent(r) \/ WriteBlock(r) \/ GetNext(r) \/ GetNextFails(r)
           \/ SendFull(r) \/ SendFullFails(r) \/ SendAbortFails(r) \/ Finish(r)
           \/ GetSentinel(r) \/ SendFinal(r) \/ SendFinalFails(r) \/ Close(r)
  BY <1>5, <1>6 DEF GetCurrent, WriteBlock, GetNext, GetNextFails, SendFull,
     SendFullFails, SendAbortFails, Finish, GetSentinel, SendFinal,
     SendFinalFails, Close
<1>7. CASE \/ GetCurrentFails(r) \/ SendAbort(r) \/ ReleaseNext(r)
           \/ GetSentinelFails(r) \/ PutFinal(r)
  BY <1>4, <1>7 DEF GetCurrentFails, SendAbort, ReleaseNext, GetSentinelFails,
     PutFinal, GiveUp
<1>8. CASE ReleaseCurrent(r)
  <2>1. CASE next[r] = NoBlock
    BY <1>4, <1>8, <2>1 DEF ReleaseCurrent, GiveUp
  <2>2. CASE next[r] # NoBlock
    BY <1>5, <1>8, <2>2 DEF ReleaseCurrent
  <2> QED
    BY <2>1, <2>2
<1>9. ASSUME NEW n \in 0..MaxBody, NEW eof \in BOOLEAN, Read(r, n, eof)
      PROVE  Promise!Pass(r) \/ UNCHANGED Promise!vars
  <2>1. /\ ~closing[r] /\ n <= body[r] - pos[r]
        /\ pos' = [pos EXCEPT ![r] = @ + n] /\ UNCHANGED drops
    BY <1>9 DEF Read
  <2>2. n \in Nat /\ body[r] \in Nat /\ body[r] <= MaxBody
    BY <1>1
  <2>3. CASE n = 0
    <3>1. pos' = pos
      BY <1>1, <2>1, <2>3
    <3> QED
      BY <1>5, <2>1, <3>1
  <2>4. CASE n # 0
    <3>1. dispatched[r] = <<>>
      <4>1. Over(r) => pos[r] = body[r]
        BY <1>1, <2>1 DEF Over, Finished, ReaderInv
      <4> QED
        BY <1>1, <1>3, <2>1, <2>2, <2>4, <4>1
    <3>2. pos[r] + n \in (pos[r] + 1)..MaxBody
      BY <1>1, <2>1, <2>2, <2>4
    <3>3. RecordNow[r] = <<>> /\ RecordNow' = RecordNow
      BY <1>2, <3>1 DEF RecordNow
    <3>4. LostNow' = LostNow
      <4>1. ASSUME NEW q \in Requests PROVE Lost(q)' = Lost(q)
        BY <1>2, <2>1, Zenon DEF Lost
      <4> QED
        BY <4>1, Zenon DEF LostNow
    <3> QED
      BY <2>1, <3>2, <3>3, <3>4 DEF Promise!Pass, RecordNow, LostNow
  <2> QED
    BY <2>3, <2>4
<1> QED
  BY <1>6, <1>7, <1>8, <1>9 DEF ReaderStep, TransportStep

\* The assembler records a payload, counts a loss, or does nothing visible.
LEMMA AsmRefine ==
    ASSUME IInv, ExitInv, \A q \in Requests : Fate(q),
           AsmStep \/ WorkerTake, UNCHANGED readerVars
    PROVE  Promise!Next \/ UNCHANGED Promise!vars
<1>0. UNCHANGED <<pos, drops>>
  BY DEF readerVars
<1>1. ASSUME NEW r \in Requests, NEW c \in Counters, Count(c, r),
             UNCHANGED dispatched, dispatched[r] = <<>>
      PROVE  Promise!Next
  <2>1. Lost(r)' /\ \A q \in Requests : q # r => stats'[q] = stats[q]
    BY <1>1, CountLoses
  <2>2. \A q \in Requests : q # r => (Lost(q)' <=> Lost(q))
    BY <1>0, <2>1 DEF Lost
  <2>3. Promise!Lose(r)
    BY <1>0, <1>1, <2>1, <2>2, Loses
  <2> QED
    BY <2>3 DEF Promise!Next
<1>2. ASSUME UNCHANGED <<stats, dispatched>> PROVE UNCHANGED Promise!vars
  <2>1. \A q \in Requests : Lost(q)' <=> Lost(q)
    BY <1>0, <1>2 DEF Lost
  <2> QED
    BY <1>0, <1>2, <2>1, Stutters
<1>3. /\ "budgetExceeded" \in Counters /\ "oversizedDropped" \in Counters
      /\ "workerQueueFull" \in Counters /\ "staleDropped" \in Counters
  BY DEF Counters
<1>4. CASE AsmReceive \/ AsmExit \/ WorkerTake
  BY <1>2, <1>4 DEF AsmReceive, AsmExit, WorkerTake
<1>5. ASSUME NEW r \in Requests, SweepStale(r) PROVE Promise!Next
  <2>1. r \in DOMAIN inflight /\ Count("staleDropped", r) /\ UNCHANGED dispatched
    BY <1>5 DEF SweepStale, Stale
  <2>2. dispatched[r] = <<>>
    BY <2>1 DEF Fate, BufferInv
  <2> QED
    BY <1>1, <1>3, <2>1, <2>2
<1>6. CASE ProcessBlock
  <2>1. PutHand /\ hand # NoBlock
    BY <1>6 DEF ProcessBlock, AsmAbort, AsmRefuse, AsmOutOfOrder, AsmTooMuch,
                AsmAppend, AsmDispatch, AsmWorkerFull, PutHand
  <2>2. PICK h \in Blocks, r \in Requests : h = hand /\ r = Rid
    BY <2>1, HandFacts
  <2>3. dispatched[r] = <<>>
    BY <2>1, <2>2, HandGone
  <2>4. ASSUME NEW c \in Counters, Count(c, Rid), UNCHANGED dispatched
        PROVE  Promise!Next
    <3>1. Count(c, r)
      BY <2>2, <2>4 DEF Count
    <3> QED
      BY <1>1, <2>3, <2>4, <3>1
  <2>5. CASE AsmAbort \/ AsmOutOfOrder \/ AsmAppend
    BY <1>2, <2>5 DEF AsmAbort, AsmOutOfOrder, AsmAppend
  <2>6. CASE AsmRefuse \/ AsmTooMuch \/ AsmWorkerFull
    BY <1>3, <2>4, <2>6 DEF AsmRefuse, AsmTooMuch, AsmWorkerFull
  <2>7. CASE AsmDispatch
    <3>1. /\ dispatched[r] = <<>> /\ ~Lost(r) /\ pos[r] > 0
          /\ dispatched'[r] = <<[data |-> Appended, complete |-> TRUE]>>
          /\ Len(Appended) = pos[r]
          /\ \A i \in DOMAIN Appended : Appended[i] = i
      BY <2>2, <2>7, DispatchFate
    <3>2. /\ UNCHANGED stats
          /\ dispatched' = [dispatched EXCEPT
               ![Rid] = Append(@, [data |-> Appended, complete |-> TRUE])]
      BY <2>7 DEF AsmDispatch
    <3>3. \A q \in Requests : q # r => dispatched'[q] = dispatched[q]
      BY <2>2, <3>2 DEF IInv, TypeOK, AsmTypeOK
    <3>4. \A q \in Requests : Lost(q)' <=> Lost(q)
      BY <1>0, <3>2 DEF Lost
    <3>5. Appended \in Seq(Units)
      BY <2>1, HandFacts
    <3>6. Promise!Record(r)
      <4> DEFINE a == Appended
      <4> HIDE DEF a
      <4> QED
        BY <1>0, <3>1, <3>3, <3>4, <3>5, Records DEF a
    <3> QED
      BY <3>6 DEF Promise!Next
  <2> QED
    BY <1>6, <2>5, <2>6, <2>7 DEF ProcessBlock
<1> QED
  BY <1>4, <1>5, <1>6 DEF AsmStep

\* The initial states map to initial states, and every step to a step of
\* AuditPromise or to none.
LEMMA InitRefines == Init => Promise!Init
<1> SUFFICES ASSUME Init PROVE Promise!Init
  OBVIOUS
<1>1. \A r \in Requests : dispatched[r] = <<>> /\ ~Lost(r) /\ pos = [q \in Requests |-> 0]
  BY DEF Init, ReaderInit, AsmInit, Lost
<1>2. RecordNow = [r \in Requests |-> <<>>]
  BY <1>1 DEF RecordNow
<1>3. LostNow = [r \in Requests |-> FALSE]
  <2>1. ASSUME NEW q \in Requests PROVE Lost(q) = FALSE
    BY <1>1
  <2> QED
    BY <2>1, Zenon DEF LostNow
<1>4. pos = [q \in Requests |-> 0]
  BY DEF Init, ReaderInit
<1> QED
  BY <1>2, <1>3, <1>4 DEF Promise!Init, RecordNow, LostNow

\* Every step is a step of the promise or leaves its variables alone.
LEMMA NextRefines == PInv /\ [Next]_vars => [Promise!Next]_(Promise!vars)
<1> SUFFICES ASSUME PInv, [Next]_vars PROVE Promise!Next \/ UNCHANGED Promise!vars
  OBVIOUS
<1>1. IInv /\ ExitInv /\ \A q \in Requests : Fate(q)
  BY DEF PInv
<1>2. CASE Readers
  BY <1>1, <1>2, ReadersRefine DEF Readers, Promise!Next
<1>3. CASE Asm
  BY <1>1, <1>3, AsmRefine DEF Asm
<1>4. CASE Shutdown \/ Terminating \/ UNCHANGED vars
  <2>1. UNCHANGED <<pos, drops, stats, dispatched>>
    BY <1>4 DEF Shutdown, Terminating, vars, readerVars, asmVars
  <2>2. \A q \in Requests : Lost(q)' <=> Lost(q)
    BY <2>1 DEF Lost
  <2> QED
    BY <2>1, <2>2, Stutters
<1> QED
  BY <1>2, <1>3, <1>4 DEF Next

-----------------------------------------------------------------------------
(* Theorems about the requests *)

\* PInv holds in every reachable state.
THEOREM PromiseInductive == Spec => []PInv
<1>1. Init => PInv
  BY InitIInv, InitFate DEF PInv
<1>2. PInv /\ [Next]_vars => PInv'
  BY NextIInv, ExitStep, BytesStep, FateStep DEF PInv
<1> QED
  BY <1>1, <1>2, PTL DEF Spec

\* The assembler's running total is what its buffers hold and stays within the
\* budget, whichever branch of processBlock, the sweep or the exit runs.
THEOREM MemoryIsCounted == Spec => []InflightAccounting
<1>1. PInv => InflightAccounting
  BY DEF PInv, BytesInv
<1> QED
  BY <1>1, PromiseInductive, PTL

\* However the steps interleave, a request is dispatched once and not counted,
\* or counted by its reader once, never both.
THEOREM OneEnd == Spec => []OneOutcome
<1>1. PInv => OneOutcome
  <2>1. SUFFICES ASSUME PInv, NEW r \in Requests
                 PROVE  /\ Len(dispatched[r]) <= 1 /\ drops[r] <= 1
                        /\ dispatched[r] # <<>> => ~Lost(r)
    BY DEF OneOutcome
  <2>a. IInv /\ Fate(r)
    BY <2>1 DEF PInv
  <2>b. drops[r] \in Nat
    BY <2>a, SeqTypes
  <2>2. DropInv(r) /\ BufferInv(r) /\ drops[r] \in Nat
    BY <2>a, <2>b DEF Fate
  <2>3. CASE dispatched[r] = <<>>
    <3>1. Len(dispatched[r]) = 0
      BY <2>3
    <3> QED
      BY <2>2, <2>3, <3>1 DEF DropInv
  <2>4. CASE dispatched[r] # <<>>
    <3>1. Len(dispatched[r]) = 1 /\ ~Counted(r) /\ drops[r] = 0
      BY <2>2, <2>4 DEF BufferInv, Over
    <3> QED
      BY <3>1 DEF Lost, Counted
  <2> QED
    BY <2>3, <2>4
<1> QED
  BY <1>1, PromiseInductive, PTL

\* A request of which nothing is under way any more was dispatched or counted:
\* the branches of processBlock that count nothing, and the assembler's exit,
\* drop only what somebody else counted.
THEOREM NoneForgotten == Spec => []NoSilentLoss
<1>1. PInv => NoSilentLoss
  <2>1. SUFFICES ASSUME PInv, NEW r \in Requests, Settled(r), pos[r] > 0,
                        dispatched[r] = <<>>, ~Lost(r)
                 PROVE  FALSE
    BY DEF NoSilentLoss
  <2>2. DropInv(r) /\ PositionInv(r) /\ FinalInv(r)
    BY <2>1 DEF PInv, Fate
  <2>3. drops[r] # 1
    BY <2>1 DEF Lost
  <2>4. Finished(r)
    BY <2>1, <2>2, <2>3 DEF DropInv, PositionInv, Finished, Settled
  <2>5. PICK b \in Blocks : Mine(r, b)
    BY <2>1, <2>2, <2>4 DEF FinalInv
  <2> QED
    BY <2>1, <2>5, BlocksAssumption DEF Mine, Transit, InQueue, Settled
<1> QED
  BY <1>1, PromiseInductive, PTL

\* Readers, pool, queue and assembler implement AuditPromise: what is recorded
\* is the body that was passed on, all of it and once, or the request is lost.
THEOREM PromiseKept == Spec => KeepsPromise
BY InitRefines, NextRefines, PromiseInductive, PTL DEF Spec, KeepsPromise, Promise!Spec
=============================================================================
