--------------------------- MODULE DeliveryProofs ---------------------------
(***************************************************************************)
(* Theorems about Delivery, for any number of entries, any sizes and any   *)
(* number of faults and restarts: nothing is lost or reordered on the way  *)
(* to the writer, what is counted is what was written, and what the files  *)
(* hold is the end of it, batch by batch: Delivery implements AuditLog.    *)
(***************************************************************************)
EXTENDS Delivery, FoldLemmas, SequenceTheorems

-----------------------------------------------------------------------------
(* The inductive invariant *)

\* One flush at a time: the goroutine has a batch exactly while it flushes, it
\* is counted in the wait group, and the collector's own flush is after it.
FlushInv ==
    /\ flushing <=> flusher # "none"
    /\ flusher = "flush" <=> flushBatch # <<>>
    /\ flusher # "none" => flushWg >= 1
    /\ cpc \in {"final", "returned"} => flushWg = 0
    /\ cpc = "final" => activeBatch # <<>>
    /\ flushWg <= Len(handled) + (IF flusher = "flush" THEN 1 ELSE 0)

\* What a Flush works on is the batch of the one goroutine that called it.
CallInv ==
    /\ wpc = "idle" => batch = <<>> /\ written = 0
    /\ wpc # "idle" => /\ batch # <<>>
                       /\ \/ flusher = "flush" /\ batch = flushBatch
                          \/ cpc = "final" /\ batch = activeBatch
    /\ wpc \in {"close", "rename", "open", "retain"} => written = 0 /\ totalBytes = 0
    /\ wpc = "write" => written < Len(batch) /\ totalBytes >= written
    /\ wpc = "return" /\ ~failed => written = Len(batch)

\* Also within a Flush, what was reported and the entries of the batch that
\* are written are what this process wrote.
CountInv ==
    /\ SubSeq(persisted, former + 1, Len(persisted)) = ingested \o SubSeq(batch, 1, written)
    /\ ioErrors = 0 => ingested = handled
    /\ ioErrors <= Len(handled)

\* The size is known whenever the file is open, and still when it was just
\* closed to be renamed.
SizeInv ==
    /\ file /\ wpc \in {"idle", "close", "return"} => currentBytes = Size(active)
    /\ wpc \in {"rename", "open"} => ~file
    /\ wpc = "rename" => currentBytes = Size(active)
    /\ wpc \in {"open", "retain"} => active = <<>>
    /\ wpc = "retain" => file /\ currentBytes = 0
    /\ file /\ wpc = "write" => currentBytes + totalBytes = Size(active)

\* Every file but the active one is of batches that were handled; the active
\* one may be of the present one too, once it is written.
BatchInv ==
    /\ \A i \in DOMAIN rotated : \A k \in DOMAIN rotated[i] :
         rotated[i][k].of <= base + Len(handled)
    /\ \A k \in DOMAIN active :
         \/ active[k].of <= base + Len(handled)
         \/ wpc \in {"write", "return"} /\ active[k].of = Head(batch)

\* There is a file too many only between the rename and the retention.
RetentionInv ==
    Len(rotated) <= MaxFiles + faults + restarts
                    + (IF wpc \in {"open", "retain"} THEN 1 ELSE 0)

IInv ==
    /\ TypeOK /\ FlushInv /\ InOrderNoLoss /\ CallInv /\ CountInv
    /\ SizeInv /\ BatchInv /\ BatchInOneFile /\ RetentionInv


-----------------------------------------------------------------------------
(* Sequences and sizes *)

\* An element that moves from the head of a queue to the end of a batch stays
\* where it was in the whole.
LEMMA MoveHead ==
    ASSUME NEW T, NEW X \in Seq(T), NEW s \in Seq(T), s # <<>>
    PROVE  Append(X, Head(s)) \o Tail(s) = X \o s
OBVIOUS

\* Sequences can be put together from either side.
LEMMA Associates ==
    \A X, Y, Z \in Seq(Nat) : X \o Y \o Z = X \o (Y \o Z)
OBVIOUS

\* What comes after the first m grows at its end as the whole does.
LEMMA RestOfAppend ==
    ASSUME NEW s \in Seq(Nat), NEW x \in Nat, NEW m \in 0..Len(s)
    PROVE  SubSeq(Append(s, x), m + 1, Len(s) + 1)
             = Append(SubSeq(s, m + 1, Len(s)), x)
<1> DEFINE k == Len(s)
           l == SubSeq(Append(s, x), m + 1, k + 1)
           r == Append(SubSeq(s, m + 1, k), x)
<1>1. k \in Nat /\ m \in Nat /\ m <= k /\ k - m \in Nat
  OBVIOUS
<1>2. /\ SubSeq(s, m + 1, k) \in Seq(Nat) /\ Len(SubSeq(s, m + 1, k)) = k - m
      /\ \A i \in 1..(k - m) : SubSeq(s, m + 1, k)[i] = s[m + i]
  BY <1>1
<1>3. /\ r \in Seq(Nat) /\ Len(r) = k - m + 1 /\ r[k - m + 1] = x
      /\ \A i \in 1..(k - m) : r[i] = s[m + i]
  BY <1>1, <1>2
<1>4. /\ Append(s, x) \in Seq(Nat) /\ Len(Append(s, x)) = k + 1
      /\ Append(s, x)[k + 1] = x
      /\ \A i \in 1..k : Append(s, x)[i] = s[i]
  OBVIOUS
<1>5. /\ l \in Seq(Nat) /\ Len(l) = k - m + 1
      /\ \A i \in 1..(k - m + 1) : l[i] = Append(s, x)[m + i]
  <2> DEFINE t == Append(s, x)
  <2>1. t \in Seq(Nat) /\ Len(t) = k + 1
    BY <1>4
  <2> HIDE DEF t, k
  <2>2. /\ SubSeq(t, m + 1, k + 1) \in Seq(Nat)
        /\ Len(SubSeq(t, m + 1, k + 1)) = k - m + 1
        /\ \A i \in 1..(k - m + 1) : SubSeq(t, m + 1, k + 1)[i] = t[m + i]
    BY <1>1, <2>1
  <2> QED
    BY <2>2 DEF t
<1>6. ASSUME NEW i \in 1..(k - m + 1)
      PROVE  l[i] = r[i]
  <2> HIDE DEF k, l, r
  <2>1. CASE i = k - m + 1
    <3>1. m + i = k + 1
      BY <1>1, <2>1
    <3> QED
      BY <1>3, <1>4, <1>5, <2>1, <3>1
  <2>2. CASE i # k - m + 1
    <3>1. i \in 1..(k - m) /\ m + i \in 1..k
      BY <1>1, <2>2
    <3> QED
      BY <1>3, <1>4, <1>5, <3>1
  <2> QED
    BY <2>1, <2>2
<1> HIDE DEF k, l, r
<1>7. l = r
  BY <1>3, <1>5, <1>6
<1> QED
  BY <1>7 DEF k, l, r

\* The part in the middle begins where the first one ends.
LEMMA Middle ==
    ASSUME NEW h \in Seq(Nat), NEW b \in Seq(Nat), NEW r \in Seq(Nat), b # <<>>
    PROVE  /\ Len(h \o b \o r) = Len(h) + Len(b) + Len(r) /\ Len(b) >= 1
           /\ Len(h) \in Nat /\ Len(b) \in Nat /\ Len(r) \in Nat
           /\ (h \o b \o r)[Len(h) + 1] = Head(b)
           /\ \A i \in 1..Len(b) : (h \o b \o r)[Len(h) + i] = b[i]
OBVIOUS

\* Appending to the second part appends to the whole.
LEMMA AppendRight ==
    ASSUME NEW T, NEW X \in Seq(T), NEW s \in Seq(T), NEW e \in T
    PROVE  Append(X \o s, e) = X \o Append(s, e)
OBVIOUS

\* The bytes of a file as a sum.
LEMMA SizeIsSum ==
    ASSUME NEW f \in Seq(Chunk)
    PROVE  Size(f) = SumFunctionOnSet([i \in DOMAIN f |-> f[i].bytes], DOMAIN f)
<1> DEFINE D == DOMAIN f
           v == [i \in D |-> f[i].bytes]
           next(s) == CHOOSE y \in s : TRUE
           rec(g) == [s \in SUBSET D |->
                        IF s = {} THEN 0 ELSE f[next(s)].bytes + g[s \ {next(s)}]]
<1>1. IsFiniteSet(D)
  <2>1. D = 1..Len(f) /\ Len(f) \in Nat
    OBVIOUS
  <2> QED
    BY <2>1, FS_Interval
<1>2. \A g : rec(g) = SumStep(v, Picks(D), g, D)
  <2>1. ASSUME NEW s \in SUBSET D, s # {}
        PROVE  Picks(D)[s] = next(s) /\ Picks(D)[s] \in D
    BY <2>1 DEF Picks
  <2>2. ASSUME NEW s \in SUBSET D, s # {}
        PROVE  v[Picks(D)[s]] = f[next(s)].bytes
    BY <2>1, <2>2
  <2> HIDE DEF v, D, next
  <2> QED
    BY <2>1, <2>2 DEF SumStep
<1>3. Size(f) = (CHOOSE g : g = rec(g))[D]
  BY DEF Size, FoldSeq, FoldFunction, FoldFunctionOnSet, MapThenFoldSet
<1>4. Choice(Picks(D), D)
  BY DEF Choice, Picks
<1>5. \E g : g = rec(g)
  <2> HIDE DEF rec
  <2> QED
    BY <1>1, <1>2, <1>4, SumExists DEF IsSum
<1> DEFINE h == CHOOSE g : g = rec(g)
<1>6. h = rec(h)
  <2> HIDE DEF rec
  <2> QED
    BY <1>5
<1>7. IsSum(v, Picks(D), h, D)
  <2> HIDE DEF rec, h
  <2> QED
    BY <1>2, <1>6 DEF IsSum
<1>8. SumFunctionOnSet(v, D) = h[D]
  <2> D \in SUBSET D
    OBVIOUS
  <2> HIDE DEF h, D, v
  <2> QED
    BY <1>1, <1>7, SumOfSubset
<1> QED
  BY <1>3, <1>8

\* The size of a file is a number; nothing has none, and what is appended adds
\* its own.
LEMMA SizeFacts ==
    /\ Size(<<>>) = 0
    /\ \A f \in Seq(Chunk) : Size(f) \in Nat
    /\ \A f \in Seq(Chunk), c \in Chunk : Size(Append(f, c)) = Size(f) + c.bytes
<1>0. ASSUME NEW c \in Chunk
      PROVE  c.bytes \in Nat
  BY WriterAssumption DEF Chunk
<1>1. ASSUME NEW f, f = <<>>
      PROVE  Size(f) = 0
  <2>1. f \in Seq(Chunk) /\ DOMAIN f = {}
    BY <1>1
  <2>2. Size(f) = SumFunctionOnSet([i \in DOMAIN f |-> f[i].bytes], DOMAIN f)
    BY <2>1, SizeIsSum
  <2> QED
    BY <2>1, <2>2, SumEmpty
<1>2. ASSUME NEW f \in Seq(Chunk)
      PROVE  Size(f) \in Nat
  <2>1. DOMAIN f = 1..Len(f) /\ Len(f) \in Nat
    OBVIOUS
  <2>2. IsFiniteSet(DOMAIN f)
    BY <2>1, FS_Interval
  <2> DEFINE v == [i \in DOMAIN f |-> f[i].bytes]
  <2>3. \A i \in DOMAIN f : v[i] \in Nat
    BY <1>0
  <2> HIDE DEF v
  <2>4. SumFunctionOnSet(v, DOMAIN f) \in Nat
    BY <2>2, <2>3, SumType
  <2> QED
    BY <2>4, SizeIsSum DEF v
<1>3. ASSUME NEW f \in Seq(Chunk), NEW c \in Chunk
      PROVE  Size(Append(f, c)) = Size(f) + c.bytes
  <2> DEFINE g == Append(f, c)
             n == Len(f)
             v == [i \in DOMAIN f |-> f[i].bytes]
             w == [i \in DOMAIN g |-> g[i].bytes]
  <2>1. /\ n \in Nat /\ g \in Seq(Chunk)
        /\ DOMAIN f = 1..n /\ DOMAIN g = 1..(n + 1)
        /\ g[n + 1] = c /\ \A i \in 1..n : g[i] = f[i]
    OBVIOUS
  <2>2. IsFiniteSet(1..n) /\ n + 1 \notin 1..n /\ 1..(n + 1) = (1..n) \cup {n + 1}
    <3>1. IsFiniteSet(1..n)
      BY <2>1, FS_Interval
    <3>2. n + 1 \notin 1..n /\ 1..(n + 1) = (1..n) \cup {n + 1}
      BY <2>1
    <3> QED
      BY <3>1, <3>2
  <2>3. \A i \in (1..n) \cup {n + 1} : w[i] \in Int
    <3> SUFFICES ASSUME NEW i \in 1..(n + 1) PROVE w[i] \in Int
      BY <2>2
    <3>1. g[i] \in Chunk /\ w[i] = g[i].bytes
      BY <2>1
    <3> QED
      BY <1>0, <3>1
  <2>4. \A i \in 1..n : w[i] = v[i]
    BY <2>1
  <2>5. w[n + 1] = c.bytes
    BY <2>1
  <2>6. Size(f) = SumFunctionOnSet(v, 1..n)
    BY <2>1, SizeIsSum
  <2>7. Size(g) = SumFunctionOnSet(w, 1..(n + 1))
    BY <2>1, SizeIsSum
  <2> HIDE DEF v, w, g, n
  <2>8. SumFunctionOnSet(w, (1..n) \cup {n + 1}) = SumFunctionOnSet(w, 1..n) + w[n + 1]
    <3> DEFINE I == 1..n
               m == n + 1
    <3>1. IsFiniteSet(I) /\ m \notin I /\ \A i \in I \cup {m} : w[i] \in Int
      BY <2>2, <2>3
    <3> HIDE DEF I, m
    <3>2. SumFunctionOnSet(w, I \cup {m}) = SumFunctionOnSet(w, I) + w[m]
      BY <3>1, SumAdd
    <3> QED
      BY <3>2 DEF I, m
  <2>9. SumFunctionOnSet(w, 1..n) = SumFunctionOnSet(v, 1..n)
    BY <2>2, <2>4, SumSame
  <2>10. SumFunctionOnSet(w, 1..(n + 1)) = SumFunctionOnSet(w, (1..n) \cup {n + 1})
    BY <2>2
  <2>11. Size(g) = Size(f) + c.bytes
    BY <2>5, <2>6, <2>7, <2>8, <2>9, <2>10
  <2> QED
    BY <2>11 DEF g
<1> QED
  BY <1>1, <1>2, <1>3

-----------------------------------------------------------------------------
(* The first state *)

\* The first process starts with nothing sent, batched, written or counted.
LEMMA InitIInv == Init => IInv
<1> SUFFICES ASSUME Init PROVE IInv
  OBVIOUS
<1> USE DEF Init, CollectorInit, WriterInit
<1>1. TypeOK
  <2>1. ASSUME NEW s, s = <<>>, NEW T
        PROVE  s \in Seq(T) /\ Len(s) = 0
    BY <2>1
  <2>2. 0 \in 0..MaxEntries /\ 0 <= InputCap
    BY CollectorAssumption
  <2>3. CollectorTypeOK
    BY <2>1, <2>2 DEF CollectorTypeOK
  <2>4. 0 \in 0..MaxFaults /\ InitialAvg \in Nat \ {0} /\ 0 \in 0..Len(batch)
    BY <2>1, WriterAssumption
  <2>5. WriterTypeOK
    BY <2>1, <2>4 DEF WriterTypeOK
  <2>6. 0 \in 0..sent /\ 0 \in 0..Len(persisted) /\ 0 \in 0..MaxRestarts
    BY <2>1, RestartsAssumption
  <2> QED
    BY <2>1, <2>2, <2>3, <2>5, <2>6 DEF TypeOK
<1>2. FlushInv /\ CallInv
  BY DEF FlushInv, CallInv
<1>3. InOrderNoLoss
  <2>1. sent - base = 0 /\ 1..(sent - base) = {}
    OBVIOUS
  <2> QED
    BY <2>1 DEF InOrderNoLoss
<1>4. CountInv
  BY DEF CountInv
<1>5. SizeInv
  BY SizeFacts DEF SizeInv
<1>6. BatchInv
  BY DEF BatchInv
<1>7. BatchInOneFile
  BY DEF BatchInOneFile, Disk
<1>8. RetentionInv
  BY WriterAssumption DEF RetentionInv
<1> QED
  BY <1>1, <1>2, <1>3, <1>4, <1>5, <1>6, <1>7, <1>8 DEF IInv

-----------------------------------------------------------------------------
(* The collector *)

\* The entries of this process, numbered.
Sent == [i \in 1..(sent - base) |-> base + i]

\* How many there are.
LEMMA Lengths ==
    ASSUME TypeOK, InOrderNoLoss
    PROVE  /\ sent - base \in Nat /\ sent - base <= MaxEntries
           /\ Sent \in Seq(Nat) /\ Len(Sent) = sent - base
           /\ Len(handled) + Len(flushBatch) + Len(activeBatch) + Len(input)
                = sent - base
           /\ handled \o flushBatch \o activeBatch \o input = Sent
           /\ handled \in Seq(Nat) /\ flushBatch \in Seq(Nat)
           /\ activeBatch \in Seq(Nat) /\ input \in Seq(Nat)
<1>1. sent - base \in Nat /\ sent - base <= MaxEntries /\ base \in Nat
  BY CollectorAssumption DEF TypeOK, CollectorTypeOK
<1>2. Sent \in Seq(Nat) /\ Len(Sent) = sent - base
  BY <1>1 DEF Sent
<1>3. /\ handled \in Seq(Nat) /\ flushBatch \in Seq(Nat)
      /\ activeBatch \in Seq(Nat) /\ input \in Seq(Nat)
  <2>1. \A s \in Seq(1..MaxEntries) : s \in Seq(Nat)
    BY CollectorAssumption
  <2> QED
    BY <2>1 DEF TypeOK, CollectorTypeOK
<1>4. handled \o flushBatch \o activeBatch \o input = Sent
  BY DEF InOrderNoLoss, Sent
<1>5. Len(handled \o flushBatch \o activeBatch \o input)
        = Len(handled) + Len(flushBatch) + Len(activeBatch) + Len(input)
  BY <1>3
<1> QED
  BY <1>1, <1>2, <1>3, <1>4, <1>5

\* tryFlush takes the batch b, which is not empty, over.
LEMMA TryFlush ==
    ASSUME TypeOK, FlushInv, CallInv, cpc = "select", cpc' = cpc, Outside,
           NEW b \in Seq(1..MaxEntries), b # <<>>,
           Len(handled) + Len(flushBatch) + Len(b) <= MaxEntries,
           tryFlush(b)
    PROVE  /\ FlushInv' /\ CallInv'
           /\ flushBatch' \o activeBatch' = flushBatch \o b
           /\ activeBatch' \in Seq(1..MaxEntries)
           /\ flushBatch' \in Seq(1..MaxEntries)
           /\ flushing' \in BOOLEAN /\ flusher' \in {"none", "flush", "clear"}
           /\ flushWg' \in 0..MaxEntries /\ flushBacklog' \in Nat
<1> USE DEF TypeOK, CollectorTypeOK, Outside, deliveryVars
<1>1. CASE StartFlush(b)
  <2>1. flusher = "none" /\ flushBatch = <<>> /\ wpc = "idle"
    BY <1>1 DEF StartFlush, FlushInv, CallInv
  <2>2. flushWg' = flushWg + 1 /\ flushWg <= Len(handled) /\ Len(b) >= 1
    BY <1>1, <2>1 DEF StartFlush, FlushInv
  <2>3. Len(handled) \in Nat /\ Len(flushBatch) = 0 /\ Len(b) \in Nat
    BY <2>1
  <2>4. flushWg' \in 0..MaxEntries
    BY <2>2, <2>3, CollectorAssumption
  <2>5. FlushInv'
    BY <1>1, <2>1, <2>2, <2>3 DEF StartFlush, FlushInv
  <2>6. CallInv'
    BY <1>1, <2>1 DEF StartFlush, CallInv, writerVars, flushVars
  <2>7. flushBatch' \o activeBatch' = flushBatch \o b
    BY <1>1, <2>1 DEF StartFlush
  <2> QED
    BY <1>1, <2>4, <2>5, <2>6, <2>7, SMTT(30) DEF StartFlush
<1>2. CASE SkipFlush(b)
  <2>1. FlushInv'
    BY <1>2 DEF SkipFlush, FlushInv
  <2>2. CallInv'
    BY <1>2 DEF SkipFlush, CallInv, writerVars, flushVars
  <2> QED
    BY <1>2, <2>1, <2>2 DEF SkipFlush
<1> QED
  BY <1>1, <1>2 DEF tryFlush

\* What concerns the writer, and the counts, is as it was.
LEMMA OutsideStep ==
    ASSUME IInv, Outside, sent' \in 0..MaxEntries, sent' >= sent
    PROVE  /\ CountInv' /\ SizeInv' /\ BatchInv' /\ BatchInOneFile' /\ RetentionInv'
           /\ CollectorTypeOK' => TypeOK'
<1> USE DEF IInv, Outside, deliveryVars, writerVars, flushVars, fileVars, diskVars
<1>1. CountInv'
  BY DEF CountInv
<1>2. SizeInv'
  BY DEF SizeInv
<1>3. BatchInv'
  BY DEF BatchInv
<1>4. BatchInOneFile'
  BY DEF BatchInOneFile, Disk
<1>5. RetentionInv'
  BY DEF RetentionInv
<1>6. WriterTypeOK'
  BY DEF TypeOK, WriterTypeOK
<1>7. CollectorTypeOK' => TypeOK'
  BY <1>6, CollectorAssumption DEF TypeOK, CollectorTypeOK
<1> QED
  BY <1>1, <1>2, <1>3, <1>4, <1>5, <1>7

\* Feed: the next number is queued.
LEMMA FeedStep ==
    ASSUME IInv, Feed, Outside
    PROVE  IInv'
<1> USE DEF IInv, Feed
<1>1. sent' = sent + 1 /\ sent' \in 0..MaxEntries /\ sent + 1 \in 1..MaxEntries
  BY CollectorAssumption DEF TypeOK, CollectorTypeOK
<1>2. Append(input, sent + 1) \in Seq(1..MaxEntries)
      /\ Len(Append(input, sent + 1)) = Len(input) + 1
  BY <1>1 DEF TypeOK, CollectorTypeOK
<1>3. Len(input) + 1 <= InputCap
  BY CollectorAssumption DEF TypeOK, CollectorTypeOK
<1>4. CollectorTypeOK'
  BY <1>1, <1>2, <1>3 DEF TypeOK, CollectorTypeOK
<1>5. FlushInv' /\ CallInv'
  BY DEF FlushInv, CallInv, Outside, deliveryVars, writerVars, flushVars
<1>6. InOrderNoLoss'
  <2> DEFINE n == sent - base
             X == handled \o flushBatch \o activeBatch
             e == sent + 1
  <2>1. /\ n \in Nat /\ X \o input = Sent /\ X \in Seq(Nat) /\ input \in Seq(Nat)
        /\ base \in Nat /\ e \in Nat /\ e = base + (n + 1)
    <3>1. base \in Nat /\ sent \in Nat
      BY CollectorAssumption DEF TypeOK, CollectorTypeOK
    <3>2. X \in Seq(Nat)
      BY Lengths
    <3>3. n \in Nat /\ X \o input = Sent /\ input \in Seq(Nat)
      BY Lengths
    <3>4. e \in Nat /\ e = base + (n + 1)
      BY <3>1, <3>3
    <3> HIDE DEF n, X, e
    <3> QED
      BY <3>1, <3>2, <3>3, <3>4
  <2>2. (handled \o flushBatch \o activeBatch \o input)' = X \o Append(input, e)
    BY DEF Outside, deliveryVars
  <2>3. X \o Append(input, e) = Append(X \o input, e)
    <3>1. X \in Seq(Nat) /\ input \in Seq(Nat) /\ e \in Nat
      BY <2>1
    <3> HIDE DEF X, e
    <3> QED
      BY <3>1, AppendRight
  <2>4. Append(Sent, e) = [i \in 1..(n + 1) |-> base + i]
    BY <2>1 DEF Sent
  <2>5. sent' - base' = n + 1 /\ base' = base
    BY <1>1, <2>1 DEF Outside, deliveryVars, TypeOK, CollectorTypeOK
  <2> HIDE DEF n, X, e
  <2> QED
    BY <2>1, <2>2, <2>3, <2>4, <2>5 DEF InOrderNoLoss
<1>7. sent' >= sent
  BY <1>1 DEF TypeOK, CollectorTypeOK
<1> QED
  BY <1>1, <1>4, <1>5, <1>6, <1>7, OutsideStep

\* Receive: an entry leaves the queue for the batch, and the batch may leave
\* for a flush.
LEMMA ReceiveStep ==
    ASSUME IInv, Receive, Outside
    PROVE  IInv'
<1> DEFINE b == Append(activeBatch, Head(input))
<1> USE DEF IInv
<1>1. /\ input # <<>> /\ input' = Tail(input) /\ cpc = "select" /\ cpc' = cpc
      /\ sent' = sent /\ inputOpen' = inputOpen
  BY DEF Receive
<1>2. input \in Seq(1..MaxEntries) /\ activeBatch \in Seq(1..MaxEntries)
  BY DEF TypeOK, CollectorTypeOK
<1>3. /\ b \in Seq(1..MaxEntries) /\ b # <<>> /\ Len(b) = Len(activeBatch) + 1
      /\ Len(input) >= 1 /\ Tail(input) \in Seq(1..MaxEntries)
      /\ Len(Tail(input)) <= Len(input)
  <2>1. Head(input) \in 1..MaxEntries /\ Len(input) >= 1
        /\ Tail(input) \in Seq(1..MaxEntries) /\ Len(Tail(input)) <= Len(input)
    <3>1. ASSUME NEW T, NEW s \in Seq(T), s # <<>>
          PROVE  /\ Head(s) \in T /\ Len(s) >= 1
                 /\ Tail(s) \in Seq(T) /\ Len(Tail(s)) <= Len(s)
      BY <3>1
    <3> QED
      BY <1>1, <1>2, <3>1
  <2>2. /\ b \in Seq(1..MaxEntries) /\ Len(b) = Len(activeBatch) + 1 /\ b # <<>>
    BY <1>2, <2>1
  <2> QED
    BY <2>1, <2>2
<1>4. Len(handled) + Len(flushBatch) + Len(b) <= MaxEntries
  BY <1>1, <1>2, <1>3, Lengths, CollectorAssumption
<1>5. /\ FlushInv' /\ CallInv'
      /\ flushBatch' \o activeBatch' = flushBatch \o b
      /\ activeBatch' \in Seq(1..MaxEntries)
      /\ flushBatch' \in Seq(1..MaxEntries)
      /\ flushing' \in BOOLEAN /\ flusher' \in {"none", "flush", "clear"}
      /\ flushWg' \in 0..MaxEntries /\ flushBacklog' \in Nat
  <2>1. CASE tryFlush(b)
    <3> HIDE DEF b
    <3> QED
      BY <1>1, <1>3, <1>4, <2>1, TryFlush
  <2>2. CASE /\ activeBatch' = b
             /\ UNCHANGED <<flushBatch, flushing, flusher, flushWg, flushBacklog>>
    <3>1. FlushInv'
      BY <1>1, <2>2 DEF FlushInv, Outside, deliveryVars
    <3>2. CallInv'
      BY <1>1, <2>2 DEF CallInv, Outside, writerVars, flushVars
    <3> QED
      BY <1>3, <2>2, <3>1, <3>2 DEF TypeOK, CollectorTypeOK
  <2> QED
    BY <2>1, <2>2 DEF Receive
<1>6. CollectorTypeOK'
  <2>1. CollectorTypeOK /\ InputCap \in Nat
    BY CollectorAssumption DEF TypeOK
  <2>2. Len(Tail(input)) <= InputCap
    <3>1. Len(input) <= InputCap /\ Len(input) \in Nat /\ Len(Tail(input)) \in Nat
      BY <1>2, <1>3, <2>1 DEF CollectorTypeOK
    <3> QED
      BY <1>3, <2>1, <3>1
  <2> QED
    BY <1>1, <1>3, <1>5, <2>1, <2>2 DEF CollectorTypeOK
<1>7. InOrderNoLoss'
  <2> HIDE DEF b
  <2>1. /\ handled \in Seq(Nat) /\ flushBatch \in Seq(Nat)
        /\ activeBatch \in Seq(Nat) /\ input \in Seq(Nat)
    BY Lengths
  <2>2. activeBatch' \in Seq(Nat) /\ flushBatch' \in Seq(Nat) /\ b \in Seq(Nat)
    <3>1. \A s \in Seq(1..MaxEntries) : s \in Seq(Nat)
      BY CollectorAssumption
    <3> QED
      BY <1>3, <1>5, <3>1
  <2>5. handled \o flushBatch' \o activeBatch' = handled \o flushBatch \o b
    <3> DEFINE f == flushBatch'
               a == activeBatch'
    <3>1. f \in Seq(Nat) /\ a \in Seq(Nat) /\ f \o a = flushBatch \o b
      BY <1>5, <2>2
    <3> HIDE DEF f, a
    <3>a. handled \in Seq(Nat) /\ f \in Seq(Nat) /\ a \in Seq(Nat)
      BY <2>1, <3>1
    <3>b. handled \in Seq(Nat) /\ flushBatch \in Seq(Nat) /\ b \in Seq(Nat)
      BY <2>1, <2>2
    <3>2. handled \o f \o a = handled \o (f \o a)
      BY ONLY <3>a, Associates
    <3>3. handled \o flushBatch \o b = handled \o (flushBatch \o b)
      BY ONLY <3>b, Associates
    <3> QED
      BY <3>1, <3>2, <3>3 DEF f, a
  <2>6. handled \o flushBatch \o b = Append(handled \o flushBatch \o activeBatch, Head(input))
    <3>1. handled \o flushBatch \in Seq(Nat) /\ Head(input) \in Nat
      BY <1>1, <2>1
    <3>2. activeBatch \in Seq(Nat)
      BY <2>1
    <3> QED
      BY <3>1, <3>2, AppendRight, SMTT(30) DEF b
  <2>7. Append(handled \o flushBatch \o activeBatch, Head(input)) \o Tail(input)
          = handled \o flushBatch \o activeBatch \o input
    <3>1. handled \o flushBatch \o activeBatch \in Seq(Nat)
      BY <2>1
    <3> QED
      BY <1>1, <2>1, <3>1, MoveHead
  <2>8. handled' = handled /\ base' = base
    BY DEF Outside, deliveryVars
  <2>9. handled' \o flushBatch' \o activeBatch' \o input'
          = handled \o flushBatch \o activeBatch \o input
    BY <1>1, <2>5, <2>6, <2>7, <2>8
  <2> QED
    BY <1>1, <2>8, <2>9 DEF InOrderNoLoss
<1> QED
  BY <1>1, <1>5, <1>6, <1>7, OutsideStep DEF TypeOK, CollectorTypeOK

\* Tick: the batch may leave for a flush.
LEMMA TickStep ==
    ASSUME IInv, Tick, Outside
    PROVE  IInv'
<1> USE DEF IInv
<1>1. /\ activeBatch # <<>> /\ cpc = "select" /\ cpc' = cpc
      /\ sent' = sent /\ inputOpen' = inputOpen /\ input' = input
      /\ tryFlush(activeBatch)
  BY DEF Tick
<1>2. activeBatch \in Seq(1..MaxEntries)
  BY DEF TypeOK, CollectorTypeOK
<1>3. Len(handled) + Len(flushBatch) + Len(activeBatch) <= MaxEntries
  BY Lengths, CollectorAssumption
<1>4. /\ FlushInv' /\ CallInv'
      /\ flushBatch' \o activeBatch' = flushBatch \o activeBatch
      /\ activeBatch' \in Seq(1..MaxEntries)
      /\ flushBatch' \in Seq(1..MaxEntries)
      /\ flushing' \in BOOLEAN /\ flusher' \in {"none", "flush", "clear"}
      /\ flushWg' \in 0..MaxEntries /\ flushBacklog' \in Nat
  BY <1>1, <1>2, <1>3, TryFlush
<1>5. CollectorTypeOK'
  BY <1>1, <1>4 DEF TypeOK, CollectorTypeOK
<1>6. InOrderNoLoss'
  <2>1. handled \in Seq(Nat) /\ flushBatch \in Seq(Nat) /\ activeBatch \in Seq(Nat)
    BY Lengths
  <2>2. activeBatch' \in Seq(Nat) /\ flushBatch' \in Seq(Nat)
    <3>1. \A s \in Seq(1..MaxEntries) : s \in Seq(Nat)
      BY CollectorAssumption
    <3> QED
      BY <1>4, <3>1
  <2>3. handled \o flushBatch' \o activeBatch' = handled \o flushBatch \o activeBatch
    <3> DEFINE f == flushBatch'
               a == activeBatch'
    <3>1. f \in Seq(Nat) /\ a \in Seq(Nat) /\ f \o a = flushBatch \o activeBatch
      BY <1>4, <2>2
    <3> HIDE DEF f, a
    <3>2. handled \o f \o a = handled \o (f \o a)
      BY ONLY <2>1, <3>1, Associates
    <3>3. handled \o flushBatch \o activeBatch = handled \o (flushBatch \o activeBatch)
      BY ONLY <2>1, Associates
    <3> QED
      BY <3>1, <3>2, <3>3 DEF f, a
  <2>5. handled' = handled /\ base' = base
    BY DEF Outside, deliveryVars
  <2>6. handled' \o flushBatch' \o activeBatch' \o input'
          = handled \o flushBatch \o activeBatch \o input
    BY <1>1, <2>3, <2>5
  <2> QED
    BY <1>1, <2>5, <2>6 DEF InOrderNoLoss
<1> QED
  BY <1>1, <1>4, <1>5, <1>6, OutsideStep DEF TypeOK, CollectorTypeOK

\* The other steps of the collector and the flush goroutine move no entry.
LEMMA OtherMoves ==
    ASSUME IInv, CloseInput \/ SeeClosed \/ Waited \/ ClearFlag \/ LeaveGroup, Outside
    PROVE  IInv'
<1> USE DEF IInv
<1>1. UNCHANGED <<sent, input, activeBatch, flushBatch, handled, base>>
  BY DEF CloseInput, SeeClosed, Waited, ClearFlag, LeaveGroup, Outside, deliveryVars
<1>2. InOrderNoLoss'
  BY <1>1 DEF InOrderNoLoss
<1>3. CollectorTypeOK' /\ FlushInv' /\ CallInv'
  <2> USE DEF CallInv, FlushInv, Outside, deliveryVars, writerVars, flushVars
  <2>1. CASE CloseInput
    BY <2>1 DEF CloseInput, TypeOK, CollectorTypeOK
  <2>2. CASE SeeClosed
    BY <2>2 DEF SeeClosed, TypeOK, CollectorTypeOK
  <2>3. CASE Waited
    BY <2>3 DEF Waited, FlushesDone, TypeOK, CollectorTypeOK
  <2>4. CASE ClearFlag
    BY <2>4 DEF ClearFlag, TypeOK, CollectorTypeOK
  <2>5. CASE LeaveGroup
    <3>1. /\ flushWg' = flushWg - 1 /\ flushWg \in 0..MaxEntries /\ flushWg > 0
          /\ flusher # "none" => flushWg > 1
      BY <2>5 DEF LeaveGroup, TypeOK, CollectorTypeOK
    <3>2. flushWg' \in 0..MaxEntries /\ flushWg' <= flushWg
          /\ (flusher # "none" => flushWg' >= 1)
      BY <3>1, CollectorAssumption
    <3>3. CollectorTypeOK'
      BY <2>5, <3>2 DEF LeaveGroup, TypeOK, CollectorTypeOK
    <3>4. flushWg' <= Len(handled) + (IF flusher = "flush" THEN 1 ELSE 0)
      <4>1. Len(handled) \in Nat
        BY DEF TypeOK
      <4> QED
        BY <3>1, <3>2, <4>1
    <3>5. cpc \in {"final", "returned"} => FALSE
      BY <3>1
    <3>6. FlushInv'
      BY <2>5, <3>2, <3>4, <3>5 DEF LeaveGroup
    <3>7. CallInv'
      BY <2>5 DEF LeaveGroup
    <3> QED
      BY <3>3, <3>6, <3>7
  <2> QED
    BY <2>1, <2>2, <2>3, <2>4, <2>5
<1> QED
  BY <1>1, <1>2, <1>3, OutsideStep DEF TypeOK, CollectorTypeOK

-----------------------------------------------------------------------------
(* The writer *)

\* The batch of a Flush is what this process was sent after what it handled.
LEMMA BatchIsNext ==
    ASSUME IInv, wpc # "idle"
    PROVE  /\ batch \in Seq(Nat) /\ batch # <<>> /\ Len(batch) >= 1
           /\ Head(batch) = base + Len(handled) + 1
           /\ Len(handled) + Len(batch) <= sent - base
           /\ \A i \in 1..Len(batch) : batch[i] = base + Len(handled) + i
<1> USE DEF IInv
<1> DEFINE h == handled
           L == Len(handled)
<1>1. /\ h \in Seq(Nat) /\ flushBatch \in Seq(Nat)
      /\ activeBatch \in Seq(Nat) /\ input \in Seq(Nat)
      /\ h \o flushBatch \o activeBatch \o input = Sent
      /\ Sent \in Seq(Nat) /\ Len(Sent) = sent - base
      /\ L + Len(flushBatch) + Len(activeBatch) + Len(input) = sent - base
  BY Lengths
<1>2. base \in Nat /\ sent - base \in Nat
  BY Lengths, CollectorAssumption DEF TypeOK, CollectorTypeOK
<1>3. ASSUME NEW b \in Seq(Nat), NEW r \in Seq(Nat), b # <<>>, h \o b \o r = Sent
      PROVE  /\ Head(b) = base + L + 1 /\ L + Len(b) <= sent - base
             /\ \A i \in 1..Len(b) : b[i] = base + L + i
  <2>a. h \in Seq(Nat)
    BY <1>1
  <2>1. /\ Len(h \o b \o r) = L + Len(b) + Len(r) /\ Len(b) >= 1
        /\ L \in Nat /\ Len(b) \in Nat /\ Len(r) \in Nat
        /\ (h \o b \o r)[L + 1] = Head(b)
        /\ \A i \in 1..Len(b) : (h \o b \o r)[L + i] = b[i]
    BY <1>3, <2>a, Middle
  <2>c. sent - base = L + Len(b) + Len(r)
    BY <1>1, <1>3, <2>1
  <2>3. L + 1 \in 1..(sent - base)
    BY <1>2, <2>1, <2>c
  <2>4. Sent[L + 1] = base + (L + 1)
    BY <2>3 DEF Sent
  <2>5. base + (L + 1) = base + L + 1
    BY <1>2, <2>1
  <2>6. L + Len(b) <= sent - base
    BY <2>1, <2>c
  <2>7. ASSUME NEW i \in 1..Len(b) PROVE b[i] = base + L + i
    <3>1. L + i \in 1..(sent - base) /\ base + (L + i) = base + L + i
      BY <1>2, <2>1, <2>c
    <3>2. Sent[L + i] = base + (L + i)
      BY <3>1 DEF Sent
    <3> QED
      BY <1>3, <2>1, <3>1, <3>2
  <2> QED
    BY <1>3, <2>1, <2>4, <2>5, <2>6, <2>7
<1>4. CASE flusher = "flush" /\ batch = flushBatch
  <2>1. flushBatch # <<>>
    BY <1>4 DEF FlushInv
  <2>2. h \o flushBatch \o (activeBatch \o input) = Sent
    <3>1. h \o flushBatch \in Seq(Nat) /\ activeBatch \in Seq(Nat) /\ input \in Seq(Nat)
      BY <1>1
    <3>2. h \o flushBatch \o activeBatch \o input
            = h \o flushBatch \o (activeBatch \o input)
      BY ONLY <3>1, Associates
    <3> QED
      BY <1>1, <3>2
  <2>3. activeBatch \o input \in Seq(Nat)
    BY <1>1
  <2>4. /\ Head(batch) = base + L + 1 /\ L + Len(batch) <= sent - base
        /\ \A i \in 1..Len(batch) : batch[i] = base + L + i
    BY <1>1, <1>3, <1>4, <2>1, <2>2, <2>3
  <2> QED
    BY <1>1, <1>4, <2>1, <2>4
<1>5. CASE cpc = "final" /\ batch = activeBatch
  <2>1. activeBatch # <<>> /\ flushBatch = <<>>
    BY <1>5 DEF FlushInv
  <2>2. h \o flushBatch = h
    BY <1>1, <2>1
  <2>3. h \o activeBatch \o input = Sent
    BY <1>1, <2>2
  <2>4. /\ Head(batch) = base + L + 1 /\ L + Len(batch) <= sent - base
        /\ \A i \in 1..Len(batch) : batch[i] = base + L + i
    BY <1>1, <1>3, <1>5, <2>1, <2>3
  <2> QED
    BY <1>1, <1>5, <2>1, <2>4
<1> QED
  BY <1>4, <1>5 DEF CallInv

\* Age, and the call of Flush: nothing but the writer's own state changes.
LEMMA AgeStep ==
    ASSUME IInv, Age, UNCHANGED <<collectorVars, deliveryVars>>
    PROVE  IInv'
<1> USE DEF IInv, Age, collectorVars, deliveryVars, flushVars, diskVars
<1>1. TypeOK'
  BY DEF TypeOK, CollectorTypeOK, WriterTypeOK
<1>2. FlushInv' /\ CallInv'
  BY DEF FlushInv, CallInv
<1>3. InOrderNoLoss'
  BY DEF InOrderNoLoss
<1>4. CountInv'
  BY DEF CountInv
<1>5. SizeInv'
  BY DEF SizeInv
<1>6. BatchInv' /\ BatchInOneFile'
  BY DEF BatchInv, BatchInOneFile, Disk
<1>7. RetentionInv'
  BY DEF RetentionInv
<1> QED
  BY <1>1, <1>2, <1>3, <1>4, <1>5, <1>6, <1>7

\* A Flush begins with the batch of its caller.
LEMMA StartStep ==
    ASSUME IInv, StartWriting
    PROVE  IInv'
<1> USE DEF IInv
<1>1. PICK b : /\ FlushCall(b)
               /\ \/ flusher = "flush" /\ b = flushBatch
                  \/ cpc = "final" /\ b = activeBatch
  BY DEF StartWriting
<1>2. /\ wpc = "idle" /\ batch' = b /\ written' = 0 /\ totalBytes' = 0
      /\ failed' = FALSE /\ wpc' \in {"close", "write"}
      /\ UNCHANGED <<file, currentBytes, avgEntrySize, old, active, rotated, faults>>
      /\ UNCHANGED <<collectorVars, deliveryVars>>
  BY <1>1 DEF FlushCall, StartWriting, fileVars, diskVars
<1>3. b \in Seq(Nat) /\ b # <<>> /\ Len(b) \in Nat /\ Len(b) >= 1
  <2>1. b # <<>>
    BY <1>1 DEF FlushInv
  <2>2. b \in Seq(Nat)
    BY <1>1, Lengths
  <2> QED
    BY <2>1, <2>2
<1> HIDE <1>1
<1> USE DEF collectorVars, deliveryVars
<1>4. TypeOK'
  <2>1. CollectorTypeOK'
    BY <1>2 DEF TypeOK, CollectorTypeOK
  <2>2. 0 \in 0..Len(b)
    BY <1>3
  <2>3. WriterTypeOK'
    BY <1>2, <1>3, <2>2 DEF TypeOK, WriterTypeOK
  <2> QED
    BY <1>2, <2>1, <2>3 DEF TypeOK
<1>5. FlushInv'
  BY <1>2 DEF FlushInv
<1>6. CallInv'
  BY <1>1, <1>2, <1>3 DEF CallInv
<1>7. InOrderNoLoss'
  BY <1>2 DEF InOrderNoLoss
<1>8. CountInv'
  <2>1. SubSeq(batch, 1, written) = SubSeq(batch', 1, written')
    BY <1>2, <1>3 DEF CallInv
  <2> QED
    BY <1>2, <2>1 DEF CountInv
<1>9. SizeInv'
  <2>1. currentBytes \in Nat
    BY DEF TypeOK, WriterTypeOK
  <2> QED
    BY <1>2, <2>1 DEF SizeInv
<1>10. BatchInv' /\ BatchInOneFile'
  BY <1>2 DEF BatchInv, BatchInOneFile, Disk
<1>11. RetentionInv'
  BY <1>2 DEF RetentionInv
<1> QED
  BY <1>4, <1>5, <1>6, <1>7, <1>8, <1>9, <1>10, <1>11

\* What is the same for every operation of a Flush.
LEMMA WritingKeeps ==
    ASSUME IInv, Writing
    PROVE  /\ wpc # "idle" /\ wpc' # "idle" /\ batch' = batch
           /\ UNCHANGED <<collectorVars, ingested, ioErrors, handled, base, former,
                          restarts>>
           /\ written' = written \/ written' = written + 1
           /\ written' # written => WriteEntry
           /\ batch \in Seq(Nat) /\ batch # <<>> /\ Len(batch) \in Nat
           /\ Len(batch) >= 1
           /\ written \in Nat /\ written <= Len(batch)
           /\ wpc = "write" => written + 1 \in 1..Len(batch)
                               /\ batch[written + 1] \in Nat
           /\ Head(batch) \in Nat
<1> USE DEF IInv
<1>1. /\ wpc \in {"close", "rename", "open", "retain", "write"}
      /\ wpc' \in {"rename", "open", "retain", "write", "return"}
      /\ batch' = batch
      /\ written' = written \/ WriteEntry
  BY DEF Writing, WriterStep, RotateClose, Rename, RenameFails, Open, OpenFails,
         Retain, RetainFails, WriteEntry, AfterWrite, WriteFails, WriteClosed,
         ReturnError
<1>2. /\ UNCHANGED <<collectorVars, ingested, ioErrors, handled, base, former,
                     restarts>>
  BY DEF Writing
<1>3. written' = written \/ written' = written + 1
  BY <1>1 DEF WriteEntry
<1>4. batch \in Seq(Nat) /\ batch # <<>>
  BY <1>1, BatchIsNext
<1>5. Len(batch) \in Nat /\ Len(batch) >= 1 /\ Head(batch) \in Nat
  BY <1>4
<1>6. written \in Nat /\ written <= Len(batch)
  BY <1>5 DEF TypeOK, WriterTypeOK
<1>7. wpc = "write" => written + 1 \in 1..Len(batch) /\ batch[written + 1] \in Nat
  <2> SUFFICES ASSUME wpc = "write"
               PROVE  written + 1 \in 1..Len(batch) /\ batch[written + 1] \in Nat
    OBVIOUS
  <2>1. written < Len(batch)
    BY DEF CallInv
  <2>2. written + 1 \in 1..Len(batch)
    BY <1>5, <1>6, <2>1
  <2> QED
    BY <1>4, <2>2
<1> QED
  BY <1>1, <1>2, <1>3, <1>4, <1>5, <1>6, <1>7

\* The collector's part of the invariant does not see it.
LEMMA WritingCollector ==
    ASSUME IInv, Writing
    PROVE  CollectorTypeOK' /\ FlushInv' /\ InOrderNoLoss'
<1> USE DEF IInv, collectorVars
<1>1. UNCHANGED <<collectorVars, handled, base>>
  BY WritingKeeps
<1>2. CollectorTypeOK'
  BY <1>1 DEF TypeOK, CollectorTypeOK
<1>3. FlushInv'
  BY <1>1 DEF FlushInv
<1>4. InOrderNoLoss'
  BY <1>1 DEF InOrderNoLoss
<1> QED
  BY <1>2, <1>3, <1>4

\* A Flush ends with an error or with the whole batch written.
LEMMA WritingCalls ==
    ASSUME IInv, Writing
    PROVE  CallInv'
<1> USE DEF IInv
<1>1. /\ wpc # "idle" /\ wpc' # "idle" /\ batch' = batch /\ batch # <<>>
      /\ UNCHANGED <<flusher, flushBatch, cpc, activeBatch>>
      /\ Len(batch) \in Nat /\ Len(batch) >= 1
      /\ written \in Nat /\ written <= Len(batch)
  BY WritingKeeps DEF collectorVars
<1>2. \/ flusher' = "flush" /\ batch' = flushBatch'
      \/ cpc' = "final" /\ batch' = activeBatch'
  BY <1>1 DEF CallInv
<1>3. /\ wpc' \in {"close", "rename", "open", "retain"} => written' = 0 /\ totalBytes' = 0
      /\ wpc' = "write" => written' < Len(batch') /\ totalBytes' >= written'
      /\ wpc' = "return" /\ ~failed' => written' = Len(batch')
  <2> USE DEF CallInv
  <2>1. CASE RotateClose \/ Rename \/ RenameFails \/ Open \/ OpenFails
    BY <1>1, <2>1 DEF RotateClose, Rename, RenameFails, Open, OpenFails, ReturnError
  <2>2. CASE Retain \/ RetainFails
    BY <1>1, <2>2 DEF Retain, RetainFails, ReturnError
  <2>3. CASE WriteEntry
    <3>1. /\ wpc = "write" /\ written' = written + 1
          /\ totalBytes' = totalBytes + LineSize
          /\ wpc' = IF written' = Len(batch) THEN "return" ELSE "write"
      BY <2>3 DEF WriteEntry, AfterWrite
    <3>2. written < Len(batch) /\ totalBytes >= written /\ totalBytes \in Nat
      BY <3>1 DEF TypeOK, WriterTypeOK
    <3>3. LineSize \in Nat /\ LineSize >= 2
      BY WriterAssumption
    <3>4. totalBytes' >= written' /\ (written' # Len(batch) => written' < Len(batch))
      BY <1>1, <3>1, <3>2, <3>3
    <3> QED
      BY <1>1, <3>1, <3>4
  <2>4. CASE WriteFails \/ WriteClosed
    BY <1>1, <2>4 DEF WriteFails, WriteClosed, ReturnError
  <2> QED
    BY <2>1, <2>2, <2>3, <2>4 DEF Writing, WriterStep
<1> QED
  BY <1>1, <1>2, <1>3 DEF CallInv

\* What is in the file for certain is counted in written, entry for entry.
LEMMA WritingCounts ==
    ASSUME IInv, Writing
    PROVE  /\ CountInv'
           /\ persisted' \in Seq(Nat) /\ former' \in 0..Len(persisted')
<1> USE DEF IInv
<1>1. /\ UNCHANGED <<ingested, ioErrors, handled, former>> /\ batch' = batch
      /\ written' = written \/ written' = written + 1
      /\ written' # written => WriteEntry
      /\ batch \in Seq(Nat) /\ written \in Nat
      /\ wpc = "write" => written + 1 \in 1..Len(batch) /\ batch[written + 1] \in Nat
  BY WritingKeeps
<1>2. persisted \in Seq(Nat) /\ former \in 0..Len(persisted) /\ ingested \in Seq(Nat)
  BY DEF TypeOK
<1>3. persisted' = IF written' > written THEN Append(persisted, batch[written'])
                   ELSE persisted
  BY DEF Writing
<1>4. CASE written' = written
  <2>1. persisted' = persisted
    BY <1>1, <1>3, <1>4
  <2> QED
    BY <1>1, <1>2, <1>4, <2>1 DEF CountInv
<1>5. CASE written' # written
  <2> DEFINE e == batch[written + 1]
             n == Len(persisted)
  <2>1. /\ wpc = "write" /\ written' = written + 1 /\ e \in Nat
        /\ written + 1 \in 1..Len(batch)
    BY <1>1, <1>5 DEF WriteEntry
  <2>2. persisted' = Append(persisted, e)
    BY <1>1, <1>3, <2>1
  <2>3. n \in Nat /\ Len(persisted') = n + 1 /\ persisted' \in Seq(Nat)
    BY <1>2, <2>1, <2>2
  <2>4. former' \in 0..Len(persisted')
    BY <1>1, <1>2, <2>3
  <2>5. SubSeq(persisted', former + 1, n + 1) = Append(SubSeq(persisted, former + 1, n), e)
    <3> HIDE DEF e
    <3> QED
      BY <1>2, <2>1, <2>2, RestOfAppend
  <2>6. SubSeq(batch, 1, written + 1) = Append(SubSeq(batch, 1, written), e)
    <3>1. ASSUME NEW s \in Seq(Nat), NEW k \in Nat, k + 1 \in 1..Len(s)
          PROVE  SubSeq(s, 1, k + 1) = Append(SubSeq(s, 1, k), s[k + 1])
      BY <3>1
    <3> QED
      BY <1>1, <2>1, <3>1
  <2>7. ingested \o Append(SubSeq(batch, 1, written), e)
          = Append(ingested \o SubSeq(batch, 1, written), e)
    <3>1. SubSeq(batch, 1, written) \in Seq(Nat) /\ ingested \in Seq(Nat) /\ e \in Nat
      BY <1>1, <1>2, <2>1
    <3> HIDE DEF e
    <3> QED
      BY ONLY <3>1, AppendRight
  <2>8. SubSeq(persisted, former + 1, n) = ingested \o SubSeq(batch, 1, written)
    BY DEF CountInv
  <2>9. SubSeq(persisted', former' + 1, Len(persisted'))
          = ingested' \o SubSeq(batch', 1, written')
    <3> HIDE DEF e, n
    <3> QED
      BY <1>1, <2>1, <2>3, <2>5, <2>6, <2>7, <2>8
  <2> QED
    BY <1>1, <2>3, <2>4, <2>9 DEF CountInv
<1> QED
  BY <1>4, <1>5

\* The line of the next entry, or the beginning of it.
LEMMA NextChunk ==
    ASSUME IInv, Writing, wpc = "write", NEW k \in 1..LineSize
    PROVE  [entry |-> batch[written + 1], of |-> Head(batch), bytes |-> k] \in Chunk
BY WritingKeeps DEF Chunk

\* The recorded size follows the file through rotation, writes and failures.
LEMMA WritingSizes ==
    ASSUME IInv, Writing
    PROVE  SizeInv'
<1> USE DEF IInv
<1>1. /\ active \in Seq(Chunk) /\ currentBytes \in Nat /\ totalBytes \in Nat
      /\ file \in BOOLEAN /\ LineSize \in Nat
      /\ Size(active) \in Nat
  BY SizeFacts, WriterAssumption DEF TypeOK, WriterTypeOK
<1> USE DEF SizeInv
<1>2. CASE RotateClose
  BY <1>2 DEF RotateClose, ReturnError, diskVars
<1>3. CASE Rename \/ RenameFails
  BY <1>3 DEF Rename, RenameFails, ReturnError, diskVars, fileVars
<1>4. CASE Open \/ OpenFails
  BY <1>4 DEF Open, OpenFails, ReturnError, diskVars, fileVars
<1>5. CASE Retain
  <2>1. /\ file /\ currentBytes = 0 /\ active = <<>> /\ totalBytes = 0
        /\ wpc' = "write"
        /\ UNCHANGED <<file, currentBytes, active, totalBytes>>
    BY <1>5 DEF Retain, fileVars, CallInv
  <2>2. currentBytes' + totalBytes' = Size(active')
    BY <2>1, SizeFacts
  <2> QED
    BY <2>1, <2>2
<1>6. CASE RetainFails
  <2>1. /\ file /\ currentBytes = 0 /\ active = <<>> /\ wpc' = "return"
        /\ UNCHANGED <<file, currentBytes, active>>
    BY <1>6 DEF RetainFails, fileVars, ReturnError
  <2>2. currentBytes' = Size(active')
    BY <2>1, SizeFacts
  <2> QED
    BY <2>1, <2>2
<1>7. CASE WriteEntry
  <2> DEFINE c == [entry |-> batch[written + 1], of |-> Head(batch), bytes |-> LineSize]
  <2>1. /\ wpc = "write" /\ file /\ file' = file /\ active' = Append(active, c)
        /\ totalBytes' = totalBytes + LineSize /\ wpc' \in {"write", "return"}
        /\ currentBytes' = IF wpc' = "return" THEN currentBytes + totalBytes'
                           ELSE currentBytes
    BY <1>7 DEF WriteEntry, AfterWrite
  <2>2. c \in Chunk /\ c.bytes = LineSize
    <3>1. LineSize \in 1..LineSize
      BY WriterAssumption
    <3> QED
      BY <2>1, <3>1, NextChunk
  <2> HIDE DEF c
  <2>3. Size(active') = Size(active) + LineSize
    BY <1>1, <2>1, <2>2, SizeFacts
  <2>4. currentBytes + totalBytes = Size(active)
    BY <2>1
  <2>5. currentBytes + totalBytes' = Size(active')
    BY <1>1, <2>1, <2>3, <2>4
  <2>6. wpc' = "return" => currentBytes' = Size(active')
    BY <2>1, <2>5
  <2>7. wpc' = "write" => currentBytes' + totalBytes' = Size(active')
    BY <2>1, <2>5
  <2> QED
    BY <2>1, <2>6, <2>7
<1>8. CASE WriteFails
  <2> DEFINE c(k) == [entry |-> batch[written + 1], of |-> Head(batch), bytes |-> k]
  <2>1. PICK k \in 0..(LineSize - 1) :
          /\ active' = IF k = 0 THEN active ELSE Append(active, c(k))
          /\ currentBytes' = currentBytes + totalBytes + k
    BY <1>8 DEF WriteFails, CountPartial
  <2>2. wpc = "write" /\ file /\ wpc' = "return" /\ k \in Nat
    BY <1>8, <1>1 DEF WriteFails, ReturnError
  <2>3. Size(active') = Size(active) + k
    <3>1. CASE k = 0
      BY <1>1, <2>1, <3>1
    <3>2. CASE k # 0
      <4>1. k \in 1..LineSize
        BY <1>1, <3>2
      <4>2. c(k) \in Chunk /\ c(k).bytes = k
        BY <2>2, <4>1, NextChunk
      <4> HIDE DEF c
      <4> QED
        BY <1>1, <2>1, <3>2, <4>2, SizeFacts
    <3> QED
      BY <3>1, <3>2
  <2>4. currentBytes + totalBytes = Size(active)
    BY <2>2
  <2>5. currentBytes' = Size(active')
    BY <1>1, <2>1, <2>2, <2>3, <2>4
  <2> QED
    BY <2>2, <2>5
<1>9. CASE WriteClosed
  BY <1>9 DEF WriteClosed, ReturnError
<1> QED
  BY <1>2, <1>3, <1>4, <1>5, <1>6, <1>7, <1>8, <1>9 DEF Writing, WriterStep

\* How many files are too many.
LEMMA ExcessFacts ==
    ASSUME IInv
    PROVE  /\ Len(rotated) \in Nat /\ MaxFiles \in Nat /\ faults \in Nat
           /\ restarts \in Nat /\ Excess \in 0..Len(rotated)
           /\ Len(rotated) - Excess <= MaxFiles
<1> USE DEF IInv
<1>1. Len(rotated) \in Nat /\ MaxFiles \in Nat /\ faults \in Nat /\ restarts \in Nat
  BY WriterAssumption, RestartsAssumption DEF TypeOK, WriterTypeOK
<1> QED
  BY <1>1 DEF Excess

\* What is left when the oldest files are gone.
LEMMA DropFacts ==
    ASSUME NEW r \in Seq(Seq(Chunk)), NEW k \in 0..Len(r)
    PROVE  /\ SubSeq(r, k + 1, Len(r)) \in Seq(Seq(Chunk))
           /\ Len(SubSeq(r, k + 1, Len(r))) = Len(r) - k
           /\ \A i \in 1..(Len(r) - k) : SubSeq(r, k + 1, Len(r))[i] = r[k + i]
OBVIOUS

\* Outside a rotation there is none more.
LEMMA NoneMore ==
    ASSUME wpc' \in {"write", "return", "rename", "idle"},
           faults' \in Nat, restarts' \in Nat, 
           Len(rotated') <= MaxFiles + faults' + restarts'
    PROVE  RetentionInv'
<1>1. MaxFiles + faults' + restarts' + 0 = MaxFiles + faults' + restarts'
  BY WriterAssumption
<1>2. (IF wpc' \in {"open", "retain"} THEN 1 ELSE 0) = 0
  OBVIOUS
<1> QED
  BY <1>1, <1>2 DEF RetentionInv

\* A file more is there after a rename, until the retention has been, and then
\* for good if it failed.
LEMMA WritingRetention ==
    ASSUME IInv, Writing
    PROVE  RetentionInv'
<1> USE DEF IInv
<1> DEFINE n == Len(rotated)
           more == IF wpc \in {"open", "retain"} THEN 1 ELSE 0
<1>1. /\ n \in Nat /\ MaxFiles \in Nat /\ faults \in Nat /\ restarts \in Nat
      /\ Excess \in 0..n /\ n - Excess <= MaxFiles /\ restarts' = restarts
      /\ n <= MaxFiles + faults + restarts + more /\ more \in 0..1
  BY ExcessFacts, WritingKeeps DEF RetentionInv
<1>2. rotated \in Seq(Seq(Chunk)) /\ active \in Seq(Chunk)
  BY DEF TypeOK, WriterTypeOK
<1>3. CASE Retain
  <2>1. rotated' = SubSeq(rotated, Excess + 1, n) /\ faults' = faults
        /\ wpc' = "write"
    BY <1>3 DEF Retain, DropOldest
  <2>2. Len(rotated') = n - Excess
    BY <1>1, <1>2, <2>1, DropFacts
  <2>3. Len(rotated') <= MaxFiles + faults' + restarts'
    <3> HIDE DEF n, more
    <3> QED
      BY <1>1, <2>1, <2>2
  <2> QED
    BY <1>1, <2>1, <2>3, NoneMore
<1>4. CASE RetainFails
  <2>1. PICK k \in 0..Excess : rotated' = SubSeq(rotated, k + 1, n)
    BY <1>4 DEF RetainFails, DropOldest
  <2>2. faults' = faults + 1 /\ wpc' = "return" /\ k \in 0..n /\ k \in Nat
    BY <1>1, <1>4 DEF RetainFails, Fault, ReturnError
  <2>3. Len(rotated') = n - k
    BY <1>2, <2>1, <2>2, DropFacts
  <2>4. Len(rotated') <= MaxFiles + faults' + restarts'
    <3> HIDE DEF n, more
    <3> QED
      BY <1>1, <2>2, <2>3
  <2> QED
    BY <1>1, <2>2, <2>4, NoneMore
<1>5. CASE Rename
  <2>1. rotated' = Append(rotated, active) /\ faults' = faults /\ wpc = "rename"
        /\ wpc' = "open"
    BY <1>5 DEF Rename
  <2>2. Len(rotated') = n + 1 /\ more = 0
    BY <1>2, <2>1
  <2>3. Len(rotated') <= MaxFiles + faults' + restarts' + 1
    <3> HIDE DEF n, more
    <3> QED
      BY <1>1, <2>1, <2>2
  <2> QED
    BY <2>1, <2>3 DEF RetentionInv
<1>6. CASE RotateClose \/ RenameFails \/ Open \/ OpenFails
  <2>1. /\ rotated' = rotated
        /\ \/ faults' = faults /\ wpc' \in {"rename", "retain", "return"}
              /\ (wpc' = "retain" <=> more = 1)
           \/ faults' = faults + 1 /\ wpc' = "return"
    BY <1>6 DEF RotateClose, RenameFails, Open, OpenFails, diskVars, Fault, ReturnError
  <2>2. Len(rotated') = n
    BY <2>1
  <2>3. CASE faults' = faults /\ wpc' \in {"rename", "retain", "return"}
             /\ (wpc' = "retain" <=> more = 1)
    <3>1. CASE wpc' = "retain"
      <4>1. Len(rotated') <= MaxFiles + faults' + restarts' + 1
        <5> HIDE DEF n, more
        <5> QED
          BY <1>1, <2>2, <2>3, <3>1
      <4> QED
        BY <3>1, <4>1 DEF RetentionInv
    <3>2. CASE wpc' # "retain"
      <4>1. Len(rotated') <= MaxFiles + faults' + restarts'
        <5>1. more = 0
          BY <2>3, <3>2
        <5> HIDE DEF n, more
        <5> QED
          BY <1>1, <2>2, <2>3, <5>1
      <4> QED
        BY <1>1, <2>3, <3>2, <4>1, NoneMore
    <3> QED
      BY <3>1, <3>2
  <2>4. CASE faults' = faults + 1 /\ wpc' = "return"
    <3>1. Len(rotated') <= MaxFiles + faults' + restarts'
      <4> HIDE DEF n, more
      <4> QED
        BY <1>1, <2>2, <2>4
    <3> QED
      BY <1>1, <2>4, <3>1, NoneMore
  <2> QED
    BY <2>1, <2>3, <2>4
<1>7. CASE WriteEntry \/ WriteFails \/ WriteClosed
  <2>1. /\ rotated' = rotated /\ wpc = "write" /\ wpc' \in {"write", "return"}
        /\ faults' = faults \/ faults' = faults + 1
    BY <1>7 DEF WriteEntry, WriteFails, WriteClosed, AfterWrite, Fault, ReturnError, diskVars
  <2>2. Len(rotated') = n /\ more = 0
    BY <2>1
  <2>a. faults' >= faults /\ faults' \in Nat
    BY <1>1, <2>1
  <2>3. Len(rotated') <= MaxFiles + faults' + restarts'
    <3> HIDE DEF n, more
    <3> QED
      <4> DEFINE f == faults'
                 r == restarts'
      <4>1. n <= MaxFiles + faults + restarts
        BY <1>1, <2>2
      <4>2. f >= faults /\ f \in Nat /\ r = restarts
        BY <1>1, <2>a
      <4>3. /\ n \in Nat /\ MaxFiles \in Nat /\ faults \in Nat /\ restarts \in Nat
        BY <1>1
      <4> HIDE DEF f, r
      <4>4. n <= MaxFiles + f + r
        BY ONLY <4>1, <4>2, <4>3
      <4> QED
        BY <2>2, <4>4 DEF f, r
  <2> QED
    BY <1>1, <2>1, <2>3, <2>a, NoneMore
<1> QED
  BY <1>3, <1>4, <1>5, <1>6, <1>7 DEF Writing, WriterStep

\* The estimate stays positive: a line has bytes, and at least one was written.
LEMMA NewAverage ==
    ASSUME NEW a \in Nat \ {0}, NEW t \in Nat, NEW w \in Nat \ {0}, t >= w
    PROVE  (a + t \div w) \div 2 \in Nat \ {0}
<1> DEFINE q == t \div w
<1>1. q \in Nat /\ q >= 1
  <2>1. q \in Int /\ w * q <= t /\ t < w * (q + 1)
    OBVIOUS
  <2>2. CASE q <= 0
    <3>1. w * (q + 1) <= w
      <4>1. q + 1 <= 1 /\ q + 1 \in Int
        BY <2>1, <2>2
      <4> HIDE DEF q
      <4> QED
        BY <4>1
    <3> HIDE DEF q
    <3> QED
      BY <2>1, <3>1
  <2> HIDE DEF q
  <2> QED
    BY <2>1, <2>2
<1> HIDE DEF q
<1>2. a + q \in Nat /\ a + q >= 2
  BY <1>1
<1>3. (a + q) \div 2 \in Nat /\ (a + q) \div 2 >= 1
  BY <1>2
<1> QED
  BY <1>3 DEF q

\* Every file stays a sequence of what was written, every number a number.
LEMMA WritingTypes ==
    ASSUME IInv, Writing
    PROVE  TypeOK'
<1> USE DEF IInv
<1>0. TypeOK /\ WriterTypeOK
  BY DEF TypeOK
<1>1. /\ batch' = batch /\ batch \in Seq(Nat) /\ Len(batch) \in Nat
      /\ written \in 0..Len(batch)
      /\ wpc = "write" => written + 1 \in 1..Len(batch)
      /\ UNCHANGED <<collectorVars, ingested, ioErrors, handled, base, former,
                     restarts>>
  BY <1>0, WritingKeeps DEF WriterTypeOK
<1>2. LineSize \in Nat /\ LineSize >= 2 /\ MaxFaults \in Nat /\ MaxFiles \in Nat
  BY WriterAssumption
<1>3. ASSUME Fault
      PROVE  faults' \in 0..MaxFaults
  BY <1>0, <1>2, <1>3 DEF Fault, WriterTypeOK
<1>4. WriterTypeOK'
  <2> USE DEF WriterTypeOK
  <2>1. CASE RotateClose
    BY <1>0, <1>1, <1>3, <2>1 DEF RotateClose, ReturnError, diskVars
  <2>2. CASE Rename
    <3>1. rotated' \in Seq(Seq(Chunk)) /\ active' \in Seq(Chunk)
      <4>1. ASSUME NEW e, e = <<>>
            PROVE  e \in Seq(Chunk)
        BY <4>1
      <4> QED
        BY <1>0, <2>2, <4>1 DEF Rename
    <3> QED
      BY <1>0, <1>1, <2>2, <3>1 DEF Rename, fileVars
  <2>3. CASE RenameFails
    BY <1>0, <1>1, <1>3, <2>3 DEF RenameFails, ReturnError, diskVars
  <2>4. CASE Open
    BY <1>0, <1>1, <2>4 DEF Open
  <2>5. CASE OpenFails
    BY <1>0, <1>1, <1>3, <2>5 DEF OpenFails, ReturnError, diskVars, fileVars
  <2>6. CASE Retain
    <3>1. rotated' \in Seq(Seq(Chunk))
      BY <1>0, <2>6, ExcessFacts, DropFacts DEF Retain, DropOldest
    <3> QED
      BY <1>0, <1>1, <2>6, <3>1 DEF Retain, fileVars
  <2>7. CASE RetainFails
    <3>1. PICK k \in 0..Excess : DropOldest(k)
      BY <2>7 DEF RetainFails
    <3>2. k \in 0..Len(rotated)
      BY ExcessFacts
    <3>3. rotated' \in Seq(Seq(Chunk))
      BY <1>0, <3>1, <3>2, DropFacts DEF DropOldest
    <3> QED
      BY <1>0, <1>1, <1>3, <2>7, <3>3 DEF RetainFails, ReturnError, fileVars
  <2>8. CASE WriteEntry
    <3> DEFINE c == [entry |-> batch[written + 1], of |-> Head(batch), bytes |-> LineSize]
    <3>1. /\ wpc = "write" /\ active' = Append(active, c) /\ written' = written + 1
          /\ totalBytes' = totalBytes + LineSize
          /\ wpc' \in {"write", "return"}
          /\ IF wpc' = "return"
             THEN /\ avgEntrySize' = (avgEntrySize + totalBytes' \div written') \div 2
                  /\ currentBytes' = currentBytes + totalBytes'
             ELSE UNCHANGED <<avgEntrySize, currentBytes>>
          /\ UNCHANGED <<batch, failed, file, old, rotated, faults>>
      BY <2>8 DEF WriteEntry, AfterWrite
    <3>2. active' \in Seq(Chunk)
      <4>1. LineSize \in 1..LineSize
        BY <1>2
      <4>2. c \in Chunk
        BY <3>1, <4>1, NextChunk
      <4> HIDE DEF c
      <4> QED
        BY <1>0, <3>1, <4>2
    <3>3. /\ written' \in 0..Len(batch') /\ written' \in Nat \ {0}
          /\ totalBytes' \in Nat /\ totalBytes' >= written'
      <4>1. totalBytes >= written /\ totalBytes \in Nat
        BY <1>0, <3>1 DEF CallInv
      <4> QED
        BY <1>1, <1>2, <3>1, <4>1
    <3>4. avgEntrySize' \in Nat \ {0}
      <4>1. avgEntrySize \in Nat \ {0}
        BY <1>0
      <4>2. (avgEntrySize + totalBytes' \div written') \div 2 \in Nat \ {0}
        BY <3>3, <4>1, NewAverage
      <4> QED
        BY <3>1, <4>1, <4>2
    <3>5. currentBytes' \in Nat
      <4>1. currentBytes \in Nat /\ totalBytes' \in Nat
        BY <1>0, <3>3
      <4>2. currentBytes' = currentBytes + totalBytes' \/ currentBytes' = currentBytes
        BY <3>1
      <4> QED
        BY <4>1, <4>2
    <3> HIDE DEF c
    <3> QED
      BY <1>0, <1>1, <3>1, <3>2, <3>3, <3>4, <3>5
  <2>9. CASE WriteFails
    <3> DEFINE c(k) == [entry |-> batch[written + 1], of |-> Head(batch), bytes |-> k]
    <3>1. PICK k \in 0..(LineSize - 1) :
            /\ active' = IF k = 0 THEN active ELSE Append(active, c(k))
            /\ totalBytes' = totalBytes + k
            /\ currentBytes' = currentBytes + totalBytes + k
      BY <2>9 DEF WriteFails, CountPartial
    <3>2. totalBytes' \in Nat /\ currentBytes' \in Nat
      BY <1>0, <1>2, <3>1
    <3>3. active' \in Seq(Chunk)
      <4>1. CASE k = 0
        BY <1>0, <3>1, <4>1
      <4>2. CASE k # 0
        <5>1. k \in 1..LineSize
          BY <1>2, <4>2
        <5>2. c(k) \in Chunk
          BY <2>9, <5>1, NextChunk DEF WriteFails
        <5> HIDE DEF c
        <5> QED
          BY <1>0, <3>1, <4>2, <5>2
      <4> QED
        BY <4>1, <4>2
    <3> HIDE DEF c
    <3> QED
      BY <1>0, <1>1, <1>3, <2>9, <3>2, <3>3 DEF WriteFails, ReturnError
  <2>10. CASE WriteClosed
    <3>1. currentBytes' \in Nat
      BY <1>0, <2>10 DEF WriteClosed
    <3> QED
      BY <1>0, <1>1, <2>10, <3>1 DEF WriteClosed, ReturnError, diskVars
  <2> QED
    BY <2>1, <2>2, <2>3, <2>4, <2>5, <2>6, <2>7, <2>8, <2>9, <2>10
       DEF Writing, WriterStep
<1>5. persisted' \in Seq(Nat) /\ former' \in 0..Len(persisted')
  BY WritingCounts
<1>6. CollectorTypeOK'
  BY WritingCollector
<1> QED
  BY <1>0, <1>1, <1>4, <1>5, <1>6 DEF TypeOK, collectorVars

-----------------------------------------------------------------------------
(* Batches and files *)

\* No file holds a line of a batch of which another one does.
OneFileEach(d) ==
    \A i, j \in DOMAIN d : i # j =>
        {c.of : c \in ToSet(d[i])} \cap {c.of : c \in ToSet(d[j])} = {}

Apart(r, a) ==
    /\ \A i, j \in DOMAIN r : i # j =>
         \A k \in DOMAIN r[i], l \in DOMAIN r[j] : r[i][k].of # r[j][l].of
    /\ \A i \in DOMAIN r : \A k \in DOMAIN r[i], l \in DOMAIN a : r[i][k].of # a[l].of

\* The same, line by line, for the rotated files r and the active one.
LEMMA OneFileIsApart ==
    ASSUME NEW r \in Seq(Seq(Chunk)), NEW a \in Seq(Chunk)
    PROVE  OneFileEach(Append(r, a)) <=> Apart(r, a)
<1> DEFINE d == Append(r, a)
           n == Len(r)
           Clear(f, g) == \A k \in DOMAIN f, l \in DOMAIN g : f[k].of # g[l].of
<1>1. /\ n \in Nat /\ DOMAIN r = 1..n /\ DOMAIN d = 1..(n + 1)
      /\ d[n + 1] = a /\ \A i \in 1..n : d[i] = r[i]
  OBVIOUS
<1>2. ASSUME NEW f, NEW g
      PROVE  {c.of : c \in ToSet(f)} \cap {c.of : c \in ToSet(g)} = {} <=> Clear(f, g)
  BY DEF ToSet
<1>3. ASSUME NEW f, NEW g
      PROVE  Clear(f, g) <=> Clear(g, f)
  OBVIOUS
<1>4. OneFileEach(d) <=> \A i, j \in DOMAIN d : i # j => Clear(d[i], d[j])
  <2> HIDE DEF d, Clear
  <2> QED
    BY <1>2 DEF OneFileEach
<1>5. Apart(r, a) <=> /\ \A i, j \in DOMAIN r : i # j => Clear(r[i], r[j])
                      /\ \A i \in DOMAIN r : Clear(r[i], a)
  BY DEF Apart
<1> HIDE DEF d, n, Clear
<1>6. ASSUME \A i, j \in DOMAIN d : i # j => Clear(d[i], d[j])
      PROVE  /\ \A i, j \in DOMAIN r : i # j => Clear(r[i], r[j])
             /\ \A i \in DOMAIN r : Clear(r[i], a)
  <2>1. ASSUME NEW i \in 1..n
        PROVE  i \in 1..(n + 1) /\ i # n + 1 /\ n + 1 \in 1..(n + 1)
    BY <1>1
  <2>2. ASSUME NEW i \in DOMAIN r, NEW j \in DOMAIN r, i # j
        PROVE  Clear(r[i], r[j])
    <3>1. i \in DOMAIN d /\ j \in DOMAIN d /\ d[i] = r[i] /\ d[j] = r[j]
      BY <1>1, <2>1
    <3>2. Clear(d[i], d[j])
      BY <1>6, <2>2, <3>1
    <3> QED
      BY <3>1, <3>2
  <2>3. ASSUME NEW i \in DOMAIN r
        PROVE  Clear(r[i], a)
    <3>1. i \in DOMAIN d /\ n + 1 \in DOMAIN d /\ d[i] = r[i] /\ d[n + 1] = a
          /\ i # n + 1
      BY <1>1, <2>1
    <3>2. Clear(d[i], d[n + 1])
      BY <1>6, <3>1
    <3> QED
      BY <3>1, <3>2
  <2> QED
    BY <2>2, <2>3
<1>7. ASSUME \A i, j \in DOMAIN r : i # j => Clear(r[i], r[j]),
             \A i \in DOMAIN r : Clear(r[i], a)
      PROVE  \A i, j \in DOMAIN d : i # j => Clear(d[i], d[j])
  <2>1. ASSUME NEW i \in 1..(n + 1)
        PROVE  i \in 1..n \/ i = n + 1
    BY <1>1
  <2> QED
    BY <1>1, <1>3, <1>7, <2>1, SMTT(30)
<1>8. OneFileEach(d) <=> Apart(r, a)
  BY <1>4, <1>5, <1>6, <1>7
<1> QED
  BY <1>8 DEF d

\* What is in the batches that were handled, or in the files, does not change
\* in a step that writes nothing and moves no file.
LEMMA BatchesApart ==
    ASSUME TypeOK
    PROVE  BatchInOneFile <=> Apart(rotated, active)
<1>1. rotated \in Seq(Seq(Chunk)) /\ active \in Seq(Chunk)
  BY DEF TypeOK, WriterTypeOK
<1>2. BatchInOneFile <=> OneFileEach(Append(rotated, active))
  BY DEF BatchInOneFile, Disk, OneFileEach
<1> QED
  BY <1>1, <1>2, OneFileIsApart

\* BatchInOneFile, of the next state, in the words of the lemmas.
LEMMA BatchesApartNext ==
    ASSUME TypeOK'
    PROVE  Apart(rotated, active)' => BatchInOneFile'
<1>1. rotated' \in Seq(Seq(Chunk)) /\ active' \in Seq(Chunk)
  BY DEF TypeOK, WriterTypeOK
<1>2. BatchInOneFile' <=> OneFileEach(Append(rotated', active'))
  BY DEF BatchInOneFile, Disk, OneFileEach
<1>3. OneFileEach(Append(rotated', active')) <=> Apart(rotated', active')
  BY <1>1, OneFileIsApart
<1> QED
  BY <1>2, <1>3 DEF Apart

\* A write goes behind the lines of its own batch or of batches before it, and
\* no rotated file has a line of its own batch.
LEMMA WritingBatches ==
    ASSUME IInv, Writing
    PROVE  BatchInv' /\ BatchInOneFile'
<1> USE DEF IInv
<1>1. /\ base' = base /\ handled' = handled /\ batch' = batch
      /\ base \in Nat /\ Len(handled) \in Nat
      /\ Head(batch) = base + Len(handled) + 1
  BY WritingKeeps, BatchIsNext, CollectorAssumption DEF TypeOK, CollectorTypeOK
<1>2. rotated \in Seq(Seq(Chunk)) /\ active \in Seq(Chunk)
  BY DEF TypeOK, WriterTypeOK
<1>3. ~(Head(batch) <= base + Len(handled))
  BY <1>1
<1>4. Apart(rotated, active)
  BY BatchesApart
<1>5. TypeOK'
  BY WritingTypes
<1>6. ASSUME UNCHANGED <<active, rotated>>,
             wpc \in {"write", "return"} => wpc' \in {"write", "return"}
      PROVE  BatchInv' /\ BatchInOneFile'
  BY <1>1, <1>6 DEF BatchInv, BatchInOneFile, Disk
<1>7. CASE RotateClose \/ RenameFails \/ Open \/ OpenFails \/ WriteClosed
  BY <1>6, <1>7 DEF RotateClose, RenameFails, Open, OpenFails, WriteClosed,
                    ReturnError, diskVars
<1>8. CASE Rename
  <2> DEFINE n == Len(rotated)
             d == Append(rotated, active)
  <2>1. rotated' = d /\ active' = <<>> /\ wpc = "rename"
    BY <1>8 DEF Rename
  <2>2. /\ n \in Nat /\ DOMAIN rotated = 1..n /\ DOMAIN d = 1..(n + 1)
        /\ d[n + 1] = active /\ \A i \in 1..n : d[i] = rotated[i]
    BY <1>2
  <2>3. \A i \in 1..(n + 1) : i \in 1..n \/ i = n + 1
    BY <2>2
  <2>4. DOMAIN active' = {}
    BY <2>1
  <2>5. BatchInv'
    <3>1. ASSUME NEW i \in DOMAIN d, NEW k \in DOMAIN d[i]
          PROVE  d[i][k].of <= base + Len(handled)
      <4> HIDE DEF d, n
      <4>1. CASE i \in 1..n
        BY <2>2, <3>1, <4>1 DEF BatchInv
      <4>2. CASE i = n + 1
        BY <2>1, <2>2, <3>1, <4>2 DEF BatchInv
      <4> QED
        BY <2>2, <2>3, <3>1, <4>1, <4>2
    <3> HIDE DEF d
    <3> QED
      BY <1>1, <2>1, <2>4, <3>1 DEF BatchInv
  <2>6. BatchInOneFile'
    <3>1. OneFileEach(d)
      BY <1>2, <1>4, OneFileIsApart
    <3>2. \A i, j \in DOMAIN d : i # j =>
            \A k \in DOMAIN d[i], l \in DOMAIN d[j] : d[i][k].of # d[j][l].of
      <4> HIDE DEF d
      <4> QED
        BY <3>1 DEF OneFileEach, ToSet
    <3>3. Apart(rotated', active')
      <4> HIDE DEF d
      <4> QED
        BY <2>1, <2>4, <3>2 DEF Apart
    <3> QED
      BY <1>5, <3>3, BatchesApartNext DEF Apart
  <2> QED
    BY <2>5, <2>6
<1>9. CASE Retain \/ RetainFails
  <2> DEFINE n == Len(rotated)
  <2>1. PICK k \in 0..n : rotated' = SubSeq(rotated, k + 1, n)
    <3>1. CASE Retain
      BY <3>1, ExcessFacts DEF Retain, DropOldest
    <3>2. CASE RetainFails
      <4>1. PICK m \in 0..Excess : DropOldest(m)
        BY <3>2 DEF RetainFails
      <4>2. m \in 0..n
        BY ExcessFacts
      <4> QED
        BY <4>1, <4>2 DEF DropOldest
    <3> QED
      BY <1>9, <3>1, <3>2
  <2>2. active' = active /\ wpc = "retain" /\ n \in Nat /\ DOMAIN rotated = 1..n
    BY <1>2, <1>9 DEF Retain, RetainFails
  <2>3. /\ DOMAIN rotated' = 1..(n - k)
        /\ \A i \in 1..(n - k) : rotated'[i] = rotated[k + i] /\ k + i \in 1..n
    <3>1. /\ SubSeq(rotated, k + 1, n) \in Seq(Seq(Chunk))
          /\ Len(SubSeq(rotated, k + 1, n)) = n - k
          /\ \A i \in 1..(n - k) : SubSeq(rotated, k + 1, n)[i] = rotated[k + i]
      BY <1>2, DropFacts
    <3>2. \A i \in 1..(n - k) : k + i \in 1..n
      BY <2>2
    <3> HIDE DEF n
    <3> QED
      BY <2>1, <3>1, <3>2
  <2>4. \A i, j \in 1..(n - k) : i # j => k + i # k + j
    BY <2>2
  <2> HIDE DEF n
  <2>5. BatchInv'
    BY <1>1, <2>2, <2>3 DEF BatchInv
  <2>6. Apart(rotated', active')
    BY <1>4, <2>2, <2>3, <2>4 DEF Apart
  <2> QED
    BY <1>5, <2>5, <2>6, BatchesApartNext DEF Apart
<1>10. CASE WriteEntry \/ WriteFails
  <2>1. /\ rotated' = rotated /\ wpc = "write" /\ wpc' \in {"write", "return"}
        /\ \/ active' = active
           \/ \E c : c.of = Head(batch) /\ active' = Append(active, c)
    <3>1. CASE WriteEntry
      <4> DEFINE c == [entry |-> batch[written + 1], of |-> Head(batch), bytes |-> LineSize]
      <4>1. c.of = Head(batch) /\ active' = Append(active, c)
        BY <3>1 DEF WriteEntry
      <4>2. rotated' = rotated /\ wpc = "write" /\ wpc' \in {"write", "return"}
        BY <3>1 DEF WriteEntry, AfterWrite
      <4> HIDE DEF c
      <4> QED
        BY <4>1, <4>2
    <3>2. CASE WriteFails
      <4> DEFINE c(k) == [entry |-> batch[written + 1], of |-> Head(batch), bytes |-> k]
      <4>1. PICK k \in 0..(LineSize - 1) :
              active' = IF k = 0 THEN active ELSE Append(active, c(k))
        BY <3>2 DEF WriteFails
      <4>2. c(k).of = Head(batch)
        OBVIOUS
      <4>3. rotated' = rotated /\ wpc = "write" /\ wpc' \in {"write", "return"}
        BY <3>2 DEF WriteFails, ReturnError
      <4> HIDE DEF c
      <4> QED
        BY <4>1, <4>2, <4>3
    <3> QED
      BY <1>10, <3>1, <3>2
  <2>2. CASE active' = active
    BY <1>6, <2>1, <2>2
  <2>3. ASSUME NEW c, c.of = Head(batch), active' = Append(active, c)
        PROVE  BatchInv' /\ BatchInOneFile'
    <3> DEFINE n == Len(active)
    <3>1. /\ n \in Nat /\ DOMAIN active = 1..n /\ DOMAIN active' = 1..(n + 1)
          /\ active'[n + 1] = c /\ \A i \in 1..n : active'[i] = active[i]
      BY <1>2, <2>3
    <3>2. \A i \in 1..(n + 1) : i \in 1..n \/ i = n + 1
      BY <3>1
    <3> HIDE DEF n
    <3>3. BatchInv'
      BY <1>1, <2>1, <2>3, <3>1, <3>2 DEF BatchInv
    <3>4. \A i \in DOMAIN rotated : \A k \in DOMAIN rotated[i] :
            rotated[i][k].of # Head(batch)
      BY <1>3 DEF BatchInv
    <3>5. Apart(rotated', active')
      BY <1>4, <2>1, <2>3, <3>1, <3>2, <3>4 DEF Apart
    <3> QED
      BY <1>5, <3>3, <3>5, BatchesApartNext DEF Apart
  <2> QED
    BY <2>1, <2>2, <2>3
<1> QED
  BY <1>7, <1>8, <1>9, <1>10 DEF Writing, WriterStep

\* The steps of a Flush that touch files keep the invariant.
LEMMA WritingStep ==
    ASSUME IInv, Writing
    PROVE  IInv'
BY WritingTypes, WritingCollector, WritingCalls, WritingCounts, WritingSizes,
   WritingBatches, WritingRetention DEF IInv

-----------------------------------------------------------------------------
(* The end of a Flush, and of the process *)

\* A Flush returns: its batch is handled, and what it wrote is counted.
LEMMA ReportStep ==
    ASSUME IInv, Report
    PROVE  IInv'
<1> USE DEF IInv
<1>1. /\ wpc = "return" /\ wpc' = "idle" /\ batch' = <<>> /\ written' = 0
      /\ totalBytes' = 0 /\ failed' = FALSE
      /\ ioErrors' = (IF failed THEN ioErrors + 1 ELSE ioErrors)
      /\ ingested' = ingested \o SubSeq(batch, 1, written)
      /\ handled' = handled \o batch
      /\ UNCHANGED <<file, currentBytes, avgEntrySize, old, active, rotated, faults,
                     persisted, base, former, restarts>>
  BY DEF Report, Persisted, fileVars, diskVars
<1>2. /\ batch \in Seq(Nat) /\ batch # <<>> /\ Len(batch) >= 1
      /\ Head(batch) = base + Len(handled) + 1
      /\ Len(handled) + Len(batch) <= sent - base
  BY <1>1, BatchIsNext
<1>3. /\ handled \in Seq(Nat) /\ flushBatch \in Seq(Nat)
      /\ activeBatch \in Seq(Nat) /\ input \in Seq(Nat)
  BY Lengths
<1>4. /\ handled' \in Seq(Nat) /\ Len(handled') = Len(handled) + Len(batch)
      /\ Len(handled) \in Nat /\ Len(batch) \in Nat
  BY <1>1, <1>2, <1>3
<1>5. \/ flusher = "flush" /\ batch = flushBatch /\ cpc # "final" /\ AsyncFlushed
      \/ cpc = "final" /\ batch = activeBatch /\ flushBatch = <<>>
         /\ flusher = "none" /\ FinalFlushed
  <2>1. cpc = "final" => flusher = "none" /\ flushBatch = <<>>
    BY DEF FlushInv
  <2>2. IF cpc = "final" THEN FinalFlushed ELSE AsyncFlushed
    BY DEF Report
  <2>3. \/ flusher = "flush" /\ batch = flushBatch
        \/ cpc = "final" /\ batch = activeBatch
    BY <1>1 DEF CallInv
  <2> QED
    BY <2>1, <2>2, <2>3
<1>6. /\ UNCHANGED <<sent, input, inputOpen, flushing, flushWg, flushBacklog>>
      /\ \/ flusher = "flush" /\ flusher' = "clear" /\ flushBatch' = <<>>
            /\ batch = flushBatch /\ UNCHANGED <<cpc, activeBatch>> /\ cpc # "final"
         \/ cpc = "final" /\ cpc' = "returned" /\ activeBatch' = <<>>
            /\ batch = activeBatch /\ flushBatch = <<>>
            /\ flusher = "none" /\ UNCHANGED <<flusher, flushBatch>>
  BY <1>5 DEF AsyncFlushed, FinalFlushed
<1>e. ASSUME NEW s, s = <<>>, NEW T
      PROVE  s \in Seq(T) /\ Len(s) = 0
  BY <1>e
<1>7. CollectorTypeOK'
  <2>1. flushBatch' \in Seq(1..MaxEntries) /\ activeBatch' \in Seq(1..MaxEntries)
    BY <1>6, <1>e DEF TypeOK, CollectorTypeOK
  <2> QED
    BY <1>6, <2>1 DEF TypeOK, CollectorTypeOK
<1>8. WriterTypeOK'
  <2>1. batch' \in Seq(Nat) /\ written' \in 0..Len(batch')
    BY <1>1, <1>e
  <2> QED
    BY <1>1, <2>1 DEF TypeOK, WriterTypeOK
<1>9. ioErrors' \in Nat /\ ioErrors' <= Len(handled')
  <2>1. ioErrors \in Nat /\ ioErrors <= Len(handled)
    BY DEF CountInv, TypeOK
  <2>2. ioErrors' = ioErrors \/ ioErrors' = ioErrors + 1
    BY <1>1
  <2> QED
    BY <1>2, <1>4, <2>1, <2>2
<1>10. SubSeq(batch, 1, written) \in Seq(Nat) /\ ingested \in Seq(Nat)
  <2>1. written \in 0..Len(batch)
    BY DEF TypeOK, WriterTypeOK
  <2>2. ASSUME NEW s \in Seq(Nat), NEW k \in 0..Len(s)
        PROVE  SubSeq(s, 1, k) \in Seq(Nat)
    OBVIOUS
  <2>3. SubSeq(batch, 1, written) \in Seq(Nat)
    BY <1>2, <2>1, <2>2
  <2> QED
    BY <2>3 DEF TypeOK
<1>11. TypeOK'
  <2>1. ioErrors' \in 0..MaxEntries
    <3>1. sent - base \in Nat /\ sent - base <= MaxEntries
      BY Lengths
    <3> QED
      BY <1>2, <1>4, <1>9, <3>1, CollectorAssumption
  <2>2. ingested' \in Seq(Nat)
    BY <1>1, <1>10
  <2> QED
    BY <1>1, <1>4, <1>6, <1>7, <1>8, <2>1, <2>2 DEF TypeOK
<1>12. FlushInv'
  <2>1. flushWg' <= Len(handled') + (IF flusher' = "flush" THEN 1 ELSE 0)
    <3>1. flushWg <= Len(handled) + (IF flusher = "flush" THEN 1 ELSE 0)
          /\ flushWg \in Nat
      BY DEF FlushInv, TypeOK, CollectorTypeOK
    <3>2. flushWg <= Len(handled) + 1
      BY <1>4, <3>1
    <3>3. flusher' # "flush" /\ flushWg' = flushWg
      BY <1>6
    <3> QED
      BY <1>2, <1>4, <3>1, <3>2, <3>3
  <2> QED
    BY <1>6, <2>1 DEF FlushInv
<1>13. InOrderNoLoss'
  <2>1. CASE flushBatch' = <<>> /\ batch = flushBatch /\ activeBatch' = activeBatch
    <3>1. handled' \o flushBatch' = handled'
      BY <1>4, <2>1
    <3>2. handled' \o flushBatch' \o activeBatch' \o input'
            = handled \o flushBatch \o activeBatch \o input
      BY <1>1, <1>6, <2>1, <3>1
    <3> QED
      BY <1>1, <1>6, <3>2 DEF InOrderNoLoss
  <2>2. CASE flushBatch' = <<>> /\ flushBatch = <<>> /\ batch = activeBatch
             /\ activeBatch' = <<>>
    <3>1. handled' \o flushBatch' \o activeBatch' = handled'
      BY <1>4, <2>2
    <3>2. handled \o flushBatch = handled
      BY <1>3, <2>2
    <3>3. handled' \o flushBatch' \o activeBatch' \o input'
            = handled \o flushBatch \o activeBatch \o input
      BY <1>1, <1>6, <2>2, <3>1, <3>2
    <3> QED
      BY <1>1, <1>6, <3>3 DEF InOrderNoLoss
  <2> QED
    BY <1>6, <2>1, <2>2
<1>14. CallInv'
  BY <1>1 DEF CallInv
<1>15. CountInv'
  <2>1. SubSeq(batch', 1, written') = <<>>
    BY <1>1
  <2>2. SubSeq(persisted, former + 1, Len(persisted)) = ingested'
    BY <1>1 DEF CountInv
  <2>3. ingested' \o SubSeq(batch', 1, written') = ingested'
    <3>1. ingested' \in Seq(Nat)
      BY <1>11 DEF TypeOK
    <3>2. ASSUME NEW s \in Seq(Nat), NEW e, e = <<>>
          PROVE  s \o e = s
      BY <3>2
    <3> QED
      BY <2>1, <3>1, <3>2
  <2>4. ioErrors' = 0 => ingested' = handled'
    <3> SUFFICES ASSUME ioErrors' = 0 PROVE ingested' = handled'
      OBVIOUS
    <3>1. ioErrors \in Nat
      BY DEF TypeOK
    <3>2. ~failed /\ ioErrors = 0
      BY <1>1, <3>1
    <3>3. written = Len(batch) /\ ingested = handled
      BY <1>1, <3>2 DEF CallInv, CountInv
    <3>4. SubSeq(batch, 1, written) = batch
      BY <1>2, <3>3
    <3> QED
      BY <1>1, <3>3, <3>4
  <2> QED
    BY <1>1, <1>9, <2>2, <2>3, <2>4 DEF CountInv
<1>16. SizeInv'
  BY <1>1 DEF SizeInv
<1>17. BatchInv' /\ BatchInOneFile'
  <2>1. rotated \in Seq(Seq(Chunk)) /\ active \in Seq(Chunk)
    BY DEF TypeOK, WriterTypeOK
  <2>2. base + Len(handled) <= base + Len(handled')
        /\ Head(batch) <= base + Len(handled') /\ base + Len(handled) \in Nat
        /\ base + Len(handled') \in Nat
    <3> DEFINE m == Len(handled')
               k == Len(handled)
               h == Head(batch)
               l == Len(batch)
    <3>1. /\ base \in Nat /\ k \in Nat /\ l \in Nat /\ l >= 1 /\ m = k + l
          /\ h = base + k + 1
      BY <1>2, <1>4, CollectorAssumption DEF TypeOK, CollectorTypeOK
    <3> HIDE DEF m, k, h, l
    <3>2. base + k <= base + m /\ h <= base + m /\ base + k \in Nat /\ base + m \in Nat
      BY <3>1
    <3> QED
      BY <3>2 DEF m, k, h
  <2>3. ASSUME NEW c \in Chunk, c.of <= base + Len(handled)
        PROVE  c.of <= base + Len(handled')
    <3>1. c.of \in Nat
      BY DEF Chunk
    <3> QED
      BY <2>2, <2>3, <3>1
  <2>4. \A i \in DOMAIN rotated : \A k \in DOMAIN rotated[i] :
          rotated[i][k].of <= base + Len(handled')
    <3>1. \A i \in DOMAIN rotated : \A k \in DOMAIN rotated[i] : rotated[i][k] \in Chunk
      BY <2>1
    <3> QED
      BY <2>3, <3>1 DEF BatchInv
  <2>5. \A k \in DOMAIN active : active[k].of <= base + Len(handled')
    <3>1. \A k \in DOMAIN active : active[k] \in Chunk
      BY <2>1
    <3> QED
      BY <2>2, <2>3, <3>1 DEF BatchInv
  <2>6. BatchInv'
    BY <1>1, <2>4, <2>5 DEF BatchInv
  <2> QED
    BY <1>1, <2>6 DEF BatchInOneFile, Disk
<1>18. RetentionInv'
  BY <1>1 DEF RetentionInv
<1> QED
  BY <1>11, <1>12, <1>13, <1>14, <1>15, <1>16, <1>17, <1>18

\* A new process takes over what is on disk, and nothing else.
LEMMA RestartStep ==
    ASSUME IInv, Restart
    PROVE  IInv'
<1> USE DEF IInv
<1>1. /\ wpc' = "idle" /\ batch' = <<>> /\ written' = 0 /\ totalBytes' = 0
      /\ failed' = FALSE /\ file' = TRUE /\ currentBytes' = Size(active)
      /\ avgEntrySize' = InitialAvg /\ old' \in BOOLEAN
      /\ UNCHANGED <<active, rotated, faults, sent, persisted>>
      /\ input' = <<>> /\ inputOpen' = TRUE /\ cpc' = "select"
      /\ activeBatch' = <<>> /\ flushBatch' = <<>>
      /\ flushing' = FALSE /\ flusher' = "none" /\ flushWg' = 0 /\ flushBacklog' = 0
      /\ ingested' = <<>> /\ ioErrors' = 0 /\ handled' = <<>>
      /\ base' = sent /\ former' = Len(persisted)
      /\ restarts < MaxRestarts /\ restarts' = restarts + 1
  BY DEF Restart, Reopen, CollectorRestart
<1>2. /\ sent \in Nat /\ sent \in 0..MaxEntries /\ base \in Nat /\ base <= sent
      /\ rotated \in Seq(Seq(Chunk)) /\ active \in Seq(Chunk)
      /\ persisted \in Seq(Nat) /\ restarts \in 0..MaxRestarts
  BY CollectorAssumption DEF TypeOK, CollectorTypeOK, WriterTypeOK
<1>e. ASSUME NEW s, s = <<>>, NEW T
      PROVE  s \in Seq(T) /\ Len(s) = 0
  BY <1>e
<1>3. TypeOK'
  <2>1. CollectorTypeOK'
    <3>1. 0 \in 0..MaxEntries /\ 0 <= InputCap
      BY CollectorAssumption
    <3> QED
      BY <1>1, <1>2, <1>e, <3>1 DEF CollectorTypeOK
  <2>2. WriterTypeOK'
    <3>1. Size(active) \in Nat /\ InitialAvg \in Nat \ {0} /\ faults \in 0..MaxFaults
      BY <1>2, SizeFacts, WriterAssumption DEF TypeOK, WriterTypeOK
    <3>2. 0 \in 0..Len(batch')
      BY <1>1, <1>e
    <3> QED
      BY <1>1, <1>2, <1>e, <3>1, <3>2 DEF WriterTypeOK
  <2>3. base' \in 0..sent' /\ former' \in 0..Len(persisted')
    BY <1>1, <1>2
  <2>4. restarts' \in 0..MaxRestarts
    BY <1>1, <1>2, RestartsAssumption
  <2>5. ioErrors' \in 0..MaxEntries
    BY <1>1, CollectorAssumption
  <2> QED
    BY <1>1, <1>2, <1>e, <2>1, <2>2, <2>3, <2>4, <2>5 DEF TypeOK
<1>4. FlushInv' /\ CallInv'
  <2>1. flushWg' <= Len(handled') + (IF flusher' = "flush" THEN 1 ELSE 0)
    BY <1>1, <1>e
  <2> QED
    BY <1>1, <2>1 DEF FlushInv, CallInv
<1>5. InOrderNoLoss'
  <2>1. sent' - base' = 0 /\ 1..(sent' - base') = {}
    BY <1>1, <1>2
  <2> QED
    BY <1>1, <2>1 DEF InOrderNoLoss
<1>6. CountInv'
  <2>1. SubSeq(persisted, Len(persisted) + 1, Len(persisted)) = <<>>
    BY <1>2
  <2>2. ingested' \o SubSeq(batch', 1, written') = <<>>
    BY <1>1
  <2>3. ioErrors' <= Len(handled')
    BY <1>1, <1>e
  <2> QED
    BY <1>1, <2>1, <2>2, <2>3 DEF CountInv
<1>7. SizeInv'
  BY <1>1 DEF SizeInv
<1>8. BatchInv' /\ BatchInOneFile'
  <2>1. Len(handled') = 0 /\ base' + Len(handled') = sent
    BY <1>1, <1>2, <1>e
  <2>2. base + Len(handled) \in Nat /\ base + Len(handled) <= sent
    <3>1. /\ Len(handled) \in Nat /\ Len(flushBatch) \in Nat
          /\ Len(activeBatch) \in Nat /\ Len(input) \in Nat
          /\ Len(handled) + Len(flushBatch) + Len(activeBatch) + Len(input)
               = sent - base
      BY Lengths
    <3> QED
      BY <1>2, <3>1
  <2>3. wpc # "idle" => Head(batch) <= sent /\ Head(batch) \in Nat
    <3> SUFFICES ASSUME wpc # "idle" PROVE Head(batch) <= sent /\ Head(batch) \in Nat
      OBVIOUS
    <3> DEFINE k == Len(handled)
               l == Len(batch)
               h == Head(batch)
    <3>1. k \in Nat /\ l \in Nat /\ l >= 1 /\ h = base + k + 1 /\ k + l <= sent - base
      BY BatchIsNext, Lengths
    <3> HIDE DEF k, l, h
    <3>2. h <= sent /\ h \in Nat
      BY <1>2, <3>1
    <3> QED
      BY <3>2 DEF h
  <2>4. ASSUME NEW c \in Chunk, c.of <= base + Len(handled)
        PROVE  c.of <= sent
    <3>1. c.of \in Nat
      BY DEF Chunk
    <3> QED
      BY <1>2, <2>2, <2>4, <3>1
  <2>5. \A i \in DOMAIN rotated : \A k \in DOMAIN rotated[i] : rotated[i][k].of <= sent
    <3>1. \A i \in DOMAIN rotated : \A k \in DOMAIN rotated[i] : rotated[i][k] \in Chunk
      BY <1>2
    <3> QED
      BY <2>4, <3>1 DEF BatchInv
  <2>6. \A k \in DOMAIN active : active[k].of <= sent
    <3>1. \A k \in DOMAIN active : active[k] \in Chunk
      BY <1>2
    <3> QED
      BY <2>3, <2>4, <3>1 DEF BatchInv
  <2>7. BatchInv'
    BY <1>1, <2>1, <2>5, <2>6 DEF BatchInv
  <2> QED
    BY <1>1, <2>7 DEF BatchInOneFile, Disk
<1>9. RetentionInv'
  <2>1. /\ Len(rotated) \in Nat /\ MaxFiles \in Nat /\ faults \in Nat /\ restarts \in Nat
    BY ExcessFacts
  <2>2. Len(rotated) <= MaxFiles + faults + restarts
                         + (IF wpc \in {"open", "retain"} THEN 1 ELSE 0)
    BY DEF RetentionInv
  <2>3. (IF wpc \in {"open", "retain"} THEN 1 ELSE 0) \in 0..1
    OBVIOUS
  <2>4. Len(rotated) <= MaxFiles + faults + (restarts + 1)
    BY <2>1, <2>2, <2>3
  <2> QED
    BY <1>1, <2>1, <2>4, NoneMore
<1> QED
  BY <1>3, <1>4, <1>5, <1>6, <1>7, <1>8, <1>9

\* Nothing changes.
LEMMA Stutter ==
    ASSUME IInv, UNCHANGED vars
    PROVE  IInv'
<1> USE DEF IInv, vars, collectorVars, writerVars, deliveryVars, flushVars, fileVars,
            diskVars
<1>1. TypeOK'
  BY DEF TypeOK, CollectorTypeOK, WriterTypeOK
<1>2. FlushInv' /\ CallInv'
  BY DEF FlushInv, CallInv
<1>3. InOrderNoLoss'
  BY DEF InOrderNoLoss
<1>4. CountInv'
  BY DEF CountInv
<1>5. SizeInv' /\ RetentionInv'
  BY DEF SizeInv, RetentionInv
<1>6. BatchInv' /\ BatchInOneFile'
  BY DEF BatchInv, BatchInOneFile, Disk
<1> QED
  BY <1>1, <1>2, <1>3, <1>4, <1>5, <1>6

-----------------------------------------------------------------------------
(* What the files hold *)

\* The files that have been rotated away from, read one after the other.
RotatedEntries(r) == FlattenSeq([i \in DOMAIN r |-> EntriesIn(r[i])])

\* What is read of the files: the rotated ones first, the active one last.
Read(r, a) == RotatedEntries(r) \o EntriesIn(a)

\* What was written and has been forgotten came before what the files hold.
EndInv ==
    \E gone \in Seq(Nat) : persisted = gone \o OnDisk

\* A file is read entry by entry.
LEMMA EntriesFacts ==
    /\ EntriesIn(<<>>) = <<>>
    /\ \A f \in Seq(Chunk) : EntriesIn(f) \in Seq(Nat)
    /\ \A f \in Seq(Chunk), c \in Chunk :
         EntriesIn(Append(f, c)) = EntriesIn(f) \o Entry(c)
<1>1. ASSUME NEW c \in Chunk PROVE Entry(c) \in Seq(Nat)
  BY DEF Entry, Chunk
<1>2. ASSUME NEW f \in Seq(Chunk)
      PROVE  /\ [i \in DOMAIN f |-> Entry(f[i])] \in Seq(Seq(Nat))
             /\ EntriesIn(f) \in Seq(Nat)
  <2> DEFINE s == [i \in DOMAIN f |-> Entry(f[i])]
  <2>1. \A i \in 1..Len(f) : Entry(f[i]) \in Seq(Nat)
    BY <1>1
  <2>2. s \in Seq(Seq(Nat))
    BY <2>1
  <2> QED
    BY <2>2, FlattenType DEF EntriesIn
<1>3. ASSUME NEW f \in Seq(Chunk), NEW c \in Chunk
      PROVE  EntriesIn(Append(f, c)) = EntriesIn(f) \o Entry(c)
  <2> DEFINE g == Append(f, c)
             s == [i \in DOMAIN f |-> Entry(f[i])]
             t == [i \in DOMAIN g |-> Entry(g[i])]
             e == Entry(c)
  <2>1. /\ g \in Seq(Chunk) /\ Len(g) = Len(f) + 1 /\ Len(f) \in Nat
        /\ g[Len(f) + 1] = c /\ \A i \in 1..Len(f) : g[i] = f[i]
    OBVIOUS
  <2>2. s \in Seq(Seq(Nat)) /\ t \in Seq(Seq(Nat)) /\ e \in Seq(Nat)
    BY <1>1, <1>2, <2>1
  <2>3. Append(s, e) = t
    <3>1. Append(s, e) \in Seq(Seq(Nat)) /\ Len(Append(s, e)) = Len(t)
      BY <2>1, <2>2
    <3>2. \A i \in 1..Len(t) : Append(s, e)[i] = t[i]
      BY <2>1, <2>2
    <3> HIDE DEF s, t, e
    <3> QED
      BY <2>2, <3>1, <3>2, SeqEqual
  <2> HIDE DEF s, t, e, g
  <2>4. FlattenSeq(Append(s, e)) = FlattenSeq(s) \o e
    BY <2>2, FlattenAppend
  <2> QED
    BY <2>3, <2>4 DEF EntriesIn, s, t, e, g
<1>4. EntriesIn(<<>>) = <<>>
  <2>1. [i \in DOMAIN <<>> |-> Entry(<<>>[i])] = <<>>
    OBVIOUS
  <2> QED
    BY <2>1 DEF EntriesIn, FlattenSeq
<1> QED
  BY <1>2, <1>3, <1>4

\* The files are read one after the other, the active one last.
LEMMA RotatedFacts ==
    /\ \A r \in Seq(Seq(Chunk)) : RotatedEntries(r) \in Seq(Nat)
    /\ \A r \in Seq(Seq(Chunk)), f \in Seq(Chunk) :
         RotatedEntries(Append(r, f)) = RotatedEntries(r) \o EntriesIn(f)
    /\ OnDisk = RotatedEntries(Disk)
<1>1. ASSUME NEW r \in Seq(Seq(Chunk))
      PROVE  /\ [i \in DOMAIN r |-> EntriesIn(r[i])] \in Seq(Seq(Nat))
             /\ RotatedEntries(r) \in Seq(Nat)
  <2> DEFINE s == [i \in DOMAIN r |-> EntriesIn(r[i])]
  <2>1. \A i \in 1..Len(r) : EntriesIn(r[i]) \in Seq(Nat)
    BY EntriesFacts
  <2>2. s \in Seq(Seq(Nat))
    BY <2>1
  <2> QED
    BY <2>2, FlattenType DEF RotatedEntries
<1>2. ASSUME NEW r \in Seq(Seq(Chunk)), NEW f \in Seq(Chunk)
      PROVE  RotatedEntries(Append(r, f)) = RotatedEntries(r) \o EntriesIn(f)
  <2> DEFINE g == Append(r, f)
             s == [i \in DOMAIN r |-> EntriesIn(r[i])]
             t == [i \in DOMAIN g |-> EntriesIn(g[i])]
             e == EntriesIn(f)
  <2>1. /\ g \in Seq(Seq(Chunk)) /\ Len(g) = Len(r) + 1 /\ Len(r) \in Nat
        /\ g[Len(r) + 1] = f /\ \A i \in 1..Len(r) : g[i] = r[i]
    OBVIOUS
  <2>2. s \in Seq(Seq(Nat)) /\ t \in Seq(Seq(Nat)) /\ e \in Seq(Nat)
    BY <1>1, <2>1, EntriesFacts
  <2>3. Append(s, e) = t
    <3>1. Append(s, e) \in Seq(Seq(Nat)) /\ Len(Append(s, e)) = Len(t)
      BY <2>1, <2>2
    <3>2. \A i \in 1..Len(t) : Append(s, e)[i] = t[i]
      BY <2>1, <2>2
    <3> HIDE DEF s, t, e
    <3> QED
      BY <2>2, <3>1, <3>2, SeqEqual
  <2> HIDE DEF s, t, e, g
  <2>4. FlattenSeq(Append(s, e)) = FlattenSeq(s) \o e
    BY <2>2, FlattenAppend
  <2> QED
    BY <2>3, <2>4 DEF RotatedEntries, s, t, e, g
<1> QED
  BY <1>1, <1>2 DEF OnDisk, RotatedEntries

\* Without the oldest files, the rest is the end of what they all hold.
LEMMA OldestGone ==
    ASSUME NEW r \in Seq(Seq(Chunk)), NEW k \in 0..Len(r)
    PROVE  \E u \in Seq(Nat) :
             RotatedEntries(r) = u \o RotatedEntries(SubSeq(r, k + 1, Len(r)))
<1> DEFINE n == Len(r)
           q == SubSeq(r, k + 1, n)
           s == [i \in DOMAIN r |-> EntriesIn(r[i])]
           t == [i \in DOMAIN q |-> EntriesIn(q[i])]
           v == SubSeq(s, k + 1, n)
<1>1. /\ n \in Nat /\ k \in 0..n /\ DOMAIN r = 1..n
      /\ \A i \in 1..n : r[i] \in Seq(Chunk)
  OBVIOUS
<1> HIDE DEF n
<1>2. s \in Seq(Seq(Nat)) /\ Len(s) = n /\ \A i \in 1..n : s[i] = EntriesIn(r[i])
  <2>1. \A i \in 1..n : EntriesIn(r[i]) \in Seq(Nat)
    BY <1>1, EntriesFacts
  <2> QED
    BY <1>1, <2>1
<1>3. /\ k + 1 \in Int /\ n \in Int /\ n - k \in Nat
      /\ n - (k + 1) + 1 = n - k
      /\ (IF k + 1 <= n THEN n - (k + 1) + 1 ELSE 0) = n - k
      /\ \A i \in (k + 1)..n : i \in 1..n
      /\ \A i \in 1..(n - k) : k + 1 + i - 1 \in 1..n
  BY <1>1
<1>4. /\ q \in Seq(Seq(Chunk)) /\ Len(q) = n - k
      /\ \A i \in 1..(n - k) : q[i] = r[k + 1 + i - 1]
  <2>1. \A i \in (k + 1)..n : r[i] \in Seq(Chunk)
    BY <1>1, <1>3
  <2>2. /\ q \in Seq(Seq(Chunk))
        /\ Len(q) = IF k + 1 <= n THEN n - (k + 1) + 1 ELSE 0
        /\ \A i \in 1..(n - (k + 1) + 1) : q[i] = r[k + 1 + i - 1]
    BY <1>3, <2>1, SubSeqProperties
  <2> HIDE DEF q
  <2> QED
    BY <1>3, <2>2
<1>5. /\ v \in Seq(Seq(Nat)) /\ Len(v) = n - k
      /\ \A i \in 1..(n - k) : v[i] = s[k + 1 + i - 1]
  <2> HIDE DEF s
  <2>0. \A i \in 1..n : s[i] \in Seq(Nat)
    BY <1>2
  <2>1. \A i \in (k + 1)..n : s[i] \in Seq(Nat)
    BY <1>3, <2>0
  <2>2. /\ v \in Seq(Seq(Nat))
        /\ Len(v) = IF k + 1 <= n THEN n - (k + 1) + 1 ELSE 0
        /\ \A i \in 1..(n - (k + 1) + 1) : v[i] = s[k + 1 + i - 1]
    BY <1>3, <2>1, SubSeqProperties
  <2> HIDE DEF v
  <2> QED
    BY <1>3, <2>2
<1>6. v = t
  <2>1. /\ t \in Seq(Seq(Nat)) /\ Len(t) = n - k
        /\ \A i \in 1..(n - k) : t[i] = EntriesIn(q[i])
    <3> HIDE DEF q
    <3>2. DOMAIN q = 1..(n - k)
      BY <1>4
    <3>3. \A i \in 1..(n - k) : q[i] \in Seq(Chunk)
      BY <1>4, <3>2
    <3>1. \A i \in 1..(n - k) : EntriesIn(q[i]) \in Seq(Nat)
      BY <3>3, EntriesFacts
    <3> QED
      BY <1>3, <3>1, <3>2
  <2>2. ASSUME NEW i \in 1..(n - k) PROVE v[i] = t[i]
    <3>1. k + 1 + i - 1 \in 1..n
      BY <1>3
    <3> HIDE DEF v, t, s, q
    <3> QED
      BY <1>2, <1>4, <1>5, <2>1, <3>1
  <2> HIDE DEF v, t, s, q
  <2> QED
    BY <1>5, <2>1, <2>2, SeqEqual
<1>7. \E u \in Seq(Nat) : FlattenSeq(s) = u \o FlattenSeq(v)
  <2> HIDE DEF s
  <2>1. s \in Seq(Seq(Nat)) /\ k \in 0..Len(s) /\ v = SubSeq(s, k + 1, Len(s))
    BY <1>1, <1>2
  <2> HIDE DEF v
  <2> QED
    BY <2>1, FlattenEnd
<1> HIDE DEF s, t, v, q
<1> QED
  BY <1>6, <1>7 DEF RotatedEntries, s, t, q, n

\* What is read consists of entries.
LEMMA ReadType ==
    ASSUME NEW r \in Seq(Seq(Chunk)), NEW a \in Seq(Chunk)
    PROVE  /\ RotatedEntries(r) \in Seq(Nat) /\ EntriesIn(a) \in Seq(Nat)
           /\ Read(r, a) \in Seq(Nat)
<1>1. RotatedEntries(r) \in Seq(Nat) /\ EntriesIn(a) \in Seq(Nat)
  BY RotatedFacts, EntriesFacts
<1> QED
  BY <1>1, ConcatProperties DEF Read

\* Before and after a step.
LEMMA OnDiskIs ==
    /\ rotated \in Seq(Seq(Chunk)) /\ active \in Seq(Chunk) =>
         OnDisk = Read(rotated, active)
    /\ rotated' \in Seq(Seq(Chunk)) /\ active' \in Seq(Chunk) =>
         OnDisk' = Read(rotated', active')
<1>1. ASSUME rotated \in Seq(Seq(Chunk)), active \in Seq(Chunk)
      PROVE  OnDisk = Read(rotated, active)
  <2>1. OnDisk = RotatedEntries(Append(rotated, active))
    BY DEF OnDisk, Disk, RotatedEntries
  <2> QED
    BY <1>1, <2>1, RotatedFacts DEF Read
<1>2. ASSUME rotated' \in Seq(Seq(Chunk)), active' \in Seq(Chunk)
      PROVE  OnDisk' = Read(rotated', active')
  <2>1. OnDisk' = RotatedEntries(Append(rotated', active'))
    BY DEF OnDisk, Disk, RotatedEntries
  <2> QED
    BY <1>2, <2>1, RotatedFacts DEF Read
<1> QED
  BY <1>1, <1>2

\* The file that is renamed stays the newest.
LEMMA ReadRenamed ==
    ASSUME NEW r \in Seq(Seq(Chunk)), NEW a \in Seq(Chunk)
    PROVE  Read(Append(r, a), <<>>) = Read(r, a)
<1>1. RotatedEntries(Append(r, a)) = Read(r, a) /\ EntriesIn(<<>>) = <<>>
  BY RotatedFacts, EntriesFacts DEF Read
<1>2. Read(r, a) \in Seq(Nat)
  BY ReadType
<1>3. Read(r, a) \o <<>> = Read(r, a)
  BY <1>2, ConcatEmptySeq
<1> QED
  BY <1>1, <1>3 DEF Read

\* A line that is whole is an entry more at the end, one that is torn is none.
LEMMA ReadWritten ==
    ASSUME NEW r \in Seq(Seq(Chunk)), NEW a \in Seq(Chunk), NEW c \in Chunk
    PROVE  Read(r, Append(a, c)) = Read(r, a) \o Entry(c)
<1> DEFINE w == RotatedEntries(r)
           f == EntriesIn(a)
           e == Entry(c)
<1>1. w \in Seq(Nat) /\ f \in Seq(Nat)
  BY ReadType
<1>2. e \in Seq(Nat)
  BY DEF Entry, Chunk
<1>3. Read(r, Append(a, c)) = w \o (f \o e) /\ Read(r, a) = w \o f
  BY EntriesFacts DEF Read
<1> HIDE DEF w, f, e
<1>4. (w \o f) \o e = w \o (f \o e)
  BY ONLY <1>1, <1>2, Associates
<1> QED
  BY <1>3, <1>4 DEF e

\* Retention removes files from the beginning.
LEMMA ReadRetained ==
    ASSUME NEW r \in Seq(Seq(Chunk)), NEW a \in Seq(Chunk), NEW k \in 0..Len(r)
    PROVE  \E u \in Seq(Nat) : Read(r, a) = u \o Read(SubSeq(r, k + 1, Len(r)), a)
<1> DEFINE q == SubSeq(r, k + 1, Len(r))
           v == RotatedEntries(q)
           f == EntriesIn(a)
<1>1. PICK u \in Seq(Nat) : RotatedEntries(r) = u \o v
  BY OldestGone
<1>2. q \in Seq(Seq(Chunk))
  BY DropFacts
<1>3. v \in Seq(Nat) /\ f \in Seq(Nat)
  <2> HIDE DEF q
  <2> QED
    BY <1>2, ReadType
<1>4. Read(r, a) = (u \o v) \o f /\ Read(q, a) = v \o f
  BY <1>1 DEF Read
<1> HIDE DEF q, v, f
<1>5. u \in Seq(Nat)
  OBVIOUS
<1>6. (u \o v) \o f = u \o (v \o f)
  BY ONLY <1>3, <1>5, Associates
<1> QED
  BY <1>4, <1>6 DEF q

\* The first process begins with an empty file.
LEMMA InitDisk == Init => OnDisk = <<>>
<1> SUFFICES ASSUME Init PROVE OnDisk = <<>>
  OBVIOUS
<1>1. /\ rotated = <<>> /\ active = <<>>
      /\ rotated \in Seq(Seq(Chunk)) /\ active \in Seq(Chunk)
  BY DEF Init, WriterInit
<1>2. OnDisk = Read(<<>>, <<>>)
  BY <1>1, OnDiskIs
<1>3. RotatedEntries(<<>>) = <<>> /\ EntriesIn(<<>>) = <<>>
  BY EntriesFacts DEF RotatedEntries, FlattenSeq
<1>4. <<>> \o <<>> = <<>>
  OBVIOUS
<1> QED
  BY <1>2, <1>3, <1>4 DEF Read

\* Nothing on disk changes.
LEMMA SameDisk ==
    ASSUME UNCHANGED <<rotated, active>>
    PROVE  OnDisk' = OnDisk
BY DEF OnDisk, Disk

\* An operation of a Flush writes the next entry of its batch to the end of
\* what can be read, or takes something from the beginning, mostly nothing.
LEMMA WritingDisk ==
    ASSUME IInv, IInv', Writing
    PROVE  /\ OnDisk \in Seq(Nat) /\ OnDisk' \in Seq(Nat)
           /\ \/ /\ wpc = "write" /\ written' = written + 1
                 /\ persisted' = Append(persisted, batch[written + 1])
                 /\ OnDisk' = Append(OnDisk, batch[written + 1])
              \/ /\ UNCHANGED <<written, persisted>>
                 /\ \E u \in Seq(Nat) : OnDisk = u \o OnDisk'
<1>1. /\ rotated \in Seq(Seq(Chunk)) /\ active \in Seq(Chunk) /\ written \in Nat
      /\ rotated' \in Seq(Seq(Chunk)) /\ active' \in Seq(Chunk)
  BY WritingKeeps DEF IInv, TypeOK, WriterTypeOK
<1>2. /\ OnDisk = Read(rotated, active) /\ OnDisk' = Read(rotated', active')
      /\ OnDisk \in Seq(Nat) /\ OnDisk' \in Seq(Nat)
  BY <1>1, OnDiskIs, ReadType
<1>3. persisted' = IF written' > written THEN Append(persisted, batch[written'])
                   ELSE persisted
  BY DEF Writing
<1>4. ASSUME written' = written
      PROVE  persisted' = persisted
  BY <1>1, <1>3, <1>4
<1>5. ASSUME OnDisk' = OnDisk
      PROVE  \E u \in Seq(Nat) : OnDisk = u \o OnDisk'
  <2>1. <<>> \in Seq(Nat) /\ <<>> \o OnDisk = OnDisk
    BY <1>2, ConcatEmptySeq
  <2> QED
    BY <1>5, <2>1
<1>6. CASE RotateClose \/ RenameFails \/ Open \/ OpenFails \/ WriteClosed
  <2>1. written' = written /\ UNCHANGED <<rotated, active>>
    BY <1>6 DEF RotateClose, RenameFails, Open, OpenFails, WriteClosed, diskVars
  <2> QED
    BY <1>2, <1>4, <1>5, <2>1, SameDisk
<1>7. CASE Rename
  <2>1. written' = written /\ rotated' = Append(rotated, active) /\ active' = <<>>
    BY <1>7 DEF Rename
  <2> QED
    BY <1>1, <1>2, <1>4, <1>5, <2>1, ReadRenamed
<1>8. CASE Retain \/ RetainFails
  <2>1. written' = written /\ active' = active /\ Excess \in 0..Len(rotated)
    BY <1>8, ExcessFacts DEF Retain, RetainFails
  <2>2. PICK k \in 0..Len(rotated) : DropOldest(k)
    <3>1. CASE Retain
      BY <2>1, <3>1 DEF Retain
    <3>2. CASE RetainFails
      <4>1. PICK k \in 0..Excess : DropOldest(k)
        BY <3>2 DEF RetainFails
      <4>2. k \in 0..Len(rotated)
        BY <2>1, ExcessFacts
      <4> QED
        BY <4>1, <4>2
    <3> QED
      BY <1>8, <3>1, <3>2
  <2>3. rotated' = SubSeq(rotated, k + 1, Len(rotated))
    BY <2>2 DEF DropOldest
  <2>4. PICK u \in Seq(Nat) :
          Read(rotated, active) = u \o Read(SubSeq(rotated, k + 1, Len(rotated)), active)
    BY <1>1, ReadRetained
  <2> QED
    BY <1>2, <1>4, <2>1, <2>3, <2>4
<1>9. CASE WriteEntry
  <2> DEFINE e == batch[written + 1]
             c == [entry |-> e, of |-> Head(batch), bytes |-> LineSize]
  <2>1. /\ wpc = "write" /\ active' = Append(active, c) /\ rotated' = rotated
        /\ written' = written + 1
    BY <1>9 DEF WriteEntry
  <2>2. c \in Chunk
    <3>1. LineSize \in 1..LineSize
      BY WriterAssumption
    <3> QED
      BY <2>1, <3>1, NextChunk
  <2>3. Entry(c) = <<e>>
    BY DEF Entry, Whole
  <2>4. persisted' = Append(persisted, e) /\ e \in Nat
    BY <1>1, <1>3, <2>1, WritingKeeps
  <2> HIDE DEF c, e
  <2>5. OnDisk' = OnDisk \o <<e>>
    <3>1. Read(rotated, Append(active, c)) = Read(rotated, active) \o Entry(c)
      BY <1>1, <2>2, ReadWritten
    <3> QED
      BY <1>2, <2>1, <2>3, <3>1
  <2>6. OnDisk' = Append(OnDisk, e)
    BY <1>2, <2>4, <2>5, AppendIsConcat
  <2> QED
    BY <1>2, <2>1, <2>4, <2>6 DEF e
<1>10. CASE WriteFails
  <2> DEFINE c(k) == [entry |-> batch[written + 1], of |-> Head(batch), bytes |-> k]
  <2>1. PICK k \in 0..(LineSize - 1) :
          active' = IF k = 0 THEN active ELSE Append(active, c(k))
    BY <1>10 DEF WriteFails
  <2>2. wpc = "write" /\ written' = written /\ rotated' = rotated
    BY <1>10 DEF WriteFails
  <2>3. CASE k = 0
    BY <1>2, <1>4, <1>5, <2>1, <2>2, <2>3, SameDisk
  <2>4. CASE k # 0
    <3>1. k \in 1..LineSize /\ k # LineSize
      BY <2>4, WriterAssumption
    <3>2. c(k) \in Chunk
      BY <2>2, <3>1, NextChunk
    <3>3. Entry(c(k)) = <<>>
      BY <3>1 DEF Entry, Whole
    <3> HIDE DEF c
    <3>4. OnDisk' = OnDisk \o <<>>
      <4>1. Read(rotated, Append(active, c(k))) = Read(rotated, active) \o Entry(c(k))
        BY <1>1, <3>2, ReadWritten
      <4> QED
        BY <1>2, <2>1, <2>2, <2>4, <3>3, <4>1
    <3>5. OnDisk' = OnDisk
      BY <1>2, <3>4, ConcatEmptySeq
    <3> QED
      BY <1>2, <1>4, <1>5, <2>2, <3>5
  <2> QED
    BY <2>3, <2>4
<1> QED
  BY <1>6, <1>7, <1>8, <1>9, <1>10 DEF Writing, WriterStep

\* What the files hold stays the end of what was written; the collector, a
\* report and a new process leave the files alone.
LEMMA StepEnd == IInv /\ IInv' /\ EndInv /\ [Next]_vars => EndInv'
<1> SUFFICES ASSUME IInv, IInv', EndInv, [Next]_vars PROVE EndInv'
  OBVIOUS
<1>1. PICK gone \in Seq(Nat) : persisted = gone \o OnDisk
  BY DEF EndInv
<1>2. CASE Writing
  <2>1. OnDisk \in Seq(Nat) /\ OnDisk' \in Seq(Nat)
    BY <1>2, WritingDisk
  <2>2. ASSUME NEW e, e \in Nat, persisted' = Append(persisted, e),
               OnDisk' = Append(OnDisk, e)
        PROVE  EndInv'
    <3> DEFINE before == OnDisk
    <3>1. gone \in Seq(Nat) /\ e \in Nat /\ before \in Seq(Nat)
      BY <2>1, <2>2
    <3> HIDE DEF before
    <3>2. gone \o before \in Seq(Nat) /\ <<e>> \in Seq(Nat)
      BY <3>1, ConcatProperties
    <3>3. /\ Append(gone \o before, e) = (gone \o before) \o <<e>>
          /\ Append(before, e) = before \o <<e>>
      BY <3>1, <3>2, AppendIsConcat
    <3>4. (gone \o before) \o <<e>> = gone \o (before \o <<e>>)
      BY <3>1, <3>2, Associates
    <3>5. Append(gone \o before, e) = gone \o Append(before, e)
      BY <3>3, <3>4
    <3> QED
      BY <1>1, <2>2, <3>5 DEF EndInv, before
  <2>3. ASSUME persisted' = persisted, NEW u \in Seq(Nat), OnDisk = u \o OnDisk'
        PROVE  EndInv'
    <3> DEFINE after == OnDisk'
    <3>1. persisted' = gone \o (u \o after)
      BY <1>1, <2>3
    <3>2. gone \in Seq(Nat) /\ u \in Seq(Nat) /\ after \in Seq(Nat)
      BY <2>1
    <3> HIDE DEF after
    <3>3. gone \o (u \o after) = (gone \o u) \o after /\ gone \o u \in Seq(Nat)
      BY ONLY <3>2, Associates, ConcatProperties
    <3> QED
      BY <3>1, <3>3 DEF EndInv, after
  <2>4. wpc = "write" => batch[written + 1] \in Nat
    BY <1>2, WritingKeeps
  <2> QED
    BY <1>2, <2>2, <2>3, <2>4, WritingDisk
<1>3. CASE ~Writing
  <2>1. UNCHANGED <<persisted, rotated, active>>
    BY <1>3 DEF Next, Outside, vars, writerVars, deliveryVars, diskVars, Age, StartWriting,
      FlushCall, Report, Restart, Reopen, Terminating
  <2> QED
    BY <1>1, <2>1, SameDisk DEF EndInv
<1> QED
  BY <1>2, <1>3

-----------------------------------------------------------------------------
(* The log that is kept *)

\* What a Flush writes next comes after everything that was written.
LastInv == LastWritten <= base + Len(handled) + written

\* The numbers in it.
LEMMA LastType ==
    ASSUME IInv
    PROVE  /\ LastWritten \in Nat /\ base \in Nat /\ Len(handled) \in Nat
           /\ written \in Nat /\ sent \in Nat /\ persisted \in Seq(Nat)
<1>1. /\ base \in Nat /\ handled \in Seq(Nat) /\ written \in Nat /\ sent \in Nat
      /\ persisted \in Seq(Nat)
  BY CollectorAssumption DEF IInv, TypeOK, CollectorTypeOK, WriterTypeOK
<1>2. LastWritten \in Nat
  BY <1>1 DEF LastWritten, Last
<1> QED
  BY <1>1, <1>2

\* Nothing is handled or written that was not sent.
LEMMA OnlySent ==
    ASSUME IInv
    PROVE  base + Len(handled) + written <= sent
<1>0. /\ LastWritten \in Nat /\ base \in Nat /\ Len(handled) \in Nat
      /\ written \in Nat /\ sent \in Nat /\ persisted \in Seq(Nat)
  BY LastType
<1>1. CASE wpc = "idle"
  <2>1. written = 0
    BY <1>1 DEF IInv, CallInv
  <2>2. sent - base \in Nat /\ Len(handled) <= sent - base
    <3>1. /\ Len(handled) + Len(flushBatch) + Len(activeBatch) + Len(input) = sent - base
          /\ flushBatch \in Seq(Nat) /\ activeBatch \in Seq(Nat) /\ input \in Seq(Nat)
          /\ sent - base \in Nat
      BY Lengths DEF IInv
    <3> QED
      BY <3>1, <1>0
  <2> QED
    BY <2>1, <2>2, <1>0
<1>2. CASE wpc # "idle"
  <2>1. Len(handled) + Len(batch) <= sent - base /\ batch \in Seq(Nat)
    BY <1>2, BatchIsNext
  <2>2. written <= Len(batch)
    BY <2>1 DEF IInv, TypeOK, WriterTypeOK
  <2> QED
    BY <2>1, <2>2, <1>0
<1> QED
  BY <1>1, <1>2

\* An entry that is written is the last one, and the next of its batch.
LEMMA WritingLast ==
    ASSUME IInv, Writing, wpc = "write", written' = written + 1,
           persisted' = Append(persisted, batch[written + 1])
    PROVE  /\ batch[written + 1] = base + Len(handled) + written + 1
           /\ LastWritten' = batch[written + 1]
<1>0. /\ LastWritten \in Nat /\ base \in Nat /\ Len(handled) \in Nat
      /\ written \in Nat /\ sent \in Nat /\ persisted \in Seq(Nat)
  BY LastType
<1> DEFINE e == batch[written + 1]
<1>1. wpc # "idle" /\ written + 1 \in 1..Len(batch) /\ e \in Nat
  BY WritingKeeps
<1>2. e = base + Len(handled) + (written + 1)
  BY <1>1, BatchIsNext
<1> HIDE DEF e
<1>3. persisted' = Append(persisted, e)
  BY DEF e
<1>4. persisted' # <<>> /\ persisted'[Len(persisted')] = e
  <2>1. ASSUME NEW s \in Seq(Nat), NEW x \in Nat
        PROVE  Append(s, x) # <<>> /\ Append(s, x)[Len(Append(s, x))] = x
    OBVIOUS
  <2>2. persisted \in Seq(Nat) /\ e \in Nat
    BY <1>1, <1>0 DEF e
  <2> QED
    BY <1>3, <2>1, <2>2
<1>5. LastWritten' = e
  BY <1>4 DEF LastWritten, Last
<1> QED
  BY <1>2, <1>5, <1>0 DEF e

\* At first nothing is written.
LEMMA InitLast == Init => LastInv
BY DEF Init, CollectorInit, WriterInit, LastInv, LastWritten

\* Entries that were skipped are not written later.
LEMMA StepLast == IInv /\ IInv' /\ LastInv /\ [Next]_vars => LastInv'
<1> SUFFICES ASSUME IInv, IInv', LastInv, [Next]_vars PROVE LastInv'
  OBVIOUS
<1>0. /\ LastWritten \in Nat /\ base \in Nat /\ Len(handled) \in Nat
      /\ written \in Nat /\ sent \in Nat /\ persisted \in Seq(Nat)
  BY LastType
<1>1. ASSUME UNCHANGED <<persisted, base, handled, written>> PROVE LastInv'
  BY <1>1 DEF LastInv, LastWritten
<1>2. ASSUME UNCHANGED persisted PROVE LastWritten' = LastWritten
  BY <1>2 DEF LastWritten
<1>3. CASE Writing
  <2>1. UNCHANGED <<base, handled>>
    BY <1>3, WritingKeeps
  <2>2. CASE /\ wpc = "write" /\ written' = written + 1
             /\ persisted' = Append(persisted, batch[written + 1])
    <3>1. LastWritten' = base + Len(handled) + written + 1
      BY <1>3, <2>2, WritingLast
    <3> QED
      BY <2>1, <2>2, <3>1, <1>0 DEF LastInv
  <2>3. CASE UNCHANGED <<written, persisted>>
    BY <1>1, <2>1, <2>3
  <2> QED
    BY <1>3, <2>2, <2>3, WritingDisk
<1>4. CASE StartWriting
  <2>1. wpc = "idle" /\ written' = 0 /\ UNCHANGED <<persisted, base, handled>>
    BY <1>4 DEF StartWriting, FlushCall, deliveryVars
  <2>2. written = 0
    BY <2>1 DEF IInv, CallInv
  <2> QED
    BY <1>1, <2>1, <2>2
<1>5. CASE Report
  <2>1. /\ wpc # "idle" /\ written' = 0 /\ handled' = handled \o batch
        /\ UNCHANGED <<persisted, base>>
    BY <1>5 DEF Report
  <2>2. batch \in Seq(Nat) /\ handled \in Seq(Nat)
    BY <2>1, BatchIsNext DEF IInv, TypeOK
  <2>3. Len(handled') = Len(handled) + Len(batch) /\ Len(batch) \in Nat
    BY <2>1, <2>2
  <2>4. written <= Len(batch)
    BY <2>3 DEF IInv, TypeOK, WriterTypeOK
  <2>5. LastWritten <= base + Len(handled') + 0
    BY <2>3, <2>4, <1>0 DEF LastInv
  <2> QED
    BY <1>2, <2>1, <2>5 DEF LastInv
<1>6. CASE Restart
  <2>1. /\ base' = sent /\ handled' = <<>> /\ written' = 0 /\ UNCHANGED persisted
    BY <1>6 DEF Restart, Reopen
  <2>2. base + Len(handled) + written <= sent
    BY OnlySent
  <2>3. LastWritten <= sent + 0 + 0
    BY <1>0, <2>2 DEF LastInv
  <2> QED
    BY <1>2, <2>1, <2>3 DEF LastInv
<1>7. CASE ~(Writing \/ StartWriting \/ Report \/ Restart)
  <2>1. UNCHANGED <<persisted, base, handled, written>>
    BY <1>7 DEF Next, Outside, vars, writerVars, flushVars, deliveryVars, Age, Terminating
  <2> QED
    BY <1>1, <2>1
<1> QED
  BY <1>3, <1>4, <1>5, <1>6, <1>7

\* A piece of a sequence has its elements.
LEMMA PieceIs ==
    ASSUME NEW w \in Seq(Nat), NEW m \in 1..Len(w) + 1, NEW n \in m - 1..Len(w)
    PROVE  /\ SubSeq(w, m, n) \in Seq(Nat) /\ Len(SubSeq(w, m, n)) = n - m + 1
           /\ \A i \in 1..n - m + 1 : SubSeq(w, m, n)[i] = w[m + i - 1]
<1>1. SubSeq(w, m, n) \in Seq(Nat)
  OBVIOUS
<1>2. Len(SubSeq(w, m, n)) = n - m + 1
  OBVIOUS
<1>3. \A i \in 1..n - m + 1 : SubSeq(w, m, n)[i] = w[m + i - 1]
  OBVIOUS
<1> QED
  BY <1>1, <1>2, <1>3

\* What follows a beginning of a sequence is the rest of it.
LEMMA RestIs ==
    ASSUME NEW u \in Seq(Nat), NEW v \in Seq(Nat)
    PROVE  LET w == u \o v
           IN  /\ SubSeq(w, Len(u) + 1, Len(w)) = v
               /\ Len(u) \in Nat /\ Len(u) <= Len(w)
               /\ u = <<>> => w = v
               /\ u # <<>> => Len(u) \in 1..Len(w)
<1> DEFINE w == u \o v
<1>1. /\ w \in Seq(Nat) /\ Len(w) = Len(u) + Len(v)
      /\ Len(u) \in Nat /\ Len(v) \in Nat
      /\ \A i \in 1..Len(v) : w[Len(u) + i] = v[i]
  OBVIOUS
<1>2. u = <<>> => w = v
  BY ConcatEmptySeq
<1>3. u # <<>> => Len(u) # 0
  OBVIOUS
<1> HIDE DEF w
<1>4. SubSeq(w, Len(u) + 1, Len(w)) = v
  <2> DEFINE s == SubSeq(w, Len(u) + 1, Len(w))
  <2>1. /\ s \in Seq(Nat) /\ Len(s) = Len(v)
        /\ \A i \in 1..Len(v) : s[i] = w[Len(u) + i]
    <3> DEFINE m == Len(u) + 1
               n == Len(w)
    <3>1. m \in 1..Len(w) + 1 /\ n \in m - 1..Len(w) /\ n - m + 1 = Len(v)
      BY <1>1
    <3>2. \A i \in 1..Len(v) : w[Len(u) + i] = w[m + i - 1]
      <4> TAKE i \in 1..Len(v)
      <4>1. Len(u) + i = m + i - 1
        BY <1>1
      <4> QED
        BY <4>1
    <3> HIDE DEF m, n
    <3>3. /\ SubSeq(w, m, n) \in Seq(Nat) /\ Len(SubSeq(w, m, n)) = n - m + 1
          /\ \A i \in 1..n - m + 1 : SubSeq(w, m, n)[i] = w[m + i - 1]
      BY <1>1, <3>1, PieceIs
    <3> QED
      BY <3>1, <3>2, <3>3 DEF m, n
  <2> HIDE DEF s
  <2>2. \A i \in 1..Len(v) : s[i] = v[i]
    BY <1>1, <2>1
  <2>3. s = v
    BY <2>1, <2>2, SeqEqual
  <2> QED
    BY <2>3 DEF s
<1> QED
  BY <1>1, <1>2, <1>3, <1>4 DEF w

\* A Flush writes the next entry of the log, forgets its oldest ones, or leaves
\* it alone.
LEMMA WritingLogs ==
    ASSUME IInv, IInv', LastInv, Writing
    PROVE  Log!Next \/ UNCHANGED Log!vars
<1>0. /\ LastWritten \in Nat /\ base \in Nat /\ Len(handled) \in Nat
      /\ written \in Nat /\ sent \in Nat /\ persisted \in Seq(Nat)
  BY LastType
<1>1. /\ UNCHANGED <<sent, ingested, batch>> /\ batch \in Seq(Nat)
      /\ wpc = "write" => written + 1 \in 1..Len(batch) /\ batch[written + 1] \in Nat
  BY WritingKeeps DEF collectorVars
<1>2. OnDisk \in Seq(Nat) /\ OnDisk' \in Seq(Nat)
  BY WritingDisk
<1>3. ASSUME wpc = "write", written' = written + 1,
             persisted' = Append(persisted, batch[written + 1]),
             OnDisk' = Append(OnDisk, batch[written + 1])
      PROVE  Log!Next
  <2> DEFINE e == batch[written + 1]
  <2>1. e = base + Len(handled) + written + 1 /\ LastWritten' = e
    BY <1>3, WritingLast
  <2>2. LastWritten < e
    BY <2>1, <1>0 DEF LastInv
  <2>3. e <= sent
    <3>1. Len(handled) + Len(batch) <= sent - base /\ written + 1 <= Len(batch)
      BY <1>1, <1>3, BatchIsNext, WritingKeeps
    <3>2. Len(batch) \in Nat
      BY <1>1
    <3> QED
      BY <2>1, <3>1, <3>2, <1>0
  <2>4. SubSeq(batch, 1, written + 1) = Append(SubSeq(batch, 1, written), e)
    <3>1. ASSUME NEW s \in Seq(Nat), NEW k \in Nat, k + 1 \in 1..Len(s)
          PROVE  SubSeq(s, 1, k + 1) = Append(SubSeq(s, 1, k), s[k + 1])
      BY <3>1
    <3> QED
      BY <1>1, <1>3, <3>1, <1>0
  <2>5. e \in 1..MaxEntries
    <3>1. sent <= MaxEntries /\ MaxEntries \in Nat
      BY CollectorAssumption DEF IInv, TypeOK, CollectorTypeOK
    <3>2. e \in Nat
      BY <1>1, <1>3
    <3> HIDE DEF e
    <3> QED
      BY <2>2, <2>3, <3>1, <3>2, <1>0
  <2> HIDE DEF e
  <2>6. Log!Write(e)
    BY <1>1, <1>3, <2>1, <2>2, <2>3, <2>4 DEF Log!Write, e
  <2> QED
    BY <2>5, <2>6 DEF Log!Next
<1>4. ASSUME UNCHANGED <<written, persisted>>, NEW u \in Seq(Nat), OnDisk = u \o OnDisk'
      PROVE  Log!Next \/ UNCHANGED Log!vars
  <2>1. /\ OnDisk' = SubSeq(OnDisk, Len(u) + 1, Len(OnDisk))
        /\ u = <<>> => OnDisk' = OnDisk
        /\ u # <<>> => Len(u) \in 1..Len(OnDisk)
    <3> DEFINE v == OnDisk'
    <3>1. v \in Seq(Nat) /\ OnDisk = u \o v
      BY <1>2, <1>4
    <3> HIDE DEF v
    <3>2. /\ v = SubSeq(u \o v, Len(u) + 1, Len(u \o v))
          /\ u = <<>> => v = u \o v
          /\ u # <<>> => Len(u) \in 1..Len(u \o v)
      BY <3>1, RestIs
    <3> QED
      BY <3>1, <3>2 DEF v
  <2>2. LastWritten' = LastWritten
    BY <1>4 DEF LastWritten
  <2>3. CASE u = <<>>
    BY <1>1, <1>4, <2>1, <2>2, <2>3 DEF Log!vars
  <2>4. CASE u # <<>>
    <3>1. Log!Forget(Len(u))
      BY <1>1, <1>4, <2>1, <2>2 DEF Log!Forget
    <3> QED
      BY <2>1, <2>4, <3>1 DEF Log!Next
  <2> QED
    BY <2>3, <2>4
<1> QED
  BY <1>3, <1>4, WritingDisk

\* At first the log is empty.
LEMMA InitLogs == Init => Log!Init
<1> SUFFICES ASSUME Init PROVE Log!Init
  OBVIOUS
<1>1. sent = 0 /\ persisted = <<>> /\ ingested = <<>> /\ batch = <<>> /\ written = 0
  BY DEF Init, CollectorInit, WriterInit
<1>2. SubSeq(batch, 1, written) = <<>>
  BY <1>1
<1> QED
  BY <1>1, <1>2, InitDisk DEF Log!Init, LastWritten

\* Every step is one of the log's, or leaves it alone.
LEMMA NextLogs ==
    IInv /\ IInv' /\ LastInv /\ [Next]_vars => [Log!Next]_(Log!vars)
<1> SUFFICES ASSUME IInv, IInv', LastInv, [Next]_vars
             PROVE  Log!Next \/ UNCHANGED Log!vars
  OBVIOUS
<1>1. CASE Writing
  BY <1>1, WritingLogs
<1>2. CASE ~Writing
  <2>1. UNCHANGED <<rotated, active, persisted>>
    BY <1>2 DEF Next, Outside, vars, writerVars, deliveryVars, diskVars, Age, StartWriting,
      FlushCall, Report, Restart, Reopen, Terminating
  <2>2. OnDisk' = OnDisk /\ LastWritten' = LastWritten
    BY <2>1, SameDisk DEF LastWritten
  <2>3. ASSUME UNCHANGED <<sent, ingested, batch, written>> PROVE UNCHANGED Log!vars
    BY <2>2, <2>3 DEF Log!vars
  <2>4. CASE Feed /\ Outside
    <3>1. sent < MaxEntries /\ sent' = sent + 1 /\ UNCHANGED <<ingested, batch, written>>
      BY <2>4 DEF Feed, Outside, writerVars, flushVars, deliveryVars
    <3>2. Log!Accept
      BY <2>2, <3>1 DEF Log!Accept
    <3> QED
      BY <3>2 DEF Log!Next
  <2>5. CASE StartWriting
    <3>1. wpc = "idle" /\ written' = 0 /\ UNCHANGED <<sent, ingested>>
      BY <2>5 DEF StartWriting, FlushCall, collectorVars, deliveryVars
    <3>2. written = 0
      BY <3>1 DEF IInv, CallInv
    <3>3. SubSeq(batch', 1, 0) = <<>> /\ SubSeq(batch, 1, 0) = <<>>
      OBVIOUS
    <3> QED
      BY <2>2, <3>1, <3>2, <3>3 DEF Log!vars
  <2>6. CASE Report
    <3>1. /\ ingested' = ingested \o SubSeq(batch, 1, written)
          /\ batch' = <<>> /\ written' = 0 /\ UNCHANGED sent
      BY <2>6 DEF Report, Persisted, FinalFlushed, AsyncFlushed
    <3>2. SubSeq(batch', 1, written') = <<>>
      BY <3>1
    <3>3. Log!Report
      BY <2>2, <3>1, <3>2 DEF Log!Report
    <3> QED
      BY <3>3 DEF Log!Next
  <2>7. CASE Restart
    <3>1. ingested' = <<>> /\ batch' = <<>> /\ written' = 0 /\ UNCHANGED sent
      BY <2>7 DEF Restart, Reopen, CollectorRestart
    <3>2. SubSeq(batch', 1, written') = <<>>
      BY <3>1
    <3>3. Log!Restart
      BY <2>2, <3>1, <3>2 DEF Log!Restart
    <3> QED
      BY <3>3 DEF Log!Next
  <2>8. CASE ~(Feed /\ Outside) /\ ~StartWriting /\ ~Report /\ ~Restart
    <3>1. UNCHANGED <<sent, ingested, batch, written>>
      BY <1>2, <2>8 DEF Next, CloseInput, CollectorStep, FlusherStep, Receive, Tick, SeeClosed,
        Waited, ClearFlag, LeaveGroup, Outside, Age, vars, collectorVars, writerVars,
        flushVars, deliveryVars, Terminating
    <3> QED
      BY <2>3, <3>1
  <2> QED
    BY <2>4, <2>5, <2>6, <2>7, <2>8
<1> QED
  BY <1>1, <1>2

-----------------------------------------------------------------------------
(* The theorems *)

\* The invariant holds first and is kept by every step.
LEMMA StepIInv == IInv /\ [Next]_vars => IInv'
<1> SUFFICES ASSUME IInv, [Next]_vars PROVE IInv'
  OBVIOUS
<1>1. CASE (Feed \/ CloseInput \/ CollectorStep \/ FlusherStep) /\ Outside
  BY <1>1, FeedStep, ReceiveStep, TickStep, OtherMoves DEF CollectorStep, FlusherStep
<1>2. CASE Age /\ UNCHANGED <<collectorVars, deliveryVars>>
  BY <1>2, AgeStep
<1>3. CASE StartWriting
  BY <1>3, StartStep
<1>4. CASE Writing
  BY <1>4, WritingStep
<1>5. CASE Report
  BY <1>5, ReportStep
<1>6. CASE Restart
  BY <1>6, RestartStep
<1>7. CASE Terminating \/ UNCHANGED vars
  BY <1>7, Stutter DEF Terminating
<1> QED
  BY <1>1, <1>2, <1>3, <1>4, <1>5, <1>6, <1>7 DEF Next

\* Every state of collector.go, jsonlwriter.go and the flush callback, after
\* any number of failed operations and restarts, satisfies the invariant.
THEOREM Inductive == Spec => []IInv
<1>1. Init => IInv
  BY InitIInv
<1>2. IInv /\ [Next]_vars => IInv'
  BY StepIInv
<1> QED
  BY <1>1, <1>2, PTL DEF Spec

\* Numbers stay numbers, within their bounds, and files sequences of lines.
THEOREM TypeCorrect == Spec => []TypeOK
<1>1. IInv => TypeOK
  BY DEF IInv
<1> QED
  BY <1>1, Inductive, PTL

\* collector.go's double buffer: what the process was sent is flushed, being
\* flushed, batched or queued, in the order it was sent, and once.
THEOREM NothingLostOrReordered == Spec => []InOrderNoLoss
<1>1. IInv => InOrderNoLoss
  BY DEF IInv
<1> QED
  BY <1>1, Inductive, PTL

\* run.go's flush callback: between flushes the aggregator and the metrics have
\* counted what this process wrote, and an entry that is missing is an error.
THEOREM EvidenceIsOnDisk == Spec => []CountedIsPersisted
<1>1. IInv => CountedIsPersisted
  <2> SUFFICES ASSUME IInv, Quiet PROVE CountedIsPersisted
    BY DEF CountedIsPersisted
  <2>1. wpc = "idle"
    BY DEF IInv, CallInv, Quiet
  <2>2. batch = <<>> /\ written = 0
    BY <2>1 DEF IInv, CallInv
  <2>3. SubSeq(batch, 1, written) = <<>>
    BY <2>2
  <2>4. ingested \in Seq(Nat)
    BY DEF IInv, TypeOK
  <2>5. ingested \o SubSeq(batch, 1, written) = ingested
    <3>1. ASSUME NEW s \in Seq(Nat), NEW e, e = <<>>
          PROVE  s \o e = s
      BY <3>1
    <3> QED
      BY <2>3, <2>4, <3>1
  <2> QED
    BY <2>5 DEF CountedIsPersisted, IInv, CountInv
<1> QED
  BY <1>1, Inductive, PTL

\* Rotation, retention, failures and restarts of jsonlwriter.go forget the
\* oldest entries only: what can be read is the end of everything ever written.
THEOREM OnlyOldestForgotten == Spec => []OldestForgotten
<1>1. Init => EndInv
  <2> SUFFICES ASSUME Init PROVE EndInv
    OBVIOUS
  <2>1. persisted = <<>> /\ OnDisk = <<>>
    BY InitDisk DEF Init
  <2>2. <<>> \in Seq(Nat) /\ <<>> \o <<>> = <<>>
    OBVIOUS
  <2> QED
    BY <2>1, <2>2 DEF EndInv
<1>2. IInv /\ IInv' /\ EndInv /\ [Next]_vars => EndInv'
  BY StepEnd
<1>3. IInv /\ EndInv => OldestForgotten
  <2> SUFFICES ASSUME IInv, EndInv PROVE OldestForgotten
    OBVIOUS
  <2>1. active \in Seq(Chunk) /\ rotated \in Seq(Seq(Chunk))
    BY DEF IInv, TypeOK, WriterTypeOK
  <2>2. OnDisk \in Seq(Nat)
    BY <2>1, OnDiskIs, ReadType
  <2>3. PICK gone \in Seq(Nat) : persisted = gone \o OnDisk
    BY DEF EndInv
  <2> QED
    BY <2>2, <2>3, EndIsSuffix DEF OldestForgotten
<1> QED
  BY <1>1, <1>2, <1>3, Inductive, PTL DEF Spec

\* Collector, flush callback and JSONLWriter implement AuditLog: on disk are
\* entries in the order in which they were sent, each at most once, new ones at
\* the end and the oldest forgotten, and the evidence is told of exactly those
\* that were written.
THEOREM LogKept == Spec => KeepsLog
<1>1. Init => LastInv
  BY InitLast
<1>2. IInv /\ IInv' /\ LastInv /\ [Next]_vars => LastInv'
  BY StepLast
<1>3. Init => Log!Init
  BY InitLogs
<1>4. IInv /\ IInv' /\ LastInv /\ [Next]_vars => [Log!Next]_(Log!vars)
  BY NextLogs
<1> QED
  BY <1>1, <1>2, <1>3, <1>4, Inductive, PTL DEF Spec, KeepsLog, Log!Spec

\* jsonlwriter.go's "never split across files", through failed rotations,
\* torn lines and restarts.
THEOREM BatchesAreNotSplit == Spec => []BatchInOneFile
<1>1. IInv => BatchInOneFile
  BY DEF IInv
<1> QED
  BY <1>1, Inductive, PTL

\* needsRotation sees the size on disk whenever a Flush begins.
THEOREM SizeIsKnown == Spec => []SizeTracked
<1>1. IInv => SizeTracked
  BY DEF IInv, SizeInv, SizeTracked
<1> QED
  BY <1>1, Inductive, PTL

\* A file too many needs a fault, a restart or a rotation under way.
THEOREM DiskDoesNotFillUp == Spec => []DiskBounded
<1>1. IInv => DiskBounded
  <2> SUFFICES ASSUME IInv PROVE DiskBounded
    OBVIOUS
  <2>1. /\ Len(rotated) \in Nat /\ MaxFiles \in Nat /\ faults \in Nat /\ restarts \in Nat
    BY ExcessFacts
  <2>2. Len(rotated) <= MaxFiles + faults + restarts
                         + (IF wpc \in {"open", "retain"} THEN 1 ELSE 0)
    BY DEF IInv, RetentionInv
  <2>3. (IF wpc \in {"open", "retain"} THEN 1 ELSE 0) \in 0..1
    OBVIOUS
  <2>4. Len(rotated) <= MaxFiles + 1 + faults + restarts
    BY <2>1, <2>2, <2>3
  <2> QED
    BY <2>4 DEF DiskBounded
<1> QED
  BY <1>1, Inductive, PTL
=============================================================================
