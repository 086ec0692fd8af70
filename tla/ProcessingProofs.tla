--------------------------- MODULE ProcessingProofs ---------------------------
(***************************************************************************)
(* Theorems about Processing and the operators of Extractor and Redactor,  *)
(* for all payloads, texts and candidates: what Redact takes out, what the *)
(* validators accept, what the extractor finds, and that the log tells it. *)
(*                                                                         *)
(* Every operator of these modules goes through a sequence.  FoldLemmas    *)
(* makes of each the values it goes through, k[0], k[1], ..., one step     *)
(* from one to the next, and what an operator returns is then shown by     *)
(* counting up these values.                                               *)
(***************************************************************************)
EXTENDS Processing, FoldLemmas

-----------------------------------------------------------------------------
(* The folds, step by step *)

\* One step of ReplaceMatches.
Replaced(text, category, i, out) ==
    IF Hit(text, i, category) THEN Append(out, <<3, category>>)
    ELSE IF i > 1 /\ Hit(text, i - 1, category) THEN out
    ELSE Append(out, text[i])

\* What Redact returns.
Results == [text : Texts, cats : SUBSET Categories]
Unredacted(text) == [text |-> text, cats |-> {}]

\* What a digit adds to the sum of luhnValid.
Weight(digits, i) ==
    IF (Len(digits) - i) % 2 = 1 THEN Doubled(digits[i]) ELSE digits[i]

\* What a digit makes of the number before it.
Shift(n, d) == 10 * n + d

LuhnSum(digits) ==
    FoldLeftDomain(LAMBDA sum, i :
        sum + IF (Len(digits) - i) % 2 = 1 THEN Doubled(digits[i]) ELSE digits[i],
        0, digits)

\* The five patterns.
LEMMA PatternsAre ==
    /\ DOMAIN defaultPIIPatterns = 1..5 /\ Len(defaultPIIPatterns) = 5
    /\ \A i \in 1..5 : defaultPIIPatterns[i] \in Categories
BY DEF Categories, defaultPIIPatterns, ToSet

\* A marker can stand in a text.
LEMMA MarkersArePieces == \A category \in Categories : <<3, category>> \in Pieces
BY DEF Pieces

\* ReplaceMatches copies its text piece by piece.
LEMMA ReplaceMatchesSteps ==
    ASSUME NEW text \in Texts, NEW category \in Categories
    PROVE  \E k \in [0..Len(text) -> Texts] :
              /\ k[0] = <<>> /\ ReplaceMatches(text, category) = k[Len(text)]
              /\ \A i \in 1..Len(text) : k[i] = Replaced(text, category, i, k[i - 1])
<1> DEFINE n == Len(text)
           id == [i \in DOMAIN text |-> i]
           Is(h) == h = [s \in SUBSET (DOMAIN id) |->
                           IF s = {} THEN <<>>
                           ELSE Replaced(text, category, id[Max(s)], h[s \ {Max(s)}])]
           g == CHOOSE h : Is(h)
           Step == [x \in (1..n) \X Texts |-> Replaced(text, category, x[1], x[2])]
<1>1. ReplaceMatches(text, category) = g[DOMAIN id]
  BY DEF ReplaceMatches, FoldLeftDomain, FoldLeft, MapThenFoldSet, Replaced
<1>2. /\ n \in Nat /\ DOMAIN text = 1..n /\ <<>> \in Texts
      /\ \A i \in 1..n : text[i] \in Pieces
  BY DEF Texts
<1>3. DOMAIN id = 1..n /\ \A i \in 1..n : id[i] = i
  BY <1>2
<1> HIDE DEF n, id
<1>4. \A i \in 1..n : \A out \in Texts : Replaced(text, category, i, out) \in Texts
  BY <1>2, MarkersArePieces DEF Replaced, Texts
<1>5. Step \in [(1..n) \X Texts -> Texts]
  BY <1>4
<1>a. \A i \in 1..n : \A v \in Texts : Step[<<i, v>>] = Replaced(text, category, i, v)
  OBVIOUS
<1> HIDE DEF Step
<1>6. PICK f \in [SUBSET (1..n) -> Texts], k \in [0..n -> Texts] :
         Through(Step, <<>>, n, f, k)
  BY <1>2, <1>5, FoldSteps
<1>7. ASSUME NEW s \in SUBSET (1..n), s # {}
      PROVE  Max(s) \in 1..n /\ id[Max(s)] = Max(s) /\ s \ {Max(s)} \in SUBSET (1..n)
  BY <1>2, <1>3, <1>7, MaxIs
<1>8. Is(f)
  <2>1. ASSUME NEW s \in SUBSET (1..n)
        PROVE  f[s] = IF s = {} THEN <<>>
                      ELSE Replaced(text, category, id[Max(s)], f[s \ {Max(s)}])
    <3>1. f[s] = IF s = {} THEN <<>> ELSE Step[<<Max(s), f[s \ {Max(s)}]>>]
      BY <1>6 DEF Through, IsFold
    <3>2. ASSUME s # {}
          PROVE f[s] = Replaced(text, category, id[Max(s)], f[s \ {Max(s)}])
      <4>1. Max(s) \in 1..n /\ f[s \ {Max(s)}] \in Texts
        BY <1>7, <3>2
      <4>2. f[s] = Step[<<Max(s), f[s \ {Max(s)}]>>]
        BY <3>1, <3>2
      <4> QED
        BY <1>7, <1>a, <3>2, <4>1, <4>2
    <3> QED
      BY <3>1, <3>2
  <2>2. f = [s \in SUBSET (1..n) |-> f[s]]
    OBVIOUS
  <2> QED
    BY <1>3, <2>1, <2>2
<1>9. Is(g)
  <2> HIDE DEF Is
  <2> QED
    BY <1>8
<1>10. ASSUME NEW h, Is(h), NEW s \in SUBSET (1..n)
       PROVE  h[s] = IF s = {} THEN <<>>
                     ELSE Replaced(text, category, id[Max(s)], h[s \ {Max(s)}])
  BY <1>3, <1>10
<1> HIDE DEF g, Is
<1>11. SameFold(g, f, n)
  <2> SUFFICES ASSUME NEW s \in SUBSET (1..n),
                      s = {} \/ g[s \ {Max(s)}] = f[s \ {Max(s)}]
               PROVE  g[s] = f[s]
    BY DEF SameFold
  <2>1. f[s] = IF s = {} THEN <<>>
               ELSE Replaced(text, category, id[Max(s)], f[s \ {Max(s)}])
    BY <1>8, <1>10
  <2>2. g[s] = IF s = {} THEN <<>>
               ELSE Replaced(text, category, id[Max(s)], g[s \ {Max(s)}])
    BY <1>9, <1>10
  <2> QED
    BY <2>1, <2>2
<1>12. ASSUME NEW i \in 1..n PROVE k[i] = Replaced(text, category, i, k[i - 1])
  <2>1. k[i - 1] \in Texts
    BY <1>2
  <2>2. k[i] = Step[<<i, k[i - 1]>>]
    BY <1>6 DEF Through
  <2> QED
    BY <1>a, <2>1, <2>2
<1>13. k[0] = <<>> /\ ReplaceMatches(text, category) = k[n]
  BY <1>1, <1>3, <1>6, <1>11 DEF Through
<1> QED
  BY <1>12, <1>13, Zenon DEF n

\* A pattern makes a result of a result.
LEMMA ApplyType ==
    ASSUME NEW r \in Results, NEW category \in Categories
    PROVE  Apply(r, category) \in Results
<1>1. r.text \in Texts /\ r.cats \in SUBSET Categories
  BY DEF Results
<1>2. Len(r.text) \in Nat
  BY <1>1 DEF Texts
<1>3. ReplaceMatches(r.text, category) \in Texts
  BY <1>1, <1>2, ReplaceMatchesSteps
<1> QED
  BY <1>1, <1>3 DEF Apply, Results

\* Redact applies one pattern after the other.
LEMMA RedactSteps ==
    ASSUME NEW input \in Texts
    PROVE  \E k \in [0..Len(defaultPIIPatterns) -> Results] :
              /\ k[0] = Unredacted(input) /\ Redact(input) = k[Len(defaultPIIPatterns)]
              /\ \A i \in 1..Len(defaultPIIPatterns) :
                    k[i] = Apply(k[i - 1], defaultPIIPatterns[i])
<1> DEFINE n == Len(defaultPIIPatterns)
           id == defaultPIIPatterns
           Is(h) == h = [s \in SUBSET (DOMAIN id) |->
                           IF s = {} THEN Unredacted(input)
                           ELSE Apply(h[s \ {Max(s)}], id[Max(s)])]
           g == CHOOSE h : Is(h)
           Step == [x \in (1..n) \X Results |-> Apply(x[2], id[x[1]])]
<1>1. Redact(input) = g[DOMAIN id]
  BY DEF Redact, FoldLeft, MapThenFoldSet, Unredacted
<1>2. /\ n \in Nat /\ DOMAIN id = 1..n /\ Unredacted(input) \in Results
      /\ \A i \in 1..n : id[i] \in Categories
  BY PatternsAre DEF Results, Unredacted
<1>3. DOMAIN id = 1..n
  BY <1>2
<1> HIDE DEF n, id
<1>4. \A i \in 1..n : \A r \in Results : Apply(r, id[i]) \in Results
  BY <1>2, ApplyType
<1>5. Step \in [(1..n) \X Results -> Results]
  BY <1>4
<1>a. \A i \in 1..n : \A v \in Results : Step[<<i, v>>] = Apply(v, id[i])
  OBVIOUS
<1> HIDE DEF Step
<1>6. PICK f \in [SUBSET (1..n) -> Results], k \in [0..n -> Results] :
         Through(Step, Unredacted(input), n, f, k)
  BY <1>2, <1>5, FoldSteps
<1>7. ASSUME NEW s \in SUBSET (1..n), s # {}
      PROVE  Max(s) \in 1..n /\ s \ {Max(s)} \in SUBSET (1..n)
  BY <1>2, <1>3, <1>7, MaxIs
<1>8. Is(f)
  <2>1. ASSUME NEW s \in SUBSET (1..n)
        PROVE  f[s] = IF s = {} THEN Unredacted(input)
                      ELSE Apply(f[s \ {Max(s)}], id[Max(s)])
    <3>1. f[s] = IF s = {} THEN Unredacted(input) ELSE Step[<<Max(s), f[s \ {Max(s)}]>>]
      BY <1>6 DEF Through, IsFold
    <3>2. ASSUME s # {} PROVE f[s] = Apply(f[s \ {Max(s)}], id[Max(s)])
      <4>1. Max(s) \in 1..n /\ f[s \ {Max(s)}] \in Results
        BY <1>7, <3>2
      <4>2. f[s] = Step[<<Max(s), f[s \ {Max(s)}]>>]
        BY <3>1, <3>2
      <4> QED
        BY <1>7, <1>a, <3>2, <4>1, <4>2
    <3> QED
      BY <3>1, <3>2
  <2>2. f = [s \in SUBSET (1..n) |-> f[s]]
    OBVIOUS
  <2> QED
    BY <1>3, <2>1, <2>2
<1>9. Is(g)
  <2> HIDE DEF Is
  <2> QED
    BY <1>8
<1>10. ASSUME NEW h, Is(h), NEW s \in SUBSET (1..n)
       PROVE  h[s] = IF s = {} THEN Unredacted(input)
                     ELSE Apply(h[s \ {Max(s)}], id[Max(s)])
  BY <1>3, <1>10
<1> HIDE DEF g, Is
<1>11. SameFold(g, f, n)
  <2> SUFFICES ASSUME NEW s \in SUBSET (1..n),
                      s = {} \/ g[s \ {Max(s)}] = f[s \ {Max(s)}]
               PROVE  g[s] = f[s]
    BY DEF SameFold
  <2>1. f[s] = IF s = {} THEN Unredacted(input)
               ELSE Apply(f[s \ {Max(s)}], id[Max(s)])
    BY <1>8, <1>10
  <2>2. g[s] = IF s = {} THEN Unredacted(input)
               ELSE Apply(g[s \ {Max(s)}], id[Max(s)])
    BY <1>9, <1>10
  <2> QED
    BY <2>1, <2>2
<1>12. ASSUME NEW i \in 1..n PROVE k[i] = Apply(k[i - 1], id[i])
  <2>1. k[i - 1] \in Results
    BY <1>2
  <2>2. k[i] = Step[<<i, k[i - 1]>>]
    BY <1>6 DEF Through
  <2> QED
    BY <1>a, <2>1, <2>2
<1>13. k[0] = Unredacted(input) /\ Redact(input) = k[n]
  BY <1>1, <1>3, <1>6, <1>11 DEF Through
<1> QED
  BY <1>12, <1>13, Zenon DEF n, id

\* The sum of luhnValid is one of naturals.
LEMMA WeightType ==
    ASSUME NEW digits \in Seq(Digits), NEW i \in 1..Len(digits)
    PROVE  Weight(digits, i) \in Nat
<1>1. digits[i] \in 0..9
  BY DEF Digits
<1> QED
  BY <1>1 DEF Weight, Doubled

\* luhnValid adds up its digits, every other one doubled.
LEMMA LuhnSteps ==
    ASSUME NEW digits \in Seq(Digits)
    PROVE  \E k \in [0..Len(digits) -> Nat] :
              /\ k[0] = 0 /\ LuhnSum(digits) = k[Len(digits)]
              /\ \A i \in 1..Len(digits) : k[i] = k[i - 1] + Weight(digits, i)
<1> DEFINE n == Len(digits)
           id == [i \in DOMAIN digits |-> i]
           Is(h) == h = [s \in SUBSET (DOMAIN id) |->
                           IF s = {} THEN 0
                           ELSE h[s \ {Max(s)}] + Weight(digits, id[Max(s)])]
           g == CHOOSE h : Is(h)
           Step == [x \in (1..n) \X Nat |-> x[2] + Weight(digits, x[1])]
<1>1. LuhnSum(digits) = g[DOMAIN id]
  BY DEF LuhnSum, FoldLeftDomain, FoldLeft, MapThenFoldSet, Weight
<1>2. n \in Nat /\ DOMAIN digits = 1..n /\ 0 \in Nat
  OBVIOUS
<1>3. DOMAIN id = 1..n /\ \A i \in 1..n : id[i] = i
  BY <1>2
<1> HIDE DEF n, id
<1>4. \A i \in 1..n : Weight(digits, i) \in Nat
  BY <1>2, WeightType
<1>5. Step \in [(1..n) \X Nat -> Nat]
  BY <1>4
<1>a. \A i \in 1..n : \A v \in Nat : Step[<<i, v>>] = v + Weight(digits, i)
  OBVIOUS
<1> HIDE DEF Step
<1>6. PICK f \in [SUBSET (1..n) -> Nat], k \in [0..n -> Nat] :
         Through(Step, 0, n, f, k)
  BY <1>2, <1>5, FoldSteps
<1>7. ASSUME NEW s \in SUBSET (1..n), s # {}
      PROVE  Max(s) \in 1..n /\ id[Max(s)] = Max(s) /\ s \ {Max(s)} \in SUBSET (1..n)
  BY <1>2, <1>3, <1>7, MaxIs
<1>8. Is(f)
  <2>1. ASSUME NEW s \in SUBSET (1..n)
        PROVE  f[s] = IF s = {} THEN 0
                      ELSE f[s \ {Max(s)}] + Weight(digits, id[Max(s)])
    <3>1. f[s] = IF s = {} THEN 0 ELSE Step[<<Max(s), f[s \ {Max(s)}]>>]
      BY <1>6 DEF Through, IsFold
    <3>2. ASSUME s # {} PROVE f[s] = f[s \ {Max(s)}] + Weight(digits, id[Max(s)])
      <4>1. Max(s) \in 1..n /\ f[s \ {Max(s)}] \in Nat
        BY <1>7, <3>2
      <4>2. f[s] = Step[<<Max(s), f[s \ {Max(s)}]>>]
        BY <3>1, <3>2
      <4> QED
        BY <1>7, <1>a, <3>2, <4>1, <4>2
    <3> QED
      BY <3>1, <3>2
  <2>2. f = [s \in SUBSET (1..n) |-> f[s]]
    OBVIOUS
  <2> QED
    BY <1>3, <2>1, <2>2
<1>9. Is(g)
  <2> HIDE DEF Is
  <2> QED
    BY <1>8
<1>10. ASSUME NEW h, Is(h), NEW s \in SUBSET (1..n)
       PROVE  h[s] = IF s = {} THEN 0
                     ELSE h[s \ {Max(s)}] + Weight(digits, id[Max(s)])
  BY <1>3, <1>10
<1> HIDE DEF g, Is
<1>11. SameFold(g, f, n)
  <2> SUFFICES ASSUME NEW s \in SUBSET (1..n),
                      s = {} \/ g[s \ {Max(s)}] = f[s \ {Max(s)}]
               PROVE  g[s] = f[s]
    BY DEF SameFold
  <2>1. f[s] = IF s = {} THEN 0
               ELSE f[s \ {Max(s)}] + Weight(digits, id[Max(s)])
    BY <1>8, <1>10
  <2>2. g[s] = IF s = {} THEN 0
               ELSE g[s \ {Max(s)}] + Weight(digits, id[Max(s)])
    BY <1>9, <1>10
  <2> QED
    BY <2>1, <2>2
<1>12. ASSUME NEW i \in 1..n PROVE k[i] = k[i - 1] + Weight(digits, i)
  <2>1. k[i - 1] \in Nat
    BY <1>2
  <2>2. k[i] = Step[<<i, k[i - 1]>>]
    BY <1>6 DEF Through
  <2> QED
    BY <1>a, <2>1, <2>2
<1>13. k[0] = 0 /\ LuhnSum(digits) = k[n]
  BY <1>1, <1>3, <1>6, <1>11 DEF Through
<1> QED
  BY <1>12, <1>13, Zenon DEF n

\* Atoi takes one digit after the other.
LEMMA AtoiSteps ==
    ASSUME NEW part \in Seq(Digits)
    PROVE  \E k \in [0..Len(part) -> Nat] :
              /\ k[0] = 0 /\ Atoi(part) = k[Len(part)]
              /\ \A i \in 1..Len(part) : k[i] = Shift(k[i - 1], part[i])
<1> DEFINE n == Len(part)
           id == part
           Is(h) == h = [s \in SUBSET (DOMAIN id) |->
                           IF s = {} THEN 0
                           ELSE Shift(h[s \ {Max(s)}], id[Max(s)])]
           g == CHOOSE h : Is(h)
           Step == [x \in (1..n) \X Nat |-> Shift(x[2], id[x[1]])]
<1>1. Atoi(part) = g[DOMAIN id]
  BY DEF Atoi, FoldLeft, MapThenFoldSet, Shift
<1>2. n \in Nat /\ DOMAIN id = 1..n /\ 0 \in Nat /\ \A i \in 1..n : id[i] \in Nat
  BY DEF Digits
<1>3. DOMAIN id = 1..n
  BY <1>2
<1> HIDE DEF n, id
<1>4. \A i \in 1..n : \A v \in Nat : Shift(v, id[i]) \in Nat
  BY <1>2 DEF Shift
<1>5. Step \in [(1..n) \X Nat -> Nat]
  BY <1>4
<1>a. \A i \in 1..n : \A v \in Nat : Step[<<i, v>>] = Shift(v, id[i])
  OBVIOUS
<1> HIDE DEF Step
<1>6. PICK f \in [SUBSET (1..n) -> Nat], k \in [0..n -> Nat] :
         Through(Step, 0, n, f, k)
  BY <1>2, <1>5, FoldSteps
<1>7. ASSUME NEW s \in SUBSET (1..n), s # {}
      PROVE  Max(s) \in 1..n /\ s \ {Max(s)} \in SUBSET (1..n)
  BY <1>2, <1>3, <1>7, MaxIs
<1>8. Is(f)
  <2>1. ASSUME NEW s \in SUBSET (1..n)
        PROVE  f[s] = IF s = {} THEN 0
                      ELSE Shift(f[s \ {Max(s)}], id[Max(s)])
    <3>1. f[s] = IF s = {} THEN 0 ELSE Step[<<Max(s), f[s \ {Max(s)}]>>]
      BY <1>6 DEF Through, IsFold
    <3>2. ASSUME s # {} PROVE f[s] = Shift(f[s \ {Max(s)}], id[Max(s)])
      <4>1. Max(s) \in 1..n /\ f[s \ {Max(s)}] \in Nat
        BY <1>7, <3>2
      <4>2. f[s] = Step[<<Max(s), f[s \ {Max(s)}]>>]
        BY <3>1, <3>2
      <4> QED
        BY <1>7, <1>a, <3>2, <4>1, <4>2
    <3> QED
      BY <3>1, <3>2
  <2>2. f = [s \in SUBSET (1..n) |-> f[s]]
    OBVIOUS
  <2> QED
    BY <1>3, <2>1, <2>2
<1>9. Is(g)
  <2> HIDE DEF Is
  <2> QED
    BY <1>8
<1>10. ASSUME NEW h, Is(h), NEW s \in SUBSET (1..n)
       PROVE  h[s] = IF s = {} THEN 0
                     ELSE Shift(h[s \ {Max(s)}], id[Max(s)])
  BY <1>3, <1>10
<1> HIDE DEF g, Is
<1>11. SameFold(g, f, n)
  <2> SUFFICES ASSUME NEW s \in SUBSET (1..n),
                      s = {} \/ g[s \ {Max(s)}] = f[s \ {Max(s)}]
               PROVE  g[s] = f[s]
    BY DEF SameFold
  <2>1. f[s] = IF s = {} THEN 0
               ELSE Shift(f[s \ {Max(s)}], id[Max(s)])
    BY <1>8, <1>10
  <2>2. g[s] = IF s = {} THEN 0
               ELSE Shift(g[s \ {Max(s)}], id[Max(s)])
    BY <1>9, <1>10
  <2> QED
    BY <2>1, <2>2
<1>12. ASSUME NEW i \in 1..n PROVE k[i] = Shift(k[i - 1], id[i])
  <2>1. k[i - 1] \in Nat
    BY <1>2
  <2>2. k[i] = Step[<<i, k[i - 1]>>]
    BY <1>6 DEF Through
  <2> QED
    BY <1>a, <2>1, <2>2
<1>13. k[0] = 0 /\ Atoi(part) = k[n]
  BY <1>1, <1>3, <1>6, <1>11 DEF Through
<1> QED
  BY <1>12, <1>13, Zenon DEF n, id

-----------------------------------------------------------------------------
(* Redact, text by text *)

\* No candidate lies across the place where v follows u.
Apart(u, v) ==
    ~ (/\ u # <<>> /\ v # <<>>
       /\ u[Len(u)][1] = 1 /\ v[1] = <<2, u[Len(u)][2]>>)

\* What is in two texts, one after the other.
LEMMA Joined ==
    ASSUME NEW T, NEW u \in Seq(T), NEW v \in Seq(T)
    PROVE  /\ u \o v \in Seq(T) /\ Len(u \o v) = Len(u) + Len(v)
           /\ \A i \in 1..Len(u) : (u \o v)[i] = u[i]
           /\ \A j \in 1..Len(v) : (u \o v)[Len(u) + j] = v[j]
BY ConcatProperties

\* Two sequences of which the second grows.
LEMMA AppendToJoined ==
    \A u, v \in Texts : \A x \in Pieces : Append(u \o v, x) = u \o Append(v, x)
<1> SUFFICES ASSUME NEW u \in Seq(Pieces), NEW v \in Seq(Pieces), NEW x \in Pieces
             PROVE  Append(u \o v, x) = u \o Append(v, x)
  BY DEF Texts
<1>1. Append(v, x) \in Seq(Pieces) /\ u \o v \in Seq(Pieces)
  OBVIOUS
<1>2. Append(u \o v, x) \in Seq(Pieces) /\ u \o Append(v, x) \in Seq(Pieces)
  BY <1>1
<1> QED
  BY <1>1, <1>2

\* A pattern finds in two texts that are apart what it finds in each.
LEMMA HitsJoined ==
    ASSUME NEW u \in Texts, NEW v \in Texts, Apart(u, v), NEW category
    PROVE  /\ \A i \in 1..Len(u) : Hit(u \o v, i, category) <=> Hit(u, i, category)
           /\ \A j \in 1..Len(v) :
                 Hit(u \o v, Len(u) + j, category) <=> Hit(v, j, category)
<1> DEFINE m == Len(u)
           n == Len(v)
           w == u \o v
<1>1. /\ Len(w) = m + n /\ m \in Nat /\ n \in Nat
      /\ \A i \in 1..m : w[i] = u[i]
      /\ \A j \in 1..n : w[m + j] = v[j]
  BY Joined DEF Texts
<1>2. ASSUME NEW i \in 1..m PROVE Hit(w, i, category) <=> Hit(u, i, category)
  <2>1. CASE i < m
    <3>1. w[i] = u[i] /\ w[i + 1] = u[i + 1] /\ i < Len(w)
      BY <1>1, <2>1
    <3> HIDE DEF w, m
    <3> QED
      BY <2>1, <3>1 DEF Hit, m
  <2>2. CASE i = m
    <3>1. ~Hit(u, i, category)
      BY <2>2 DEF Hit
    <3>2. ASSUME Hit(w, i, category) PROVE FALSE
      <4>1. i < Len(w) /\ w[i][1] = 1 /\ w[i + 1] = <<2, w[i][2]>>
        BY <3>2 DEF Hit
      <4>2. 1 \in 1..n /\ u # <<>> /\ v # <<>>
        BY <1>1, <2>2, <4>1
      <4>3. w[i] = u[m] /\ w[i + 1] = v[1]
        BY <1>1, <2>2, <4>2
      <4> HIDE DEF w
      <4> QED
        BY <4>1, <4>2, <4>3 DEF Apart
    <3> QED
      BY <3>1, <3>2
  <2> QED
    BY <1>1, <2>1, <2>2
<1>3. ASSUME NEW j \in 1..n PROVE Hit(w, m + j, category) <=> Hit(v, j, category)
  <2>1. CASE j < n
    <3>1. w[m + j] = v[j] /\ w[(m + j) + 1] = v[j + 1] /\ m + j < Len(w)
      <4>1. j + 1 \in 1..n /\ (m + j) + 1 = m + (j + 1)
        BY <1>1, <2>1
      <4> HIDE DEF w, m, n
      <4> QED
        BY <1>1, <2>1, <4>1
    <3> HIDE DEF w, m
    <3> QED
      BY <2>1, <3>1 DEF Hit, n
  <2>2. CASE j = n
    <3>1. ~Hit(v, j, category) /\ ~Hit(w, m + j, category)
      BY <1>1, <2>2 DEF Hit
    <3> QED
      BY <3>1
  <2> QED
    BY <1>1, <2>1, <2>2
<1> QED
  BY <1>2, <1>3

\* So a pattern can be applied to each of them.
LEMMA ReplaceJoined ==
    ASSUME NEW u \in Texts, NEW v \in Texts, Apart(u, v), NEW category \in Categories
    PROVE  ReplaceMatches(u \o v, category)
             = ReplaceMatches(u, category) \o ReplaceMatches(v, category)
<1> DEFINE m == Len(u)
           n == Len(v)
           w == u \o v
<1>1. /\ w \in Texts /\ Len(w) = m + n /\ m \in Nat /\ n \in Nat
      /\ \A i \in 1..m : w[i] = u[i]
      /\ \A j \in 1..n : w[m + j] = v[j]
      /\ \A j \in 1..n : v[j] \in Pieces
  BY Joined DEF Texts
<1>2. PICK k \in [0..Len(w) -> Texts] :
         /\ k[0] = <<>> /\ ReplaceMatches(w, category) = k[Len(w)]
         /\ \A i \in 1..Len(w) : k[i] = Replaced(w, category, i, k[i - 1])
  <2> HIDE DEF w
  <2> QED
    BY <1>1, ReplaceMatchesSteps
<1>3. PICK ku \in [0..m -> Texts] :
         /\ ku[0] = <<>> /\ ReplaceMatches(u, category) = ku[m]
         /\ \A i \in 1..m : ku[i] = Replaced(u, category, i, ku[i - 1])
  BY ReplaceMatchesSteps
<1>4. PICK kv \in [0..n -> Texts] :
         /\ kv[0] = <<>> /\ ReplaceMatches(v, category) = kv[n]
         /\ \A i \in 1..n : kv[i] = Replaced(v, category, i, kv[i - 1])
  BY ReplaceMatchesSteps
<1>5. /\ \A i \in 1..m : Hit(w, i, category) <=> Hit(u, i, category)
      /\ \A j \in 1..n : Hit(w, m + j, category) <=> Hit(v, j, category)
  BY HitsJoined
<1>6. ~Hit(u, m, category)
  BY DEF Hit
<1> HIDE DEF m, n, w
<1>7. \A i \in 0..m : k[i] = ku[i]
  <2> DEFINE Bad == {i \in 0..m : k[i] # ku[i]}
  <2>1. ASSUME Bad # {} PROVE FALSE
    <3>1. PICK i \in Bad : \A j \in Bad : i <= j
      <4>1. Bad \subseteq 0..m
        OBVIOUS
      <4> HIDE DEF Bad
      <4> QED
        BY <1>1, <2>1, <4>1, Least
    <3>2. i \in 1..m /\ k[i] # ku[i]
      BY <1>1, <1>2, <1>3
    <3>3. i - 1 \notin Bad /\ i - 1 \in 0..m
      <4> HIDE DEF Bad
      <4> QED
        BY <1>1, <3>1, <3>2
    <3>4. k[i - 1] = ku[i - 1]
      BY <3>3
    <3>5. i \in 1..Len(w) /\ w[i] = u[i]
      BY <1>1, <3>2
    <3>6. Hit(w, i, category) <=> Hit(u, i, category)
      BY <1>5, <3>2
    <3>7. i > 1 => (Hit(w, i - 1, category) <=> Hit(u, i - 1, category))
      BY <1>1, <1>5, <3>2
    <3>8. Replaced(w, category, i, ku[i - 1]) = Replaced(u, category, i, ku[i - 1])
      BY <3>5, <3>6, <3>7 DEF Replaced
    <3> QED
      BY <1>2, <1>3, <3>2, <3>4, <3>5, <3>8
  <2> QED
    BY <2>1
<1>8. \A j \in 0..n : k[m + j] = ku[m] \o kv[j]
  <2> DEFINE Bad == {j \in 0..n : k[m + j] # ku[m] \o kv[j]}
  <2>1. ASSUME Bad # {} PROVE FALSE
    <3>1. PICK j \in Bad : \A l \in Bad : j <= l
      <4>1. Bad \subseteq 0..n
        OBVIOUS
      <4> HIDE DEF Bad
      <4> QED
        BY <1>1, <2>1, <4>1, Least
    <3>2. j \in 0..n /\ k[m + j] # ku[m] \o kv[j]
      OBVIOUS
    <3>a. ku[m] \in Texts /\ ku[m] \in Seq(Pieces)
      BY <1>1 DEF Texts
    <3>3. j # 0
      <4>1. ku[m] \o <<>> = ku[m] /\ k[m] = ku[m] /\ m + 0 = m
        BY <1>1, <1>7, <3>a
      <4> QED
        BY <1>4, <3>2, <4>1
    <3>4. j \in 1..n /\ j - 1 \in 0..n
      BY <1>1, <3>2, <3>3
    <3>5. j - 1 \notin Bad
      <4> HIDE DEF Bad
      <4> QED
        BY <1>1, <3>1, <3>4
    <3> DEFINE a == ku[m]
               b == kv[j - 1]
               i == m + j
    <3>6. k[m + (j - 1)] = a \o b
      BY <3>4, <3>5
    <3>7. i \in 1..Len(w) /\ i - 1 = m + (j - 1) /\ w[i] = v[j] /\ v[j] \in Pieces
      BY <1>1, <3>4
    <3>8. b \in Seq(Pieces) /\ a \in Seq(Pieces)
      BY <3>4, <3>a DEF Texts
    <3>9. Hit(w, i, category) <=> Hit(v, j, category)
      BY <1>5, <3>4
    <3>10. (i > 1 /\ Hit(w, i - 1, category)) <=> (j > 1 /\ Hit(v, j - 1, category))
      <4>1. CASE j > 1
        <5>1. j - 1 \in 1..n
          BY <1>1, <3>4, <4>1
        <5> QED
          BY <1>1, <1>5, <3>7, <4>1, <5>1
      <4>2. CASE j = 1
        <5>1. i - 1 = m
          BY <1>1, <4>2
        <5>2. i > 1 => ~Hit(w, m, category)
          BY <1>1, <1>5, <1>6, <4>2
        <5> QED
          BY <4>2, <5>1, <5>2
      <4> QED
        BY <3>4, <4>1, <4>2
    <3>11. Replaced(w, category, i, a \o b) = a \o Replaced(v, category, j, b)
      <4>0. a \in Texts /\ b \in Texts
        BY <3>8 DEF Texts
      <4> HIDE DEF a, b
      <4>1. Append(a \o b, v[j]) = a \o Append(b, v[j])
        BY <3>7, <4>0, AppendToJoined
      <4>2. Append(a \o b, <<3, category>>) = a \o Append(b, <<3, category>>)
        BY <4>0, AppendToJoined, MarkersArePieces
      <4> HIDE DEF a, b, i
      <4> QED
        BY <3>7, <3>9, <3>10, <4>1, <4>2 DEF Replaced
    <3>12. k[i] = Replaced(w, category, i, k[i - 1])
      BY <1>2, <3>7
    <3>13. kv[j] = Replaced(v, category, j, b)
      BY <1>4, <3>4
    <3>14. k[i - 1] = a \o b
      <4> HIDE DEF a, b, i
      <4> QED
        BY <3>6, <3>7
    <3> HIDE DEF a, b
    <3> QED
      BY <3>2, <3>11, <3>12, <3>13, <3>14 DEF a
  <2> QED
    BY <2>1
<1>9. k[Len(w)] = ku[m] \o kv[n]
  BY <1>1, <1>8
<1> QED
  BY <1>2, <1>3, <1>4, <1>9 DEF w

\* Nothing of one is taken for the other's first half or second half then.
LEMMA ReplaceEnds ==
    ASSUME NEW u \in Texts, NEW category \in Categories
    PROVE  LET r == ReplaceMatches(u, category)
           IN  /\ u = <<>> => r = <<>>
               /\ u # <<>> => /\ r # <<>> /\ r[1] \in {u[1], <<3, category>>}
                              /\ r[Len(r)] \in {u[Len(u)], <<3, category>>}
<1> DEFINE n == Len(u)
           mark == <<3, category>>
<1>1. n \in Nat /\ \A i \in 1..n : u[i] \in Pieces
  BY DEF Texts
<1>2. PICK k \in [0..n -> Texts] :
         /\ k[0] = <<>> /\ ReplaceMatches(u, category) = k[n]
         /\ \A i \in 1..n : k[i] = Replaced(u, category, i, k[i - 1])
  BY ReplaceMatchesSteps
<1>3. CASE u = <<>>
  BY <1>2, <1>3
<1>4. CASE u # <<>>
  <2>1. n >= 1
    BY <1>1, <1>4 DEF Texts
  <2>2. mark \in Pieces
    BY MarkersArePieces
  <2> HIDE DEF n
  <2>3. \A i \in 1..n : k[i] # <<>> /\ k[i][1] \in {u[1], mark}
    <3> DEFINE Bad == {i \in 1..n : ~ (k[i] # <<>> /\ k[i][1] \in {u[1], mark})}
    <3>1. ASSUME Bad # {} PROVE FALSE
      <4>1. PICK i \in Bad : \A j \in Bad : i <= j
        <5>1. Bad \subseteq 0..n
          OBVIOUS
        <5> HIDE DEF Bad
        <5> QED
          BY <1>1, <3>1, <5>1, Least
      <4>2. i \in 1..n /\ ~ (k[i] # <<>> /\ k[i][1] \in {u[1], mark})
        OBVIOUS
      <4>3. k[i] = Replaced(u, category, i, k[i - 1]) /\ u[i] \in Pieces
        BY <1>1, <1>2, <4>2
      <4>4. CASE i = 1
        <5>1. k[i] = <<mark>> \/ k[i] = <<u[1]>>
          BY <1>2, <4>3, <4>4 DEF Replaced
        <5>2. k[i] # <<>> /\ k[i][1] \in {u[1], mark}
          <6> HIDE DEF mark
          <6> QED
            BY <5>1
        <5> QED
          BY <4>2, <5>2
      <4>5. CASE i # 1
        <5>1. i - 1 \in 1..n /\ i - 1 \notin Bad
          <6> HIDE DEF Bad
          <6> QED
            BY <1>1, <4>1, <4>2, <4>5
        <5> DEFINE a == k[i - 1]
        <5>2. a # <<>> /\ a[1] \in {u[1], mark}
          BY <5>1
        <5>3. a \in Seq(Pieces)
          BY <1>1, <5>1 DEF Texts
        <5> HIDE DEF a
        <5>4. k[i] \in {a, Append(a, mark), Append(a, u[i])}
          BY <4>3 DEF Replaced, a
        <5>5. Append(a, mark)[1] = a[1] /\ Append(a, u[i])[1] = a[1]
          BY <2>2, <4>3, <5>2, <5>3
        <5>6. Append(a, mark) # <<>> /\ Append(a, u[i]) # <<>>
          BY <2>2, <4>3, <5>3
        <5> QED
          BY <4>2, <5>2, <5>4, <5>5, <5>6
      <4> QED
        BY <4>4, <4>5
    <3> QED
      BY <3>1
  <2>4. ASSUME NEW i \in 1..n, k[i] = Append(k[i - 1], mark)
            \/ k[i] = Append(k[i - 1], u[i])
        PROVE  k[i][Len(k[i])] \in {u[i], mark}
    <3>1. k[i - 1] \in Seq(Pieces) /\ u[i] \in Pieces
      BY <1>1 DEF Texts
    <3> QED
      BY <2>2, <2>4, <3>1
  <2>5. k[n][Len(k[n])] \in {u[n], mark}
    <3>1. ~Hit(u, n, category)
      BY DEF Hit, n
    <3>2. k[n] = Replaced(u, category, n, k[n - 1])
      BY <1>1, <1>2, <2>1
    <3>3. CASE n > 1 /\ Hit(u, n - 1, category)
      <4>1. k[n] = k[n - 1]
        BY <3>1, <3>2, <3>3 DEF Replaced
      <4>2. n - 1 \in 1..n
        BY <1>1, <3>3
      <4>3. k[n - 1] = Append(k[(n - 1) - 1], mark)
        BY <1>2, <3>3, <4>2 DEF Replaced
      <4>4. k[n - 1][Len(k[n - 1])] = mark
        <5>1. k[(n - 1) - 1] \in Seq(Pieces)
          BY <1>1, <4>2 DEF Texts
        <5> QED
          BY <2>2, <4>3, <5>1
      <4> QED
        BY <4>1, <4>4
    <3>4. CASE ~ (n > 1 /\ Hit(u, n - 1, category))
      <4>1. k[n] = Append(k[n - 1], u[n])
        BY <3>1, <3>2, <3>4 DEF Replaced
      <4> QED
        BY <1>1, <2>1, <2>4, <4>1
    <3> QED
      BY <3>3, <3>4
  <2>6. k[n] # <<>> /\ k[n][1] \in {u[1], mark}
    BY <1>1, <2>1, <2>3
  <2> QED
    BY <1>2, <1>4, <2>5, <2>6 DEF n
<1> QED
  BY <1>3, <1>4

\* Texts that are apart stay apart.
LEMMA ApartKept ==
    ASSUME NEW u \in Texts, NEW v \in Texts, Apart(u, v), NEW category \in Categories
    PROVE  Apart(ReplaceMatches(u, category), ReplaceMatches(v, category))
<1> DEFINE a == ReplaceMatches(u, category)
           b == ReplaceMatches(v, category)
           mark == <<3, category>>
<1>1. /\ u = <<>> => a = <<>>
      /\ u # <<>> => a[Len(a)] \in {u[Len(u)], mark}
  BY ReplaceEnds
<1>2. /\ v = <<>> => b = <<>>
      /\ v # <<>> => b[1] \in {v[1], mark}
  BY ReplaceEnds
<1> HIDE DEF a, b
<1>3. ASSUME ~Apart(a, b) PROVE FALSE
  <2>1. a # <<>> /\ b # <<>> /\ a[Len(a)][1] = 1 /\ b[1] = <<2, a[Len(a)][2]>>
    BY <1>3 DEF Apart
  <2>2. mark[1] = 3 /\ u # <<>> /\ v # <<>>
    BY <1>1, <1>2, <2>1
  <2>3. a[Len(a)] # mark /\ b[1] # mark
    BY <2>1, <2>2
  <2>4. a[Len(a)] = u[Len(u)] /\ b[1] = v[1]
    BY <1>1, <1>2, <2>2, <2>3
  <2> QED
    BY <2>1, <2>2, <2>4 DEF Apart
<1> QED
  BY <1>3 DEF a, b

\* What is redacted in two texts, one after the other.
Both(r, s) == [text |-> r.text \o s.text, cats |-> r.cats \cup s.cats]

\* The same, with the categories that are found.
LEMMA ApplyJoined ==
    ASSUME NEW r \in Results, NEW s \in Results, Apart(r.text, s.text),
           NEW category \in Categories
    PROVE  /\ Apply(Both(r, s), category) = Both(Apply(r, category), Apply(s, category))
           /\ Apart(Apply(r, category).text, Apply(s, category).text)
<1> DEFINE u == r.text
           v == s.text
           w == u \o v
           Some(t) == \E i \in DOMAIN t : Hit(t, i, category)
<1>1. u \in Texts /\ v \in Texts /\ w \in Texts
  BY Joined DEF Results, Texts
<1>2. ReplaceMatches(w, category)
          = ReplaceMatches(u, category) \o ReplaceMatches(v, category)
  BY <1>1, ReplaceJoined
<1>3. Apart(ReplaceMatches(u, category), ReplaceMatches(v, category))
  BY <1>1, ApartKept
<1>4. Some(w) <=> Some(u) \/ Some(v)
  <2>1. /\ \A i \in 1..Len(u) : Hit(w, i, category) <=> Hit(u, i, category)
        /\ \A j \in 1..Len(v) : Hit(w, Len(u) + j, category) <=> Hit(v, j, category)
    BY <1>1, HitsJoined
  <2>2. /\ DOMAIN u = 1..Len(u) /\ DOMAIN v = 1..Len(v)
        /\ DOMAIN w = 1..(Len(u) + Len(v)) /\ Len(u) \in Nat /\ Len(v) \in Nat
    BY <1>1, Joined DEF Texts
  <2> HIDE DEF u, v, w
  <2>3. ASSUME Some(w) PROVE Some(u) \/ Some(v)
    <3>1. PICK i \in 1..(Len(u) + Len(v)) : Hit(w, i, category)
      BY <2>2, <2>3
    <3>2. CASE i \in 1..Len(u)
      BY <2>1, <2>2, <3>1, <3>2
    <3>3. CASE i \notin 1..Len(u)
      <4>1. i - Len(u) \in 1..Len(v) /\ i = Len(u) + (i - Len(u))
        BY <2>2, <3>3
      <4>2. Hit(v, i - Len(u), category)
        BY <2>1, <3>1, <4>1
      <4> QED
        BY <2>2, <4>1, <4>2
    <3> QED
      BY <3>2, <3>3
  <2>4. ASSUME Some(u) PROVE Some(w)
    <3>1. PICK i \in 1..Len(u) : Hit(u, i, category)
      BY <2>2, <2>4
    <3>2. i \in DOMAIN w /\ Hit(w, i, category)
      BY <2>1, <2>2, <3>1
    <3> QED
      BY <3>2
  <2>5. ASSUME Some(v) PROVE Some(w)
    <3>1. PICK j \in 1..Len(v) : Hit(v, j, category)
      BY <2>2, <2>5
    <3>2. Len(u) + j \in DOMAIN w /\ Hit(w, Len(u) + j, category)
      BY <2>1, <2>2, <3>1
    <3> QED
      BY <3>2
  <2> HIDE DEF Some
  <2> QED
    BY <2>3, <2>4, <2>5
<1>5. /\ Apply(r, category).text = ReplaceMatches(u, category)
      /\ Apply(s, category).text = ReplaceMatches(v, category)
      /\ Apply(r, category).cats = IF Some(u) THEN r.cats \cup {category} ELSE r.cats
      /\ Apply(s, category).cats = IF Some(v) THEN s.cats \cup {category} ELSE s.cats
  BY DEF Apply
<1>6. Apply(Both(r, s), category) =
         [text |-> ReplaceMatches(w, category),
          cats |-> IF Some(w) THEN (r.cats \cup s.cats) \cup {category}
                   ELSE r.cats \cup s.cats]
  BY DEF Apply, Both
<1>7. (IF Some(w) THEN (r.cats \cup s.cats) \cup {category} ELSE r.cats \cup s.cats)
        = Apply(r, category).cats \cup Apply(s, category).cats
  <2> HIDE DEF Some
  <2> QED
    BY <1>4, <1>5
<1> HIDE DEF Some, u, v, w
<1> QED
  BY <1>2, <1>3, <1>5, <1>6, <1>7 DEF Both

\* Redact can be applied to texts that are apart one by one.
LEMMA RedactJoined ==
    ASSUME NEW u \in Texts, NEW v \in Texts, Apart(u, v)
    PROVE  Redact(u \o v) = Both(Redact(u), Redact(v))
<1> DEFINE w == u \o v
           p == defaultPIIPatterns
<1>1. w \in Texts /\ Len(p) = 5 /\ \A i \in 1..5 : p[i] \in Categories
  BY Joined, PatternsAre DEF Texts
<1>2. PICK k \in [0..5 -> Results] :
         /\ k[0] = Unredacted(w) /\ Redact(w) = k[5]
         /\ \A i \in 1..5 : k[i] = Apply(k[i - 1], p[i])
  <2> HIDE DEF w
  <2> QED
    BY <1>1, RedactSteps
<1>3. PICK ku \in [0..5 -> Results] :
         /\ ku[0] = Unredacted(u) /\ Redact(u) = ku[5]
         /\ \A i \in 1..5 : ku[i] = Apply(ku[i - 1], p[i])
  BY <1>1, RedactSteps
<1>4. PICK kv \in [0..5 -> Results] :
         /\ kv[0] = Unredacted(v) /\ Redact(v) = kv[5]
         /\ \A i \in 1..5 : kv[i] = Apply(kv[i - 1], p[i])
  BY <1>1, RedactSteps
<1> DEFINE So(i) == k[i] = Both(ku[i], kv[i]) /\ Apart(ku[i].text, kv[i].text)
<1>5. So(0)
  BY <1>2, <1>3, <1>4 DEF Unredacted, Both
<1>6. ASSUME NEW i \in 1..5, So(i - 1) PROVE So(i)
  <2>1. i - 1 \in 0..5 /\ ku[i - 1] \in Results /\ kv[i - 1] \in Results
    OBVIOUS
  <2>2. /\ k[i] = Apply(Both(ku[i - 1], kv[i - 1]), p[i])
        /\ ku[i] = Apply(ku[i - 1], p[i]) /\ kv[i] = Apply(kv[i - 1], p[i])
    BY <1>2, <1>3, <1>4, <1>6
  <2> QED
    BY <1>1, <1>6, <2>1, <2>2, ApplyJoined
<1>7. So(5)
  <2> HIDE DEF So
  <2>1. So(1)
    BY <1>5, <1>6
  <2>2. So(2)
    BY <1>6, <2>1
  <2>3. So(3)
    BY <1>6, <2>2
  <2>4. So(4)
    BY <1>6, <2>3
  <2> QED
    BY <1>6, <2>4
<1> QED
  BY <1>2, <1>3, <1>4, <1>7

\* A text of two pieces.
LEMMA TwoPieces ==
    ASSUME NEW a, NEW b
    PROVE  Append(<<a>>, b) = <<a, b>>
<1> DEFINE S == {a, b}
           s == <<a>>
           t == <<a, b>>
<1>1. s \in Seq(S) /\ b \in S /\ t \in Seq(S)
  OBVIOUS
<1>2. Len(s) = 1 /\ s[1] = a /\ Len(t) = 2 /\ t[1] = a /\ t[2] = b
  OBVIOUS
<1> HIDE DEF s, t, S
<1>3. Append(s, b) \in Seq(S) /\ Len(Append(s, b)) = 2
      /\ Append(s, b)[1] = a /\ Append(s, b)[2] = b
  <2>1. Append(s, b) \in Seq(S) /\ Len(Append(s, b)) = Len(s) + 1
    BY <1>1, AppendProperties
  <2>2. Append(s, b)[1] = s[1]
    BY <1>1, <1>2, AppendProperties
  <2>3. Append(s, b)[Len(s) + 1] = b
    BY <1>1, AppendProperties
  <2>4. Append(s, b)[2] = b
    BY <1>2, <2>3
  <2> QED
    BY <1>2, <2>1, <2>2, <2>4
<1>4. Append(s, b) = t
  BY <1>1, <1>2, <1>3
<1> QED
  BY <1>4 DEF s, t

\* A text in which a pattern finds nothing stays as it is; two pieces are all
\* that is needed.
LEMMA NothingToReplace ==
    ASSUME NEW r \in Results, Len(r.text) <= 2, NEW category \in Categories,
           ~Hit(r.text, 1, category)
    PROVE  Apply(r, category) = r
<1> DEFINE t == r.text
           n == Len(t)
<1>1. t \in Seq(Pieces) /\ n \in {0, 1, 2} /\ t \in Texts
          /\ r = [text |-> t, cats |-> r.cats]
  <2>1. t \in Texts /\ r = [text |-> t, cats |-> r.cats]
    BY DEF Results
  <2>2. t \in Seq(Pieces) /\ n \in Nat
    BY <2>1 DEF Texts
  <2>3. n <= 2
    OBVIOUS
  <2> HIDE DEF n, t
  <2>4. n \in {0, 1, 2}
    BY <2>2, <2>3
  <2> QED
    BY <2>1, <2>2, <2>4
<1>2. \A i \in 1..n : ~Hit(t, i, category)
  <2>1. ASSUME NEW i \in 1..n PROVE ~Hit(t, i, category)
    <3>1. i = 1 \/ i = n
      BY <1>1
    <3>2. ~Hit(t, n, category)
      BY DEF Hit
    <3> QED
      BY <3>1, <3>2
  <2> QED
    BY <2>1
<1>3. PICK k \in [0..n -> Texts] :
         /\ k[0] = <<>> /\ ReplaceMatches(t, category) = k[n]
         /\ \A i \in 1..n : k[i] = Replaced(t, category, i, k[i - 1])
  BY <1>1, ReplaceMatchesSteps
<1>4. \A i \in 1..n : k[i] = Append(k[i - 1], t[i])
  <2>1. ASSUME NEW i \in 1..n PROVE k[i] = Append(k[i - 1], t[i])
    <3>1. i > 1 => ~Hit(t, i - 1, category)
      BY <1>1, <1>2
    <3>2. ~Hit(t, i, category)
      BY <1>2
    <3> HIDE DEF t, n
    <3> QED
      BY <1>3, <3>1, <3>2 DEF Replaced
  <2> QED
    BY <2>1
<1> HIDE DEF n
<1>5. k[n] = t
  <2>1. CASE n = 0
    BY <1>1, <1>3, <2>1 DEF n
  <2>2. CASE n = 1
    <3>1. k[1] = Append(k[0], t[1])
      BY <1>4, <2>2
    <3>2. t = <<t[1]>>
      BY <1>1, <2>2 DEF n
    <3> HIDE DEF t
    <3> QED
      BY <1>3, <2>2, <3>1, <3>2
  <2>3. CASE n = 2
    <3>1. k[1] = Append(k[0], t[1]) /\ k[2] = Append(k[1], t[2])
      BY <1>4, <2>3
    <3>2. t = <<t[1], t[2]>>
      BY <1>1, <2>3 DEF n
    <3>3. k[2] = <<t[1], t[2]>>
      <4>1. k[1] = <<t[1]>>
        BY <1>3, <3>1
      <4> HIDE DEF t
      <4>2. Append(<<t[1]>>, t[2]) = <<t[1], t[2]>>
        BY TwoPieces
      <4> QED
        BY <3>1, <4>1, <4>2
    <3> QED
      BY <2>3, <3>2, <3>3
  <2> QED
    BY <1>1, <2>1, <2>2, <2>3
<1>6. ~ \E i \in DOMAIN t : Hit(t, i, category)
  BY <1>1, <1>2 DEF n
<1> QED
  BY <1>1, <1>3, <1>5, <1>6 DEF Apply

\* The two halves of a candidate, and a pattern that takes it.
Pair(c) == <<<<1, c>>, <<2, c>>>>
Takes(category, c) == category \in c.matches /\ validate(category, c)

\* A pattern finds a candidate that it takes, and finds no other.
LEMMA PairFacts ==
    ASSUME NEW c \in Candidates
    PROVE  /\ Pair(c) \in Texts /\ Unredacted(Pair(c)) \in Results
           /\ Unredacted(<<<<1, c>>>>) \in Results
           /\ \A category : Hit(Pair(c), 1, category) <=> Takes(category, c)
<1>1. <<1, c>> \in Pieces /\ <<2, c>> \in Pieces
  BY DEF Pieces
<1>2. Pair(c) \in Texts /\ <<<<1, c>>>> \in Texts
  BY <1>1 DEF Pair, Texts
<1>3. Pair(c)[1] = <<1, c>> /\ Pair(c)[2] = <<2, c>> /\ Len(Pair(c)) = 2
  BY DEF Pair
<1>4. ASSUME NEW category PROVE Hit(Pair(c), 1, category) <=> Takes(category, c)
  <2>1. Pair(c)[1][2] = c /\ Pair(c)[1][1] = 1 /\ Pair(c)[1 + 1] = <<2, c>>
    BY <1>3
  <2> QED
    BY <1>3, <2>1 DEF Hit, Takes
<1> QED
  BY <1>2, <1>4 DEF Results, Unredacted

\* The first pattern that takes a candidate leaves its marker.
Marked(category) == [text |-> <<<<3, category>>>>, cats |-> {category}]

\* The other way around: nothing of the candidate is left.
LEMMA PairIsMarked ==
    ASSUME NEW c \in Candidates, NEW category \in Categories, Takes(category, c)
    PROVE  Apply(Unredacted(Pair(c)), category) = Marked(category)
<1> DEFINE t == Pair(c)
           mark == <<3, category>>
<1>1. t \in Texts /\ Len(t) = 2 /\ Hit(t, 1, category) /\ ~Hit(t, 2, category)
  <2>1. t \in Texts /\ Hit(t, 1, category)
    BY PairFacts
  <2>2. Len(t) = 2
    BY DEF Pair
  <2> HIDE DEF t
  <2>3. ~Hit(t, 2, category)
    BY <2>2 DEF Hit
  <2> QED
    BY <2>1, <2>2, <2>3
<1>2. PICK k \in [0..2 -> Texts] :
         /\ k[0] = <<>> /\ ReplaceMatches(t, category) = k[2]
         /\ \A i \in 1..2 : k[i] = Replaced(t, category, i, k[i - 1])
  <2> HIDE DEF t
  <2>1. \E k \in [0..Len(t) -> Texts] :
           /\ k[0] = <<>> /\ ReplaceMatches(t, category) = k[Len(t)]
           /\ \A i \in 1..Len(t) : k[i] = Replaced(t, category, i, k[i - 1])
    BY <1>1, ReplaceMatchesSteps
  <2> QED
    BY <1>1, <2>1
<1> HIDE DEF t
<1>3. k[1] = <<mark>>
  BY <1>1, <1>2 DEF Replaced
<1>4. k[2] = k[1]
  <2>1. k[2] = Replaced(t, category, 2, k[1])
    BY <1>2
  <2> QED
    BY <1>1, <2>1 DEF Replaced
<1>5. \E i \in DOMAIN t : Hit(t, i, category)
  BY <1>1 DEF Texts
<1>6. Apply(Unredacted(t), category) =
        [text |-> ReplaceMatches(t, category), cats |-> {category}]
  BY <1>5 DEF Apply, Unredacted
<1> QED
  BY <1>2, <1>3, <1>4, <1>6 DEF Marked, t

\* A result of at most one piece is final.
LEMMA OnePiece ==
    ASSUME NEW r \in Results, Len(r.text) <= 1, NEW category \in Categories
    PROVE  Apply(r, category) = r
<1>1. Len(r.text) \in Nat /\ ~Hit(r.text, 1, category)
  BY DEF Hit, Results, Texts
<1> QED
  BY <1>1, NothingToReplace

\* Half a candidate is none.
LEMMA RedactShort ==
    ASSUME NEW text \in Texts, Len(text) <= 1
    PROVE  Redact(text) = Unredacted(text)
<1> DEFINE p == defaultPIIPatterns
           r == Unredacted(text)
<1>1. PICK k \in [0..5 -> Results] :
         /\ k[0] = r /\ Redact(text) = k[5]
         /\ \A i \in 1..5 : k[i] = Apply(k[i - 1], p[i])
  BY PatternsAre, RedactSteps
<1>2. r \in Results /\ Len(r.text) <= 1
  BY DEF Results, Unredacted
<1>3. ASSUME NEW i \in 1..5, k[i - 1] = r PROVE k[i] = r
  <2>1. k[i] = Apply(r, p[i]) /\ p[i] \in Categories
    BY <1>1, <1>3, PatternsAre
  <2> HIDE DEF r
  <2> QED
    BY <1>2, <2>1, OnePiece
<1> HIDE DEF r
<1>4. k[1] = r
  BY <1>1, <1>3
<1>5. k[2] = r
  BY <1>3, <1>4
<1>6. k[3] = r
  BY <1>3, <1>5
<1>7. k[4] = r
  BY <1>3, <1>6
<1>8. k[5] = r
  BY <1>3, <1>7
<1> QED
  BY <1>1, <1>8 DEF r

\* Taking is the first pattern that takes a candidate.
LEMMA TakingIs ==
    ASSUME NEW c
    PROVE  \/ /\ Taking(c) = {}
              /\ \A i \in 1..5 : ~Takes(defaultPIIPatterns[i], c)
           \/ \E i \in 1..5 :
                 /\ Taking(c) = {defaultPIIPatterns[i]}
                 /\ Takes(defaultPIIPatterns[i], c)
                 /\ \A j \in 1..(i - 1) : ~Takes(defaultPIIPatterns[j], c)
<1> DEFINE p == defaultPIIPatterns
           takers == {i \in DOMAIN p : p[i] \in c.matches /\ validate(p[i], c)}
<1>1. DOMAIN p = 1..5
  BY PatternsAre
<1>2. takers = {i \in 1..5 : Takes(p[i], c)}
  BY <1>1 DEF Takes
<1>3. Taking(c) = IF takers = {} THEN {} ELSE {p[Min(takers)]}
  BY DEF Taking
<1> HIDE DEF takers
<1>4. CASE takers = {}
  BY <1>2, <1>3, <1>4
<1>5. CASE takers # {}
  <2>1. PICK i \in takers : \A j \in takers : i <= j
    <3>1. takers \subseteq 0..5
      BY <1>2
    <3> QED
      BY <1>5, <3>1, Least
  <2>2. Min(takers) \in takers /\ \A j \in takers : Min(takers) <= j
    BY <2>1 DEF Min
  <2> DEFINE m == Min(takers)
  <2>3. m \in 1..5 /\ Takes(p[m], c)
    BY <1>2, <2>2
  <2>4. ASSUME NEW j \in 1..(m - 1) PROVE ~Takes(p[j], c)
    <3>1. j \in 1..5 /\ j < m
      BY <2>3
    <3>2. j \notin takers
      BY <2>2, <2>3, <3>1
    <3> QED
      BY <1>2, <3>1, <3>2
  <2>5. Taking(c) = {p[m]}
    BY <1>3, <1>5
  <2> HIDE DEF m
  <2> QED
    BY <2>3, <2>4, <2>5
<1> QED
  BY <1>4, <1>5

\* All patterns together leave the marker of that one, or the candidate.
LEMMA RedactPair ==
    ASSUME NEW c \in Candidates
    PROVE  \/ Taking(c) = {} /\ Redact(Pair(c)) = Unredacted(Pair(c))
           \/ \E category \in Categories :
                 Taking(c) = {category} /\ Redact(Pair(c)) = Marked(category)
<1> DEFINE p == defaultPIIPatterns
           r == Unredacted(Pair(c))
<1>1. /\ Pair(c) \in Texts /\ r \in Results /\ Len(r.text) <= 2
      /\ \A category : Hit(r.text, 1, category) <=> Takes(category, c)
  <2>1. r.text = Pair(c) /\ Len(Pair(c)) = 2
    BY DEF Unredacted, Pair
  <2>2. Pair(c) \in Texts /\ r \in Results
    BY PairFacts
  <2>3. \A category : Hit(Pair(c), 1, category) <=> Takes(category, c)
    BY PairFacts
  <2> HIDE DEF r
  <2> QED
    BY <2>1, <2>2, <2>3
<1>2. PICK k \in [0..5 -> Results] :
         /\ k[0] = r /\ Redact(Pair(c)) = k[5]
         /\ \A i \in 1..5 : k[i] = Apply(k[i - 1], p[i])
  BY <1>1, PatternsAre, RedactSteps
<1>3. \A i \in 1..5 : p[i] \in Categories
  BY PatternsAre
<1> HIDE DEF r
<1>4. ASSUME NEW i \in 1..5, k[i - 1] = r, ~Takes(p[i], c) PROVE k[i] = r
  BY <1>1, <1>2, <1>3, <1>4, NothingToReplace
<1>5. ASSUME NEW i \in 1..5, k[i - 1] = r, Takes(p[i], c) PROVE k[i] = Marked(p[i])
  BY <1>2, <1>3, <1>5, PairIsMarked DEF r
<1>6. ASSUME NEW i \in 1..5, NEW category \in Categories, k[i - 1] = Marked(category)
      PROVE  k[i] = Marked(category)
  <2>1. Marked(category) \in Results /\ Len(Marked(category).text) <= 1
    BY MarkersArePieces DEF Marked, Results, Texts
  <2> QED
    BY <1>2, <1>3, <1>6, <2>1, OnePiece
<1>7. CASE Taking(c) = {} /\ \A i \in 1..5 : ~Takes(p[i], c)
  <2>1. k[1] = r
    BY <1>2, <1>4, <1>7
  <2>2. k[2] = r
    BY <1>4, <1>7, <2>1
  <2>3. k[3] = r
    BY <1>4, <1>7, <2>2
  <2>4. k[4] = r
    BY <1>4, <1>7, <2>3
  <2>5. k[5] = r
    BY <1>4, <1>7, <2>4
  <2> QED
    BY <1>2, <1>7, <2>5 DEF r
<1>8. ASSUME NEW i \in 1..5, Taking(c) = {p[i]}, Takes(p[i], c),
             \A j \in 1..(i - 1) : ~Takes(p[j], c)
      PROVE  Redact(Pair(c)) = Marked(p[i])
  <2> DEFINE So(j) == k[j] = IF j < i THEN r ELSE Marked(p[i])
  <2>1. So(0)
    BY <1>2
  <2>2. ASSUME NEW j \in 1..5, So(j - 1) PROVE So(j)
    <3>1. CASE j < i
      <4>1. j \in 1..(i - 1) /\ k[j - 1] = r
        BY <2>2, <3>1
      <4> QED
        BY <1>4, <1>8, <3>1, <4>1
    <3>2. CASE j = i
      <4>1. k[j - 1] = r
        BY <2>2, <3>2
      <4> QED
        BY <1>5, <1>8, <3>2, <4>1
    <3>3. CASE j > i
      <4>1. k[j - 1] = Marked(p[i])
        BY <2>2, <3>3
      <4> QED
        BY <1>3, <1>6, <3>3, <4>1
    <3> QED
      BY <3>1, <3>2, <3>3
  <2>3. So(5)
    <3> HIDE DEF So
    <3>1. So(1)
      BY <2>1, <2>2
    <3>2. So(2)
      BY <2>2, <3>1
    <3>3. So(3)
      BY <2>2, <3>2
    <3>4. So(4)
      BY <2>2, <3>3
    <3> QED
      BY <2>2, <3>4
  <2> QED
    BY <1>2, <2>3
<1> QED
  BY <1>3, <1>7, <1>8, TakingIs

\* The parts of a text that Clean puts together.
CleanParts(text) ==
    [i \in DOMAIN text |->
        IF i \in Hits(text) THEN <<<<3, CHOOSE c \in Taking(text[i][2]) : TRUE>>>>
        ELSE IF i - 1 \in Hits(text) THEN <<>> ELSE <<text[i]>>]

\* The type of Clean.
LEMMA CleanIs ==
    ASSUME NEW text \in Texts
    PROVE  /\ CleanParts(text) \in Seq(Seq(Pieces)) /\ Len(CleanParts(text)) = Len(text)
           /\ Clean(text) = FlattenSeq(CleanParts(text)) /\ Clean(text) \in Texts
<1>1. text \in Seq(Pieces) /\ Len(text) \in Nat /\ DOMAIN text = 1..Len(text)
  BY DEF Texts
<1>2. ASSUME NEW i \in Hits(text)
      PROVE  <<3, CHOOSE c \in Taking(text[i][2]) : TRUE>> \in Pieces
  <2>1. Taking(text[i][2]) # {}
    BY DEF Hits
  <2>2. PICK category \in Categories : Taking(text[i][2]) = {category}
    BY <2>1, TakingIs, PatternsAre
  <2> QED
    BY <2>2, MarkersArePieces
<1>3. ASSUME NEW i \in 1..Len(text) PROVE CleanParts(text)[i] \in Seq(Pieces)
  <2>1. text[i] \in Pieces
    BY <1>1
  <2>2. CASE i \in Hits(text)
    BY <1>1, <1>2, <2>2 DEF CleanParts
  <2>3. CASE i \notin Hits(text)
    BY <1>1, <2>1, <2>3 DEF CleanParts
  <2> QED
    BY <2>2, <2>3
<1>4. CleanParts(text) \in Seq(Seq(Pieces)) /\ Len(CleanParts(text)) = Len(text)
  <2>1. CleanParts(text) = [i \in 1..Len(text) |-> CleanParts(text)[i]]
    BY <1>1 DEF CleanParts
  <2> QED
    BY <1>1, <1>3, <2>1
<1>5. Clean(text) = FlattenSeq(CleanParts(text))
  BY DEF Clean, CleanParts
<1> QED
  BY <1>4, <1>5, FlattenType DEF Texts

\* Where no candidate begins, Clean copies.
LEMMA CleanCopies ==
    ASSUME NEW u \in Texts, NEW x \in Pieces, Len(u) \notin Hits(Append(u, x))
    PROVE  /\ Clean(Append(u, x)) = Append(Clean(u), x)
           /\ CatsIn(Append(u, x)) = CatsIn(u)
           /\ Hits(Append(u, x)) = Hits(u)
<1> DEFINE w == Append(u, x)
           n == Len(u)
<1>1. /\ u \in Seq(Pieces) /\ n \in Nat /\ w \in Texts /\ Len(w) = n + 1
      /\ w[n + 1] = x /\ \A i \in 1..n : w[i] = u[i]
  BY DEF Texts
<1>2. n \notin Hits(w)
  OBVIOUS
<1> HIDE DEF w
<1>3. ASSUME NEW i PROVE i \in Hits(w) <=> i \in Hits(u)
  <2>1. CASE i \in 1..(n - 1)
    <3>1. w[i] = u[i] /\ w[i + 1] = u[i + 1]
      BY <1>1, <2>1
    <3> QED
      BY <1>1, <2>1, <3>1 DEF Hits
  <2>2. CASE i \notin 1..(n - 1)
    <3>1. i \notin Hits(u)
      BY <2>2 DEF Hits
    <3>2. i \in Hits(w) => i = n
      BY <1>1, <2>2 DEF Hits
    <3> QED
      BY <1>2, <3>1, <3>2
  <2> QED
    BY <2>1, <2>2
<1>4. Hits(w) = Hits(u) /\ Hits(u) \subseteq 1..n
  <2>1. Hits(w) = Hits(u)
    BY <1>3
  <2>2. Hits(u) \subseteq 1..n
    BY <1>1 DEF Hits
  <2> QED
    BY <2>1, <2>2
<1>5. CleanParts(w) = Append(CleanParts(u), <<x>>)
  <2>1. /\ CleanParts(u) \in Seq(Seq(Pieces)) /\ Len(CleanParts(u)) = n
        /\ CleanParts(w) \in Seq(Seq(Pieces)) /\ Len(CleanParts(w)) = n + 1
    BY <1>1, CleanIs
  <2>2. DOMAIN w = 1..(n + 1) /\ DOMAIN u = 1..n
    BY <1>1 DEF Texts
  <2>3. ASSUME NEW i \in 1..n PROVE CleanParts(w)[i] = CleanParts(u)[i]
    <3>1. w[i] = u[i] /\ i \in DOMAIN w /\ i \in DOMAIN u
      BY <1>1, <2>2
    <3> QED
      BY <1>4, <3>1 DEF CleanParts
  <2>4. CleanParts(w)[n + 1] = <<x>>
    <3>1. n + 1 \notin Hits(w) /\ (n + 1) - 1 = n /\ n + 1 \in DOMAIN w
      BY <1>1, <1>4, <2>2
    <3> QED
      BY <1>1, <1>2, <3>1 DEF CleanParts
  <2> DEFINE a == CleanParts(w)
             b == CleanParts(u)
             y == <<x>>
  <2>5. y \in Seq(Pieces)
    OBVIOUS
  <2> HIDE DEF a, b, y
  <2>6. /\ Append(b, y) \in Seq(Seq(Pieces)) /\ Len(Append(b, y)) = n + 1
        /\ \A i \in 1..n : Append(b, y)[i] = b[i]
        /\ Append(b, y)[n + 1] = y
    <3>1. b \in Seq(Seq(Pieces)) /\ Len(b) = n
      BY <2>1 DEF b
    <3> QED
      BY <2>5, <3>1, AppendProperties
  <2>7. a = Append(b, y)
    <3>1. a \in Seq(Seq(Pieces)) /\ Len(a) = n + 1 /\ a[n + 1] = y
      BY <2>1, <2>4 DEF a, y
    <3>2. \A i \in 1..n : a[i] = b[i]
      BY <2>3 DEF a, b
    <3>3. \A i \in 1..(n + 1) : a[i] = Append(b, y)[i]
      BY <1>1, <2>6, <3>1, <3>2
    <3> QED
      BY <2>6, <3>1, <3>3, SeqEqual
  <2> QED
    BY <2>7 DEF a, b, y
<1>6. Clean(w) = Clean(u) \o <<x>>
  <2>1. CleanParts(u) \in Seq(Seq(Pieces)) /\ <<x>> \in Seq(Pieces)
    BY CleanIs
  <2>2. FlattenSeq(Append(CleanParts(u), <<x>>)) = FlattenSeq(CleanParts(u)) \o <<x>>
    BY <2>1, FlattenAppend
  <2> QED
    BY <1>1, <1>5, <2>2, CleanIs
<1>7. Clean(u) \o <<x>> = Append(Clean(u), x)
  BY CleanIs, AppendIsConcat DEF Texts
<1>8. CatsIn(w) = CatsIn(u)
  <2>1. {Taking(w[i][2]) : i \in Hits(w)} = {Taking(u[i][2]) : i \in Hits(u)}
    BY <1>1, <1>4
  <2> QED
    BY <2>1 DEF CatsIn
<1> QED
  BY <1>4, <1>6, <1>7, <1>8 DEF w

\* A candidate that a pattern takes is replaced by its marker.
LEMMA CleanMarks ==
    ASSUME NEW u \in Texts, NEW c \in Candidates, NEW category \in Categories,
           Taking(c) = {category}
    PROVE  /\ Clean(u \o Pair(c)) = Append(Clean(u), <<3, category>>)
           /\ CatsIn(u \o Pair(c)) = CatsIn(u) \cup {category}
<1> DEFINE w == u \o Pair(c)
           n == Len(u)
           mark == <<3, category>>
<1>1. /\ u \in Seq(Pieces) /\ n \in Nat /\ Pair(c) \in Texts
      /\ Pair(c)[1] = <<1, c>> /\ Pair(c)[2] = <<2, c>> /\ Len(Pair(c)) = 2
  <2>1. Pair(c) \in Texts
    BY PairFacts
  <2> QED
    BY <2>1 DEF Texts, Pair
<1>2. /\ w \in Texts /\ Len(w) = n + 2 /\ \A i \in 1..n : w[i] = u[i]
      /\ w[n + 1] = <<1, c>> /\ w[n + 2] = <<2, c>>
  <2>1. /\ w \in Seq(Pieces) /\ Len(w) = n + Len(Pair(c)) /\ \A i \in 1..n : w[i] = u[i]
        /\ \A j \in 1..Len(Pair(c)) : w[n + j] = Pair(c)[j]
    <3>1. u \in Seq(Pieces) /\ Pair(c) \in Seq(Pieces)
      BY <1>1 DEF Texts
    <3> QED
      BY <3>1, Joined
  <2> HIDE DEF w
  <2> QED
    BY <1>1, <2>1 DEF Texts
<1> HIDE DEF w, n
<1>3. w[n + 1][1] = 1 /\ w[n + 1][2] = c /\ w[n + 2][1] = 2
  BY <1>2
<1>4. ASSUME NEW i PROVE i \in Hits(w) <=> i \in Hits(u) \/ i = n + 1
  <2>1. CASE i \in 1..(n - 1)
    <3>1. w[i] = u[i] /\ w[i + 1] = u[i + 1] /\ i # n + 1
      BY <1>1, <1>2, <2>1
    <3> QED
      BY <1>1, <1>2, <2>1, <3>1 DEF Hits, n
  <2>2. CASE i = n
    <3>1. i \notin Hits(u) /\ i # n + 1
      BY <1>1, <2>2 DEF Hits, n
    <3>2. w[i + 1][1] = 1
      BY <1>3, <2>2
    <3>3. i \notin Hits(w)
      <4>1. ASSUME i \in Hits(w) PROVE FALSE
        <5>1. w[i + 1] = <<2, w[i][2]>>
          BY <4>1 DEF Hits
        <5> QED
          BY <3>2, <5>1
      <4> QED
        BY <4>1
    <3> QED
      BY <3>1, <3>3
  <2>3. CASE i = n + 1
    <3>1. i \in 1..(Len(w) - 1) /\ i + 1 = n + 2
      BY <1>1, <1>2, <2>3
    <3>2. w[i][1] = 1 /\ w[i][2] = c /\ w[i + 1] = <<2, w[i][2]>>
      BY <1>2, <1>3, <2>3, <3>1
    <3>3. Taking(w[i][2]) # {}
      BY <3>2
    <3> QED
      BY <2>3, <3>1, <3>2, <3>3 DEF Hits
  <2>4. CASE i \notin 1..(n - 1) /\ i # n /\ i # n + 1
    BY <1>1, <1>2, <2>4 DEF Hits, n
  <2> QED
    BY <2>1, <2>2, <2>3, <2>4
<1>5. Hits(w) = Hits(u) \cup {n + 1}
  BY <1>4
<1>6. Hits(u) \subseteq 1..(n - 1)
  BY DEF Hits, n
<1> DEFINE s == CleanParts(u)
           y == <<mark>>
           z == <<>>
<1>7. /\ s \in Seq(Seq(Pieces)) /\ Len(s) = n
      /\ CleanParts(w) \in Seq(Seq(Pieces)) /\ Len(CleanParts(w)) = n + 2
      /\ y \in Seq(Pieces) /\ z \in Seq(Pieces)
  <2>1. mark \in Pieces
    BY MarkersArePieces
  <2> QED
    BY <1>2, <2>1, CleanIs DEF n
<1>8. DOMAIN w = 1..(n + 2) /\ DOMAIN u = 1..n
  BY <1>1, <1>2 DEF Texts, n
<1>9. \A i \in 1..n : CleanParts(w)[i] = s[i]
  <2>1. ASSUME NEW i \in 1..n PROVE CleanParts(w)[i] = s[i]
    <3>1. w[i] = u[i] /\ i \in DOMAIN w /\ i \in DOMAIN u
      BY <1>1, <1>2, <1>8
    <3>2. (i \in Hits(w) <=> i \in Hits(u)) /\ (i - 1 \in Hits(w) <=> i - 1 \in Hits(u))
      BY <1>1, <1>5
    <3> QED
      BY <3>1, <3>2 DEF CleanParts
  <2> QED
    BY <2>1
<1>10. CleanParts(w)[n + 1] = y
  <2>1. (CHOOSE d \in Taking(c) : TRUE) = category
    OBVIOUS
  <2>2. n + 1 \in Hits(w) /\ n + 1 \in DOMAIN w
    BY <1>1, <1>5, <1>8
  <2> QED
    BY <1>3, <2>1, <2>2 DEF CleanParts
<1>11. CleanParts(w)[n + 2] = z
  <2>1. n + 2 \notin Hits(w) /\ (n + 2) - 1 \in Hits(w) /\ n + 2 \in DOMAIN w
    BY <1>1, <1>5, <1>6, <1>8
  <2> QED
    BY <2>1 DEF CleanParts
<1> HIDE DEF s, y, z
<1>12. CleanParts(w) = Append(Append(s, y), z)
  <2> DEFINE a == CleanParts(w)
             b == Append(s, y)
             d == Append(b, z)
  <2>1. /\ b \in Seq(Seq(Pieces)) /\ Len(b) = n + 1
        /\ (\A i \in 1..n : b[i] = s[i]) /\ b[n + 1] = y
    BY <1>7, AppendProperties
  <2>2. a \in Seq(Seq(Pieces)) /\ Len(a) = n + 2
    BY <1>7
  <2> HIDE DEF a, b
  <2>3. /\ d \in Seq(Seq(Pieces)) /\ Len(d) = (n + 1) + 1
        /\ (\A i \in 1..(n + 1) : d[i] = b[i]) /\ d[(n + 1) + 1] = z
    BY <1>7, <2>1, AppendProperties
  <2> HIDE DEF d
  <2>4. /\ \A i \in 1..n : a[i] = s[i]
        /\ a[n + 1] = y /\ a[n + 2] = z
    BY <1>9, <1>10, <1>11 DEF a
  <2>5. ASSUME NEW i \in 1..(n + 2) PROVE a[i] = d[i]
    <3>1. i \in 1..n \/ i = n + 1 \/ i = n + 2
      BY <1>1
    <3>2. CASE i \in 1..n
      BY <1>1, <2>1, <2>3, <2>4, <3>2
    <3>3. CASE i = n + 1
      BY <1>1, <2>1, <2>3, <2>4, <3>3
    <3>4. CASE i = n + 2
      BY <1>1, <2>3, <2>4, <3>4
    <3> QED
      BY <3>1, <3>2, <3>3, <3>4
  <2>6. Len(d) = n + 2
    BY <1>1, <2>3
  <2>7. a = d
    BY <2>2, <2>3, <2>5, <2>6, SeqEqual
  <2> QED
    BY <2>7 DEF a, b, d
<1>13. Clean(w) = (Clean(u) \o y) \o z
  <2>1. Append(s, y) \in Seq(Seq(Pieces))
    BY <1>7, AppendProperties
  <2>2. FlattenSeq(Append(Append(s, y), z)) = FlattenSeq(Append(s, y)) \o z
    BY <1>7, <2>1, FlattenAppend
  <2>3. FlattenSeq(Append(s, y)) = FlattenSeq(s) \o y
    BY <1>7, FlattenAppend
  <2>4. Clean(w) = FlattenSeq(CleanParts(w)) /\ Clean(u) = FlattenSeq(s)
    BY <1>2, CleanIs DEF s
  <2> QED
    BY <1>12, <2>2, <2>3, <2>4
<1>14. Clean(u) \o y = Append(Clean(u), mark) /\ Append(Clean(u), mark) \in Seq(Pieces)
  <2>1. Clean(u) \in Seq(Pieces) /\ mark \in Pieces
    BY CleanIs, MarkersArePieces DEF Texts
  <2> QED
    BY <2>1, AppendIsConcat, AppendProperties DEF y
<1>15. Clean(w) = Append(Clean(u), mark)
  <2> DEFINE a == Append(Clean(u), mark)
  <2>1. a \in Seq(Pieces)
    BY <1>14
  <2>2. Clean(w) = a \o <<>>
    BY <1>13, <1>14 DEF z
  <2> HIDE DEF a
  <2>3. a \o <<>> = a
    BY <2>1, ConcatEmptySeq
  <2> QED
    BY <2>2, <2>3 DEF a
<1>16. CatsIn(w) = CatsIn(u) \cup {category}
  <2>1. \A i \in Hits(u) : w[i] = u[i]
    BY <1>1, <1>2, <1>6
  <2>2. {Taking(w[i][2]) : i \in Hits(w)} =
           {Taking(u[i][2]) : i \in Hits(u)} \cup {{category}}
    <3> DEFINE of(i) == Taking(u[i][2])
               now(i) == Taking(w[i][2])
               U == Hits(u)
               W == Hits(w)
               last == n + 1
    <3>1. W = U \cup {last} /\ now(last) = {category} /\ \A i \in U : now(i) = of(i)
      BY <1>3, <1>5, <2>1
    <3> HIDE DEF of, now, U, W, last
    <3>2. {now(i) : i \in W} = {of(i) : i \in U} \cup {{category}}
      BY ONLY <3>1
    <3> QED
      BY <3>2 DEF of, now, U, W
  <2> DEFINE A == {Taking(u[i][2]) : i \in Hits(u)}
             B == {Taking(w[i][2]) : i \in Hits(w)}
  <2>3. B = A \cup {{category}} /\ CatsIn(u) = UNION A /\ CatsIn(w) = UNION B
    BY <2>2 DEF CatsIn
  <2> HIDE DEF A, B
  <2>4. UNION (A \cup {{category}}) = (UNION A) \cup {category}
    OBVIOUS
  <2> QED
    BY ONLY <2>3, <2>4
<1> QED
  BY <1>15, <1>16 DEF w

\* What is between two texts that are apart is no candidate of the one that
\* they make, and a candidate that nobody takes is no hit.
LEMMA NoHitBetween ==
    ASSUME NEW u \in Texts, NEW x \in Pieces,
           \/ Apart(u, <<x>>)
           \/ \E c : u # <<>> /\ u[Len(u)] = <<1, c>> /\ Taking(c) = {}
    PROVE  Len(u) \notin Hits(Append(u, x))
<1> DEFINE w == Append(u, x)
           n == Len(u)
<1>1. /\ u \in Seq(Pieces) /\ n \in Nat /\ Len(w) = n + 1
      /\ w[n + 1] = x /\ \A i \in 1..n : w[i] = u[i]
  BY DEF Texts
<1> HIDE DEF w
<1>2. ASSUME n \in Hits(w) PROVE FALSE
  <2>1. /\ n \in 1..(Len(w) - 1) /\ w[n][1] = 1 /\ Taking(w[n][2]) # {}
        /\ w[n + 1] = <<2, w[n][2]>>
    BY <1>2 DEF Hits
  <2>2. u # <<>> /\ w[n] = u[n] /\ n \in 1..n
    BY <1>1, <2>1
  <2>3. CASE Apart(u, <<x>>)
    <3>1. <<x>> # <<>> /\ <<x>>[1] = x
      OBVIOUS
    <3> QED
      BY <1>1, <2>1, <2>2, <2>3, <3>1 DEF Apart
  <2>4. ASSUME NEW c, u[n] = <<1, c>>, Taking(c) = {} PROVE FALSE
    <3>1. w[n][2] = c
      BY <2>2, <2>4
    <3> QED
      BY <2>1, <2>4, <3>1
  <2> QED
    BY <2>3, <2>4
<1> QED
  BY <1>2 DEF w

\* What a text begins with and ends with.
LEMMA SplitEnd ==
    ASSUME NEW text \in Texts, NEW m \in 0..Len(text)
    PROVE  /\ SubSeq(text, 1, m) \in Texts /\ Len(SubSeq(text, 1, m)) = m
           /\ \A i \in 1..m : SubSeq(text, 1, m)[i] = text[i]
<1>1. text \in Seq(Pieces) /\ Len(text) \in Nat
  BY DEF Texts
<1> QED
  BY <1>1, SubSeqProperties DEF Texts

\* Redact takes out of every text exactly what Clean says and names exactly
\* those categories: the later patterns find nothing that an earlier one made,
\* and a marker never completes a candidate.
THEOREM RedactIsClean ==
    \A text \in Texts : Redact(text) = [text |-> Clean(text), cats |-> CatsIn(text)]
<1> DEFINE So(text) == Redact(text) = [text |-> Clean(text), cats |-> CatsIn(text)]
<1> SUFFICES ASSUME NEW longest \in Texts, ~So(longest) PROVE FALSE
  OBVIOUS
<1> DEFINE N == Len(longest)
           Bad == {i \in 0..N : \E text \in Texts : Len(text) = i /\ ~So(text)}
<1>1. N \in Nat
  BY DEF Texts
<1>2. Bad # {}
  <2>1. N \in Bad
    BY <1>1
  <2> QED
    BY <2>1
<1>3. PICK n \in Bad : \A j \in Bad : n <= j
  <2>1. Bad \subseteq 0..N
    OBVIOUS
  <2> HIDE DEF Bad, N
  <2> QED
    BY <1>1, <1>2, <2>1, Least
<1>4. n \in 0..N /\ n \in Nat
  BY <1>1
<1>5. PICK text \in Texts : Len(text) = n /\ ~So(text)
  OBVIOUS
<1>6. ASSUME NEW m \in 0..(n - 1) PROVE So(SubSeq(text, 1, m))
  <2>1. SubSeq(text, 1, m) \in Texts /\ Len(SubSeq(text, 1, m)) = m
    BY <1>4, <1>5, <1>6, SplitEnd
  <2>2. m \in 0..N /\ m \notin Bad
    <3> HIDE DEF Bad, N
    <3> QED
      BY <1>1, <1>3, <1>4, <1>6
  <2> QED
    BY <2>1, <2>2
<1> HIDE DEF Bad, N, So
<1>7. /\ text \in Seq(Pieces)
      /\ \A i \in 1..n : text[i] \in Pieces
  BY <1>5 DEF Texts
<1>8. CASE n = 0
  <2>1. text = <<>>
    BY <1>5, <1>7, <1>8
  <2>2. Hits(text) = {} /\ DOMAIN text = {}
    BY <1>5, <1>7, <1>8 DEF Hits
  <2>3. CatsIn(text) = {}
    BY <2>2 DEF CatsIn
  <2>4. Len(CleanParts(text)) = 0 /\ CleanParts(text) \in Seq(Seq(Pieces))
    BY <1>5, <1>8, CleanIs
  <2>5. Clean(text) = <<>>
    <3>1. CleanParts(text) = <<>>
      BY <2>4
    <3>2. FlattenSeq(CleanParts(text)) = CleanParts(text)
      BY <2>4 DEF FlattenSeq
    <3> QED
      BY <1>5, <3>1, <3>2, CleanIs
  <2>6. Redact(text) = Unredacted(text)
    BY <1>5, <1>8, RedactShort
  <2> QED
    BY <1>5, <2>1, <2>3, <2>5, <2>6 DEF So, Unredacted
<1> DEFINE Paired == n >= 2 /\ text[n - 1][1] = 1 /\ text[n] = <<2, text[n - 1][2]>>
<1>9. CASE n # 0 /\ ~Paired
  <2> DEFINE u == SubSeq(text, 1, n - 1)
             x == text[n]
  <2>1. n - 1 \in 0..n /\ n - 1 \in 0..(n - 1) /\ n \in 1..n
    BY <1>4, <1>9
  <2>2. u \in Texts /\ Len(u) = n - 1 /\ (\A i \in 1..(n - 1) : u[i] = text[i]) /\ So(u)
    BY <1>5, <1>6, <2>1, SplitEnd
  <2>3. x \in Pieces
    BY <1>7, <2>1
  <2> HIDE DEF u
  <2>4. Apart(u, <<x>>)
    <3>1. ASSUME ~Apart(u, <<x>>) PROVE FALSE
      <4>1. u # <<>> /\ u[n - 1][1] = 1 /\ x = <<2, u[n - 1][2]>>
        BY <2>2, <3>1 DEF Apart
      <4>2. n - 1 # 0
        BY <2>2, <4>1 DEF Texts
      <4>3. n >= 2 /\ n - 1 \in 1..(n - 1)
        BY <1>4, <2>1, <4>2
      <4>4. u[n - 1] = text[n - 1]
        BY <2>2, <4>3
      <4> QED
        BY <1>9, <4>1, <4>3, <4>4
    <3> QED
      BY <3>1
  <2>5. /\ Append(u, x) \in Seq(Pieces) /\ Len(Append(u, x)) = (n - 1) + 1
        /\ \A i \in 1..(n - 1) : Append(u, x)[i] = u[i]
        /\ Append(u, x)[(n - 1) + 1] = x
        /\ Append(u, x) = u \o <<x>>
    <3>1. u \in Seq(Pieces)
      BY <2>2 DEF Texts
    <3> HIDE DEF x
    <3> QED
      BY <2>2, <2>3, <3>1, AppendProperties, AppendIsConcat
  <2>6. text = Append(u, x)
    <3>1. Len(Append(u, x)) = n
      BY <1>4, <2>5
    <3>2. ASSUME NEW i \in 1..n PROVE text[i] = Append(u, x)[i]
      <4>1. CASE i \in 1..(n - 1)
        BY <2>2, <2>5, <4>1
      <4>2. CASE i = n
        <5>1. (n - 1) + 1 = n
          BY <1>4
        <5> QED
          BY <2>5, <4>2, <5>1
      <4>3. i \in 1..(n - 1) \/ i = n
        BY <1>4
      <4> QED
        BY <4>1, <4>2, <4>3
    <3> QED
      BY <1>5, <1>7, <2>5, <3>1, <3>2, SeqEqual
  <2> HIDE DEF x
  <2>7. Redact(text) = Both(Redact(u), Redact(<<x>>))
    <3>1. <<x>> \in Texts
      BY <2>3 DEF Texts
    <3> QED
      BY <2>2, <2>4, <2>5, <2>6, <3>1, RedactJoined
  <2>8. Redact(<<x>>) = Unredacted(<<x>>)
    <3>1. <<x>> \in Texts /\ Len(<<x>>) <= 1
      BY <2>3 DEF Texts
    <3> QED
      BY <3>1, RedactShort
  <2>9. Clean(text) = Append(Clean(u), x) /\ CatsIn(text) = CatsIn(u)
    <3>1. Len(u) \notin Hits(Append(u, x))
      BY <2>2, <2>3, <2>4, NoHitBetween
    <3> QED
      BY <2>2, <2>3, <2>6, <3>1, CleanCopies
  <2>10. Append(Clean(u), x) = Clean(u) \o <<x>>
    <3>1. Clean(u) \in Seq(Pieces)
      BY <2>2, CleanIs DEF Texts
    <3> QED
      BY <2>3, <3>1, AppendIsConcat
  <2>11. Redact(text) = [text |-> Clean(u) \o <<x>>, cats |-> CatsIn(u) \cup {}]
    <3>1. Redact(u).text = Clean(u) /\ Redact(u).cats = CatsIn(u)
      BY <2>2 DEF So
    <3>2. Redact(<<x>>).text = <<x>> /\ Redact(<<x>>).cats = {}
      BY <2>8 DEF Unredacted
    <3> QED
      BY <2>7, <3>1, <3>2 DEF Both
  <2> QED
    BY <1>5, <2>9, <2>10, <2>11 DEF So
<1>10. CASE Paired
  <2> DEFINE u == SubSeq(text, 1, n - 2)
             c == text[n - 1][2]
  <2>1. n - 2 \in 0..n /\ n - 2 \in 0..(n - 1) /\ n - 1 \in 1..n /\ n \in 1..n
    BY <1>4, <1>10
  <2>2. u \in Texts /\ Len(u) = n - 2 /\ (\A i \in 1..(n - 2) : u[i] = text[i]) /\ So(u)
    BY <1>5, <1>6, <2>1, SplitEnd
  <2>3. text[n - 1] = <<1, c>> /\ c \in Candidates /\ text[n] = <<2, c>>
    <3>1. text[n - 1] \in Pieces /\ text[n - 1][1] = 1
      BY <1>7, <1>10, <2>1
    <3>2. text[n - 1] \in {1, 2} \X Candidates
      BY <3>1 DEF Pieces
    <3> QED
      BY <1>10, <3>1, <3>2
  <2> HIDE DEF u, c
  <2>4. /\ Pair(c) \in Texts /\ Pair(c) \in Seq(Pieces) /\ Len(Pair(c)) = 2
        /\ Pair(c)[1] = <<1, c>> /\ Pair(c)[2] = <<2, c>>
    <3>1. Pair(c) \in Texts
      BY <2>3, PairFacts
    <3> QED
      BY <3>1 DEF Pair, Texts
  <2>5. u \in Seq(Pieces)
    BY <2>2 DEF Texts
  <2>6. text = u \o Pair(c)
    <3> DEFINE w == u \o Pair(c)
    <3>1. /\ w \in Seq(Pieces) /\ Len(w) = (n - 2) + 2
          /\ \A i \in 1..(n - 2) : w[i] = u[i]
          /\ \A j \in 1..2 : w[(n - 2) + j] = Pair(c)[j]
      BY <2>2, <2>4, <2>5, Joined
    <3> HIDE DEF w
    <3>2. (n - 2) + 1 = n - 1 /\ (n - 2) + 2 = n /\ 1 \in 1..2 /\ 2 \in 1..2
      BY <1>4
    <3>3. w[n - 1] = <<1, c>> /\ w[n] = <<2, c>> /\ Len(w) = n
      BY <2>4, <3>1, <3>2
    <3>4. ASSUME NEW i \in 1..n PROVE text[i] = w[i]
      <4>1. CASE i \in 1..(n - 2)
        BY <2>2, <3>1, <4>1
      <4>2. CASE i = n - 1
        BY <2>3, <3>3, <4>2
      <4>3. CASE i = n
        BY <2>3, <3>3, <4>3
      <4> QED
        BY <1>4, <4>1, <4>2, <4>3
    <3>5. text = w
      BY <1>5, <1>7, <3>1, <3>3, <3>4, SeqEqual
    <3> QED
      BY <3>5 DEF w
  <2>7. Apart(u, Pair(c))
    <3>1. ASSUME ~Apart(u, Pair(c)) PROVE FALSE
      <4>1. <<1, c>> = <<2, u[Len(u)][2]>>
        BY <2>4, <3>1 DEF Apart
      <4> QED
        BY <4>1
    <3> QED
      BY <3>1
  <2>8. Redact(text) = Both(Redact(u), Redact(Pair(c)))
    BY <2>2, <2>4, <2>6, <2>7, RedactJoined
  <2>9. Clean(u) \in Texts /\ Clean(u) \in Seq(Pieces)
    BY <2>2, CleanIs DEF Texts
  <2>10. CASE Taking(c) = {} /\ Redact(Pair(c)) = Unredacted(Pair(c))
    <3> DEFINE a == <<1, c>>
               b == <<2, c>>
               v == Append(u, a)
    <3>1. a \in Pieces /\ b \in Pieces
      BY <2>3 DEF Pieces
    <3>2. v \in Texts /\ v # <<>> /\ v[Len(v)] = a
      <4> HIDE DEF a
      <4>1. v \in Seq(Pieces) /\ v # <<>> /\ Len(v) = Len(u) + 1 /\ v[Len(u) + 1] = a
        BY <2>5, <3>1, AppendProperties
      <4> HIDE DEF v
      <4> QED
        BY <4>1 DEF Texts
    <3>3. text = Append(v, b)
      <4> HIDE DEF a, b, v
      <4>1. Pair(c) = Append(<<a>>, b)
        BY TwoPieces DEF Pair, a, b
      <4>2. <<a>> \in Texts
        BY <3>1 DEF Texts
      <4>3. u \o Append(<<a>>, b) = Append(u \o <<a>>, b)
        BY <2>2, <3>1, <4>2, AppendToJoined
      <4>4. u \o <<a>> = Append(u, a)
        BY <2>5, <3>1, AppendIsConcat
      <4> QED
        BY <2>6, <4>1, <4>3, <4>4 DEF v
    <3>4. Apart(u, <<a>>)
      <4>1. ASSUME ~Apart(u, <<a>>) PROVE FALSE
        <5>1. <<1, c>> = <<2, u[Len(u)][2]>>
          BY <4>1 DEF Apart
        <5> QED
          BY <5>1
      <4> QED
        BY <4>1
    <3>5. Len(u) \notin Hits(v)
      <4> HIDE DEF a
      <4> QED
        BY <2>2, <3>1, <3>4, NoHitBetween
    <3>6. Clean(v) = Append(Clean(u), a) /\ CatsIn(v) = CatsIn(u)
      <4> HIDE DEF a
      <4> QED
        BY <2>2, <3>1, <3>5, CleanCopies
    <3>7. Len(v) \notin Hits(Append(v, b))
      <4> HIDE DEF b, v
      <4> QED
        BY <2>10, <3>1, <3>2, NoHitBetween DEF a
    <3>8. Clean(text) = Append(Clean(v), b) /\ CatsIn(text) = CatsIn(v)
      <4> HIDE DEF b, v
      <4> QED
        BY <3>1, <3>2, <3>3, <3>7, CleanCopies
    <3>9. Append(Append(Clean(u), a), b) = Clean(u) \o Pair(c)
      <4> HIDE DEF a, b, v
      <4>1. Pair(c) = Append(<<a>>, b)
        BY TwoPieces DEF Pair, a, b
      <4>2. <<a>> \in Texts
        BY <3>1 DEF Texts
      <4>3. Clean(u) \o Append(<<a>>, b) = Append(Clean(u) \o <<a>>, b)
        BY <2>9, <3>1, <4>2, AppendToJoined
      <4>4. Clean(u) \o <<a>> = Append(Clean(u), a)
        BY <2>9, <3>1, AppendIsConcat
      <4> QED
        BY <4>1, <4>3, <4>4
    <3>10. Redact(text) = [text |-> Clean(u) \o Pair(c), cats |-> CatsIn(u) \cup {}]
      BY <2>2, <2>8, <2>10 DEF So, Both, Unredacted
    <3>11. Clean(text) = Clean(u) \o Pair(c) /\ CatsIn(text) = CatsIn(u)
      BY <3>6, <3>8, <3>9
    <3> QED
      BY <1>5, <3>10, <3>11 DEF So
  <2>11. ASSUME NEW category \in Categories, Taking(c) = {category},
                Redact(Pair(c)) = Marked(category)
         PROVE  FALSE
    <3> DEFINE mark == <<3, category>>
    <3>1. /\ Clean(text) = Append(Clean(u), mark)
          /\ CatsIn(text) = CatsIn(u) \cup {category}
      BY <2>2, <2>3, <2>6, <2>11, CleanMarks
    <3>2. Append(Clean(u), mark) = Clean(u) \o <<mark>>
      BY <2>9, <2>11, MarkersArePieces, AppendIsConcat
    <3>3. Redact(text) =
            [text |-> Clean(u) \o <<mark>>, cats |-> CatsIn(u) \cup {category}]
      BY <2>2, <2>8, <2>11 DEF So, Both, Marked
    <3> QED
      BY <1>5, <3>1, <3>2, <3>3 DEF So
  <2> QED
    BY <2>3, <2>10, <2>11, RedactPair
<1> QED
  BY <1>8, <1>9, <1>10

-----------------------------------------------------------------------------
(* The validators *)

\* Doubled is a bijection of the digits that tells neighbours apart.
LEMMA DoubledIs ==
    /\ \A d \in Digits : Doubled(d) \in Digits /\ d \in 0..9
    /\ \A d, e \in Digits : d # e => Doubled(d) # Doubled(e)
    /\ \A d, e \in Digits :
          d # e /\ {d, e} # {0, 9} =>
              /\ (Doubled(e) + d) - (Doubled(d) + e) \in -9..9
              /\ (Doubled(e) + d) - (Doubled(d) + e) # 0
<1>1. ASSUME NEW d \in 0..9 PROVE Doubled(d) \in 0..9
  BY DEF Doubled
<1>2. ASSUME NEW d \in 0..9, NEW e \in 0..9, d # e PROVE Doubled(d) # Doubled(e)
  BY <1>2 DEF Doubled
<1>3. ASSUME NEW d \in 0..9, NEW e \in 0..9, d # e, {d, e} # {0, 9}
      PROVE  /\ (Doubled(e) + d) - (Doubled(d) + e) \in -9..9
             /\ (Doubled(e) + d) - (Doubled(d) + e) # 0
  <2>1. ~(d = 0 /\ e = 9) /\ ~(d = 9 /\ e = 0)
    BY <1>3
  <2> QED
    BY <1>3, <2>1 DEF Doubled
<1> QED
  BY <1>1, <1>2, <1>3 DEF Digits

\* Two multiples of ten that are near each other are the same.
LEMMA Tens ==
    ASSUME NEW a \in Int, NEW b \in Int, a % 10 = 0, b % 10 = 0, a - b \in -9..9
    PROVE  a = b
OBVIOUS

\* luhnValid by its sum.
LEMMA LuhnIs ==
    ASSUME NEW s \in Seq(Digits)
    PROVE  /\ LuhnSum(s) \in Nat
           /\ luhnValid(s) <=> Len(s) \in MinDigits..MaxDigits /\ LuhnSum(s) % 10 = 0
<1>1. Len(s) \in Nat
  OBVIOUS
<1>2. LuhnSum(s) \in Nat
  BY <1>1, LuhnSteps
<1> QED
  BY <1>2 DEF luhnValid, LuhnSum

\* Another digit changes the sum by the difference of the two.
LEMMA LuhnChanges ==
    ASSUME NEW s \in Seq(Digits), NEW i \in 1..Len(s), NEW d \in Digits
    PROVE  LET t == [s EXCEPT ![i] = d]
           IN  /\ t \in Seq(Digits) /\ Len(t) = Len(s) /\ t[i] = d
               /\ \A j \in 1..Len(s) : j # i => t[j] = s[j]
               /\ LuhnSum(t) = LuhnSum(s) + (Weight(t, i) - Weight(s, i))
<1> DEFINE n == Len(s)
           t == [s EXCEPT ![i] = d]
           diff == Weight(t, i) - Weight(s, i)
<1>1. /\ n \in Nat /\ t \in Seq(Digits) /\ Len(t) = n /\ t[i] = d
      /\ \A j \in 1..n : j # i => t[j] = s[j]
  OBVIOUS
<1> HIDE DEF t
<1>2. PICK k \in [0..n -> Nat] :
         /\ k[0] = 0 /\ LuhnSum(s) = k[n]
         /\ \A j \in 1..n : k[j] = k[j - 1] + Weight(s, j)
  BY LuhnSteps
<1>3. PICK l \in [0..n -> Nat] :
         /\ l[0] = 0 /\ LuhnSum(t) = l[n]
         /\ \A j \in 1..n : l[j] = l[j - 1] + Weight(t, j)
  BY <1>1, LuhnSteps, SMTT(30)
<1>4. \A j \in 1..n : Weight(s, j) \in Nat /\ Weight(t, j) \in Nat
  BY <1>1, WeightType
<1>5. \A j \in 1..n : j # i => Weight(t, j) = Weight(s, j)
  BY <1>1 DEF Weight
<1>6. diff \in Int
  BY <1>4
<1> HIDE DEF n
<1> DEFINE Bad == {j \in 0..n : l[j] # IF j < i THEN k[j] ELSE k[j] + diff}
<1>7. ASSUME Bad # {} PROVE FALSE
  <2>1. PICK j \in Bad : \A m \in Bad : j <= m
    <3>1. Bad \subseteq 0..n
      OBVIOUS
    <3> HIDE DEF Bad
    <3> QED
      BY <1>1, <1>7, <3>1, Least
  <2>2. j \in 0..n /\ l[j] # IF j < i THEN k[j] ELSE k[j] + diff
    OBVIOUS
  <2>3. i \in 1..n
    BY DEF n
  <2>4. j \in 1..n
    BY <1>1, <1>2, <1>3, <2>2, <2>3
  <2>5. j - 1 \notin Bad /\ j - 1 \in 0..n
    <3> HIDE DEF Bad
    <3> QED
      BY <1>1, <2>1, <2>4
  <2>6. l[j - 1] = IF j - 1 < i THEN k[j - 1] ELSE k[j - 1] + diff
    BY <2>5
  <2> DEFINE a == l[j - 1]
             b == k[j - 1]
             v == Weight(t, j)
             w == Weight(s, j)
  <2>7. /\ a \in Int /\ b \in Int /\ v \in Int /\ w \in Int
        /\ l[j] = a + v /\ k[j] = b + w
    <3>1. j - 1 \in 0..n
      BY <2>5
    <3>2. a \in Nat /\ b \in Nat
      BY <1>2, <1>3, <3>1
    <3>3. v \in Nat /\ w \in Nat
      BY <1>4, <2>4
    <3>4. l[j] = a + v /\ k[j] = b + w
      BY <1>2, <1>3, <2>4
    <3> QED
      BY <3>2, <3>3, <3>4
  <2>8. (j # i => v = w) /\ (j = i => diff = v - w)
    BY <1>5, <2>4
  <2> HIDE DEF Bad, a, b, v, w, diff
  <2>9. a = IF j - 1 < i THEN b ELSE b + diff
    BY <2>6 DEF a, b
  <2>10. i \in Int /\ j \in Int
    BY <1>1, <2>3, <2>4
  <2>11. CASE j < i
    <3>1. a = b /\ v = w
      BY <2>8, <2>9, <2>10, <2>11
    <3> QED
      BY <2>2, <2>7, <2>11, <3>1
  <2>12. CASE j = i
    <3>1. a = b /\ diff = v - w
      BY <2>8, <2>9, <2>10, <2>12
    <3>2. a + v = (b + w) + diff
      BY <2>7, <3>1
    <3>3. ~(j < i)
      BY <2>10, <2>12
    <3> QED
      BY <2>2, <2>7, <3>2, <3>3
  <2>13. CASE j > i
    <3>1. a = b + diff /\ v = w
      BY <2>8, <2>9, <2>10, <2>13
    <3>2. a + v = (b + w) + diff
      BY <1>6, <2>7, <3>1
    <3>3. ~(j < i)
      BY <2>10, <2>13
    <3> QED
      BY <2>2, <2>7, <3>2, <3>3
  <2> QED
    BY <2>10, <2>11, <2>12, <2>13
<1>8. l[n] = k[n] + diff
  <2>1. n \notin Bad /\ n \in 0..n
    <3> HIDE DEF Bad
    <3> QED
      BY <1>1, <1>7
  <2>2. ~(n < i)
    BY <1>1 DEF n
  <2> HIDE DEF diff
  <2> QED
    BY <2>1, <2>2
<1> QED
  BY <1>1, <1>2, <1>3, <1>8 DEF t, n

\* A zero in front changes nothing.
LEMMA LuhnOfZeroAnd ==
    ASSUME NEW s \in Seq(Digits)
    PROVE  /\ <<0>> \o s \in Seq(Digits) /\ Len(<<0>> \o s) = Len(s) + 1
           /\ LuhnSum(<<0>> \o s) = LuhnSum(s)
<1> DEFINE n == Len(s)
           z == <<0>>
           t == z \o s
<1>1. z \in Seq(Digits) /\ Len(z) = 1 /\ z[1] = 0
  BY DEF Digits
<1>2. /\ n \in Nat /\ t \in Seq(Digits) /\ Len(t) = n + 1 /\ t[1] = 0
      /\ \A j \in 1..n : t[1 + j] = s[j]
  <2>1. n \in Nat
    OBVIOUS
  <2> HIDE DEF z
  <2> HIDE DEF n
  <2>2. /\ t \in Seq(Digits) /\ Len(t) = Len(z) + Len(s)
        /\ \A i \in 1..Len(z) : t[i] = z[i]
        /\ \A j \in 1..Len(s) : t[Len(z) + j] = s[j]
    BY <1>1, ConcatProperties
  <2> HIDE DEF t
  <2>3. 1 \in 1..Len(z) /\ Len(z) = 1 /\ 1 + Len(s) = Len(s) + 1
    BY <1>1, <2>1 DEF n
  <2> QED
    BY <1>1, <2>1, <2>2, <2>3 DEF n
<1> HIDE DEF t
<1>3. PICK k \in [0..n -> Nat] :
         /\ k[0] = 0 /\ LuhnSum(s) = k[n]
         /\ \A j \in 1..n : k[j] = k[j - 1] + Weight(s, j)
  BY LuhnSteps
<1>4. PICK l \in [0..(n + 1) -> Nat] :
         /\ l[0] = 0 /\ LuhnSum(t) = l[n + 1]
         /\ \A j \in 1..(n + 1) : l[j] = l[j - 1] + Weight(t, j)
  BY <1>2, LuhnSteps
<1>5. \A j \in 1..n : Weight(t, 1 + j) = Weight(s, j)
  <2>1. ASSUME NEW j \in 1..n PROVE Weight(t, 1 + j) = Weight(s, j)
    <3>1. Len(t) - (1 + j) = Len(s) - j /\ t[1 + j] = s[j]
      BY <1>2
    <3> QED
      BY <3>1 DEF Weight
  <2> QED
    BY <2>1
<1>6. Weight(t, 1) = 0
  BY <1>2 DEF Weight, Doubled
<1> HIDE DEF n
<1> DEFINE Bad == {j \in 0..n : l[1 + j] # k[j]}
<1>7. ASSUME Bad # {} PROVE FALSE
  <2>1. PICK j \in Bad : \A m \in Bad : j <= m
    <3>1. Bad \subseteq 0..n
      OBVIOUS
    <3> HIDE DEF Bad
    <3> QED
      BY <1>2, <1>7, <3>1, Least
  <2>2. j \in 0..n /\ l[1 + j] # k[j]
    OBVIOUS
  <2>3. CASE j = 0
    <3>1. 1 \in 1..(n + 1) /\ l[1] = l[0] + Weight(t, 1)
      BY <1>2, <1>4
    <3> QED
      BY <1>3, <1>4, <1>6, <2>2, <2>3, <3>1
  <2>4. CASE j # 0
    <3>1. j \in 1..n /\ j - 1 \in 0..n /\ 1 + j \in 1..(n + 1)
              /\ (1 + j) - 1 = 1 + (j - 1)
      BY <1>2, <2>2, <2>4
    <3>2. j - 1 \notin Bad
      <4> HIDE DEF Bad
      <4> QED
        BY <1>2, <2>1, <3>1
    <3>3. l[1 + (j - 1)] = k[j - 1]
      BY <3>1, <3>2
    <3>4. l[1 + j] = l[(1 + j) - 1] + Weight(t, 1 + j) /\ k[j] = k[j - 1] + Weight(s, j)
      BY <1>3, <1>4, <3>1
    <3>5. l[(1 + j) - 1] = k[j - 1] /\ Weight(t, 1 + j) = Weight(s, j)
      BY <1>5, <3>1, <3>3
    <3> QED
      BY <2>2, <3>4, <3>5
  <2> QED
    BY <2>3, <2>4
<1>8. l[n + 1] = k[n]
  <2>1. n \in 0..n /\ 1 + n = n + 1 /\ n \notin Bad
    <3> HIDE DEF Bad
    <3> QED
      BY <1>2, <1>7
  <2> QED
    BY <2>1
<1> QED
  BY <1>2, <1>3, <1>4, <1>8 DEF t, z, n

\* luhnValid keeps Luhn's promise, for card numbers of every length.
THEOREM LuhnKeepsPromise ==
    \A s \in Seq(Digits) : Len(s) \in MinDigits..MaxDigits => LuhnDetects(s)
<1> SUFFICES ASSUME NEW s \in Seq(Digits), Len(s) \in MinDigits..MaxDigits
             PROVE  LuhnDetects(s)
  OBVIOUS
<1> DEFINE n == Len(s)
           With(i, d) == [s EXCEPT ![i] = d]
<1>1. /\ n \in Nat /\ n >= 1 /\ n \in 1..n /\ MinDigits \in Nat /\ MaxDigits \in Nat
      /\ LuhnSum(s) \in Nat /\ \A i \in 1..n : s[i] \in Digits
  BY RedactorAssumption, LuhnIs
<1>2. ASSUME NEW i \in 1..n, NEW d \in Digits
      PROVE  /\ With(i, d) \in Seq(Digits) /\ Len(With(i, d)) = n
             /\ luhnValid(With(i, d)) <=>
                  (LuhnSum(s) + (Weight(With(i, d), i) - Weight(s, i))) % 10 = 0
             /\ Weight(With(i, d), i) = IF (n - i) % 2 = 1 THEN Doubled(d) ELSE d
             /\ Weight(s, i) = IF (n - i) % 2 = 1 THEN Doubled(s[i]) ELSE s[i]
  <2>1. /\ With(i, d) \in Seq(Digits) /\ Len(With(i, d)) = n /\ With(i, d)[i] = d
        /\ LuhnSum(With(i, d)) = LuhnSum(s) + (Weight(With(i, d), i) - Weight(s, i))
    BY LuhnChanges
  <2>2. luhnValid(With(i, d)) <=> LuhnSum(With(i, d)) % 10 = 0
    <3> HIDE DEF With
    <3> QED
      BY <2>1, LuhnIs
  <2>3. Weight(s, i) = IF (n - i) % 2 = 1 THEN Doubled(s[i]) ELSE s[i]
    BY DEF Weight
  <2> HIDE DEF With
  <2>4. Weight(With(i, d), i) = IF (n - i) % 2 = 1 THEN Doubled(d) ELSE d
    BY <2>1 DEF Weight
  <2> HIDE DEF n
  <2> QED
    BY <2>1, <2>2, <2>3, <2>4
<1> HIDE DEF With
<1>3. Cardinality({d \in Digits : luhnValid(With(n, d))}) = 1
  <2> DEFINE rest == LuhnSum(s) - s[n]
             digit == (10 - (rest % 10)) % 10
  <2>1. rest \in Int
    BY <1>1 DEF Digits
  <2>2. ASSUME NEW d \in Digits PROVE luhnValid(With(n, d)) <=> (rest + d) % 10 = 0
    <3>1. (n - n) % 2 # 1
      BY <1>1
    <3>2. Weight(With(n, d), n) = d /\ Weight(s, n) = s[n]
      BY <1>1, <1>2, <3>1
    <3>3. LuhnSum(s) + (d - s[n]) = rest + d
      BY <1>1 DEF Digits
    <3>4. luhnValid(With(n, d)) <=>
            (LuhnSum(s) + (Weight(With(n, d), n) - Weight(s, n))) % 10 = 0
      <4>1. n \in 1..n /\ d \in Digits
        BY <1>1
      <4> QED
        BY ONLY <1>2, <4>1, Zenon
    <3> HIDE DEF rest
    <3> QED
      BY ONLY <3>2, <3>3, <3>4
  <2> HIDE DEF rest
  <2>3. digit \in Digits /\ (rest + digit) % 10 = 0
    BY <2>1 DEF Digits
  <2> HIDE DEF digit
  <2>4. ASSUME NEW d \in Digits, (rest + d) % 10 = 0 PROVE d = digit
    <3>1. d \in 0..9 /\ digit \in 0..9
      BY <2>3 DEF Digits
    <3>2. rest + d = rest + digit
      BY <2>1, <2>3, <2>4, <3>1, Tens
    <3> QED
      BY <2>1, <3>1, <3>2
  <2>5. {d \in Digits : luhnValid(With(n, d))} = {digit}
    BY <2>2, <2>3, <2>4
  <2> QED
    BY <2>5, FS_Singleton
<1>4. ASSUME n < MaxDigits PROVE luhnValid(<<0>> \o s) <=> luhnValid(s)
  <2> DEFINE t == <<0>> \o s
  <2>1. t \in Seq(Digits) /\ Len(t) = n + 1 /\ LuhnSum(t) = LuhnSum(s)
    BY LuhnOfZeroAnd
  <2>2. n \in MinDigits..MaxDigits /\ n + 1 \in MinDigits..MaxDigits
    BY <1>1, <1>4
  <2> HIDE DEF t, n
  <2> QED
    BY <2>1, <2>2, LuhnIs DEF t, n
<1>5. ASSUME luhnValid(s), NEW i \in 1..n, NEW d \in Digits \ {s[i]}
      PROVE  ~luhnValid(With(i, d))
  <2> DEFINE v == Weight(With(i, d), i)
             w == Weight(s, i)
             sum == LuhnSum(s)
  <2>1. v \in 0..9 /\ w \in 0..9 /\ v # w
    <3>1. s[i] \in Digits /\ d \in Digits /\ d # s[i]
      BY <1>1
    <3>2. /\ Doubled(d) \in 0..9 /\ Doubled(s[i]) \in 0..9 /\ Doubled(d) # Doubled(s[i])
          /\ d \in 0..9 /\ s[i] \in 0..9
      BY <3>1, DoubledIs DEF Digits
    <3> QED
      BY <1>2, <3>1, <3>2
  <2>2. sum \in Int /\ sum % 10 = 0
    BY <1>1, <1>5, LuhnIs
  <2>3. luhnValid(With(i, d)) <=> (sum + (v - w)) % 10 = 0
    BY <1>2
  <2> HIDE DEF v, w, sum
  <2>4. ASSUME (sum + (v - w)) % 10 = 0 PROVE FALSE
    <3>1. sum + (v - w) \in Int /\ (sum + (v - w)) - sum \in -9..9
      BY <2>1, <2>2
    <3>2. sum + (v - w) = sum
      BY <2>2, <2>4, <3>1, Tens
    <3> QED
      BY <2>1, <2>2, <3>2
  <2> QED
    BY <2>3, <2>4
<1>6. ASSUME luhnValid(s), NEW i \in 1..(n - 1), s[i] # s[i + 1],
             {s[i], s[i + 1]} # {0, 9}
      PROVE  ~luhnValid([s EXCEPT ![i] = s[i + 1], ![i + 1] = s[i]])
  <2> DEFINE a == s[i]
             b == s[i + 1]
             t == With(i, b)
             u == [t EXCEPT ![i + 1] = a]
             sum == LuhnSum(s)
  <2>1. i \in 1..n /\ i + 1 \in 1..n /\ a \in Digits /\ b \in Digits /\ i # i + 1
    BY <1>1
  <2>2. /\ t \in Seq(Digits) /\ Len(t) = n /\ t[i + 1] = b
        /\ LuhnSum(t) = sum + (Weight(t, i) - Weight(s, i))
    BY <2>1, LuhnChanges DEF With
  <2> HIDE DEF t
  <2>3. /\ u \in Seq(Digits) /\ Len(u) = n /\ u[i + 1] = a
        /\ LuhnSum(u) = LuhnSum(t) + (Weight(u, i + 1) - Weight(t, i + 1))
    BY <2>1, <2>2, LuhnChanges
  <2>4. u = [s EXCEPT ![i] = s[i + 1], ![i + 1] = s[i]]
    BY DEF t, With
  <2> HIDE DEF u
  <2>5. /\ Weight(t, i) = IF (n - i) % 2 = 1 THEN Doubled(b) ELSE b
        /\ Weight(s, i) = IF (n - i) % 2 = 1 THEN Doubled(a) ELSE a
    BY <1>2, <2>1 DEF t
  <2>6. /\ Weight(u, i + 1) = IF (n - (i + 1)) % 2 = 1 THEN Doubled(a) ELSE a
        /\ Weight(t, i + 1) = IF (n - (i + 1)) % 2 = 1 THEN Doubled(b) ELSE b
    BY <2>2, <2>3 DEF Weight
  <2> DEFINE diff == (Doubled(b) + a) - (Doubled(a) + b)
  <2>7. a \in 0..9 /\ b \in 0..9 /\ Doubled(a) \in 0..9 /\ Doubled(b) \in 0..9
    BY <2>1, DoubledIs DEF Digits
  <2>8. diff \in -9..9 /\ diff # 0
    BY <1>6, <2>1, DoubledIs
  <2>9. sum \in Int /\ sum % 10 = 0
    BY <1>1, <1>6, LuhnIs
  <2>10. LuhnSum(u) = sum + diff \/ LuhnSum(u) = sum - diff
    <3> DEFINE da == Doubled(a)
               db == Doubled(b)
    <3>1. da \in Int /\ db \in Int /\ a \in Int /\ b \in Int
      BY <2>7
    <3>2. \/ (n - i) % 2 = 1 /\ (n - (i + 1)) % 2 # 1
          \/ (n - i) % 2 # 1 /\ (n - (i + 1)) % 2 = 1
      BY <1>1, <2>1
    <3>3. \/ LuhnSum(u) = (sum + (db - da)) + (a - b)
          \/ LuhnSum(u) = (sum + (b - a)) + (da - db)
      <4> HIDE DEF a, b, n, sum
      <4> QED
        BY <2>2, <2>3, <2>5, <2>6, <3>2
    <3> HIDE DEF da, db, a, b, sum
    <3>4. diff = (db + a) - (da + b)
      BY DEF da, db
    <3> HIDE DEF diff
    <3> QED
      BY <2>9, <3>1, <3>3, <3>4
  <2> HIDE DEF diff, sum
  <2>11. LuhnSum(u) % 10 # 0
    <3> DEFINE new == LuhnSum(u)
    <3>1. new = sum + diff \/ new = sum - diff
      BY <2>10
    <3> HIDE DEF new
    <3>2. new \in Int /\ new - sum \in -9..9 /\ new # sum
      <4>1. ASSUME new = sum + diff
            PROVE new \in Int /\ new - sum \in -9..9 /\ new # sum
        BY <2>8, <2>9, <4>1
      <4>2. ASSUME new = sum - diff
            PROVE new \in Int /\ new - sum \in -9..9 /\ new # sum
        BY <2>8, <2>9, <4>2
      <4> QED
        BY <3>1, <4>1, <4>2
    <3>3. new % 10 # 0
      BY ONLY <2>9, <3>2, Tens
    <3> QED
      BY <3>3 DEF new
  <2> QED
    BY <2>3, <2>4, <2>11, LuhnIs
<1> QED
  BY <1>3, <1>4, <1>5, <1>6 DEF LuhnDetects, With

\* The octets, digit by digit.
LEMMA OctetsHave ==
    /\ \A o \in Octets : Len(o) \in 1..3
    /\ \A a \in Digits : <<a>> \in Octets
    /\ \A a, b \in Digits : <<a, b>> \in Octets <=> a # 0
    /\ \A a, b, c \in Digits :
          <<a, b, c>> \in Octets <=> a # 0 /\ 100 * a + 10 * b + c <= 255
<1>1. \A o \in Octets : Len(o) \in 1..3
  BY DEF Octets
<1>2. \A a \in Digits : <<a>> \in Octets
  BY DEF Octets
<1>3. ASSUME NEW a \in 0..9, NEW b \in 0..9 PROVE <<a, b>> \in Octets <=> a # 0
  <2>1. ASSUME a # 0 PROVE <<a, b>> \in Octets
    <3> DEFINE n == 10 * a + b
    <3>1. n \in 10..99 /\ n \div 10 = a /\ n % 10 = b
      BY <2>1
    <3> HIDE DEF n
    <3> QED
      BY <3>1 DEF Octets
  <2>2. ASSUME <<a, b>> \in Octets PROVE a # 0
    <3>1. PICK n \in 10..99 : <<a, b>> = <<n \div 10, n % 10>>
      BY <2>2 DEF Octets
    <3>2. a = n \div 10
      BY <3>1
    <3> QED
      BY <3>2
  <2> QED
    BY <2>1, <2>2
<1>4. ASSUME NEW a \in 0..9, NEW b \in 0..9, NEW c \in 0..9
      PROVE  <<a, b, c>> \in Octets <=> a # 0 /\ 100 * a + 10 * b + c <= 255
  <2>1. ASSUME a # 0, 100 * a + 10 * b + c <= 255 PROVE <<a, b, c>> \in Octets
    <3> DEFINE n == 100 * a + 10 * b + c
    <3>1. n \in 100..255 /\ n \div 100 = a /\ (n \div 10) % 10 = b /\ n % 10 = c
      <4>1. n \in 100..255 /\ n \div 100 = a /\ n % 10 = c
        BY <2>1
      <4>2. n \div 10 = 10 * a + b
        BY <2>1
      <4>3. (10 * a + b) % 10 = b
        OBVIOUS
      <4> QED
        BY <4>1, <4>2, <4>3
    <3> HIDE DEF n
    <3> QED
      BY <3>1 DEF Octets
  <2>2. ASSUME <<a, b, c>> \in Octets PROVE a # 0 /\ 100 * a + 10 * b + c <= 255
    <3>1. PICK n \in 100..255 : <<a, b, c>> = <<n \div 100, (n \div 10) % 10, n % 10>>
      BY <2>2 DEF Octets
    <3>2. a = n \div 100 /\ b = (n \div 10) % 10 /\ c = n % 10
      BY <3>1
    <3>3. n = 100 * a + 10 * b + c
      BY <3>2
    <3> QED
      BY <3>2, <3>3
  <2> QED
    BY <2>1, <2>2
<1> QED
  BY <1>1, <1>2, <1>3, <1>4 DEF Digits

\* What Atoi makes of up to three digits, and what a fourth one does to that.
LEMMA AtoiIs ==
    ASSUME NEW part \in Seq(Digits)
    PROVE  /\ Atoi(part) \in Nat
           /\ Len(part) = 1 => Atoi(part) = part[1]
           /\ Len(part) = 2 => Atoi(part) = 10 * part[1] + part[2]
           /\ Len(part) = 3 => Atoi(part) = 100 * part[1] + 10 * part[2] + part[3]
           /\ Len(part) > 3 /\ part[1] # 0 => Atoi(part) > 255
<1> DEFINE n == Len(part)
<1>1. n \in Nat /\ \A i \in 1..n : part[i] \in 0..9
  BY DEF Digits
<1>2. PICK k \in [0..n -> Nat] :
         k[0] = 0 /\ Atoi(part) = k[n]
             /\ \A i \in 1..n : k[i] = Shift(k[i - 1], part[i])
  BY AtoiSteps
<1> HIDE DEF n
<1>3. ASSUME NEW i \in 1..n
      PROVE  k[i - 1] \in Nat /\ part[i] \in 0..9 /\ k[i] = 10 * k[i - 1] + part[i]
  <2>1. i - 1 \in 0..n
    BY <1>1
  <2> QED
    BY <1>1, <1>2, <2>1 DEF Shift
<1>4. n >= 1 => k[1] = part[1] /\ part[1] \in 0..9
  <2>1. ASSUME n >= 1 PROVE k[1] = part[1] /\ part[1] \in 0..9
    <3>1. 1 \in 1..n /\ 1 - 1 = 0
      BY <1>1, <2>1
    <3> QED
      BY <1>2, <1>3, <3>1
  <2> QED
    BY <2>1
<1>5. n >= 2 => k[2] = 10 * part[1] + part[2] /\ part[2] \in 0..9
  <2>1. ASSUME n >= 2 PROVE k[2] = 10 * part[1] + part[2] /\ part[2] \in 0..9
    <3>1. 2 \in 1..n /\ 2 - 1 = 1 /\ n >= 1
      BY <1>1, <2>1
    <3> QED
      BY <1>3, <1>4, <3>1
  <2> QED
    BY <2>1
<1>6. n >= 3 => k[3] = 100 * part[1] + 10 * part[2] + part[3] /\ part[3] \in 0..9
  <2>1. ASSUME n >= 3
        PROVE k[3] = 100 * part[1] + 10 * part[2] + part[3] /\ part[3] \in 0..9
    <3>1. 3 \in 1..n /\ 3 - 1 = 2 /\ n >= 1 /\ n >= 2
      BY <1>1, <2>1
    <3>2. k[3] = 10 * k[2] + part[3] /\ part[3] \in 0..9
      BY <1>3, <3>1
    <3> DEFINE a == part[1]
               b == part[2]
               c == part[3]
    <3>3. a \in 0..9 /\ b \in 0..9 /\ k[2] = 10 * a + b
      BY <1>4, <1>5, <3>1
    <3>4. c \in 0..9 /\ k[3] = 10 * k[2] + c
      BY <3>2
    <3> HIDE DEF a, b, c
    <3>5. k[3] = 100 * a + 10 * b + c
      BY ONLY <3>3, <3>4
    <3> QED
      BY <3>2, <3>5 DEF a, b, c
  <2> QED
    BY <2>1
<1>7. ASSUME n > 3, part[1] # 0 PROVE k[n] > 255
  <2> DEFINE Bad == {j \in 0..n : j >= 4 /\ ~(k[j] > 255)}
  <2>1. ASSUME Bad # {} PROVE FALSE
    <3>1. PICK j \in Bad : \A m \in Bad : j <= m
      <4>1. Bad \subseteq 0..n
        OBVIOUS
      <4> HIDE DEF Bad
      <4> QED
        BY <1>1, <2>1, <4>1, Least
    <3>2. j \in 1..n /\ j >= 4 /\ ~(k[j] > 255) /\ j - 1 \in 0..n
      BY <1>1
    <3>3. k[j - 1] \in Nat /\ part[j] \in 0..9 /\ k[j] = 10 * k[j - 1] + part[j]
      BY <1>3, <3>2
    <3>4. k[j - 1] >= 100
      <4>1. CASE j = 4
        <5>1. n >= 1 /\ n >= 2 /\ n >= 3 /\ j - 1 = 3
          BY <1>1, <1>7, <4>1
        <5> DEFINE a == part[1]
                   b == part[2]
                   c == part[3]
        <5>2. /\ a \in 0..9 /\ b \in 0..9 /\ c \in 0..9 /\ a # 0
              /\ k[j - 1] = 100 * a + 10 * b + c
          BY <1>4, <1>5, <1>6, <1>7, <5>1
        <5> HIDE DEF a, b, c
        <5> QED
          BY ONLY <5>2
      <4>2. CASE j # 4
        <5>1. j - 1 \notin Bad /\ j - 1 >= 4
          <6> HIDE DEF Bad
          <6> QED
            BY <3>1, <3>2, <4>2
        <5>2. k[j - 1] > 255
          BY <3>2, <5>1
        <5> QED
          BY <3>3, <5>2
      <4> QED
        BY <4>1, <4>2
    <3> DEFINE v == k[j - 1]
    <3>5. v \in Nat /\ v >= 100 /\ k[j] = 10 * v + part[j] /\ part[j] \in 0..9
      BY <3>3, <3>4
    <3> HIDE DEF v, Bad
    <3> QED
      BY ONLY <3>2, <3>5
  <2>2. n \notin Bad /\ n \in 0..n /\ n >= 4
    <3> HIDE DEF Bad
    <3> QED
      BY <1>1, <1>7, <2>1
  <2> QED
    BY <2>2
<1>8. k[n] \in Nat
  BY <1>1
<1>9. Atoi(part) = k[n]
  BY <1>2
<1> HIDE DEF n
<1>10. n = Len(part)
  BY DEF n
<1>11. n = 1 => k[n] = part[1]
  BY <1>4
<1>12. n = 2 => k[n] = 10 * part[1] + part[2]
  BY <1>5
<1>13. n = 3 => k[n] = 100 * part[1] + 10 * part[2] + part[3]
  BY <1>6
<1> QED
  BY ONLY <1>7, <1>8, <1>9, <1>10, <1>11, <1>12, <1>13

\* A part passes just if it is an octet.
LEMMA OctetIs ==
    ASSUME NEW part \in Seq(Digits)
    PROVE  part \in Octets <=>
             part # <<>> /\ (Len(part) > 1 => part[1] # 0) /\ Atoi(part) <= 255
<1> DEFINE n == Len(part)
<1>1. n \in Nat /\ DOMAIN part = 1..n /\ \A i \in 1..n : part[i] \in Digits
  OBVIOUS
<1>2. n = 0 <=> part = <<>>
  OBVIOUS
<1>3. CASE n = 0
  BY <1>2, <1>3, OctetsHave
<1>4. CASE n = 1
  <2>1. part = <<part[1]>> /\ part[1] \in Digits
    BY <1>1, <1>4
  <2>2. part \in Octets
    BY <2>1, OctetsHave
  <2>3. Atoi(part) = part[1] /\ part[1] \in 0..9
    BY <1>4, <2>1, AtoiIs DEF Digits
  <2> QED
    BY <1>2, <1>4, <2>2, <2>3
<1>5. CASE n = 2
  <2>1. part = <<part[1], part[2]>> /\ part[1] \in Digits /\ part[2] \in Digits
    BY <1>1, <1>5
  <2>2. part \in Octets <=> part[1] # 0
    BY <2>1, OctetsHave
  <2>3. Atoi(part) = 10 * part[1] + part[2] /\ part[1] \in 0..9 /\ part[2] \in 0..9
    BY <1>5, <2>1, AtoiIs DEF Digits
  <2> DEFINE a == part[1]
             b == part[2]
             v == Atoi(part)
  <2>a. v = 10 * a + b /\ a \in 0..9 /\ b \in 0..9
    BY <2>3
  <2> HIDE DEF a, b, v
  <2>b. v <= 255
    BY ONLY <2>a
  <2>4. Atoi(part) <= 255
    BY <2>b DEF v
  <2> QED
    BY <1>2, <1>5, <2>2, <2>4
<1>6. CASE n = 3
  <2>1. /\ part = <<part[1], part[2], part[3]>>
        /\ part[1] \in Digits /\ part[2] \in Digits /\ part[3] \in Digits
    BY <1>1, <1>6
  <2>2. part \in Octets <=> part[1] # 0 /\ 100 * part[1] + 10 * part[2] + part[3] <= 255
    BY <2>1, OctetsHave
  <2>3. Atoi(part) = 100 * part[1] + 10 * part[2] + part[3]
    BY <1>6, AtoiIs
  <2> QED
    BY <1>2, <1>6, <2>2, <2>3
<1>7. CASE n > 3
  <2>1. ASSUME part \in Octets PROVE FALSE
    <3>1. n \in 1..3
      BY <2>1, OctetsHave
    <3> HIDE DEF n
    <3> QED
      BY ONLY <1>7, <3>1
  <2>2. part[1] # 0 => Atoi(part) > 255
    BY <1>7, AtoiIs
  <2>3. Atoi(part) \in Nat
    BY AtoiIs
  <2> QED
    BY <1>1, <1>7, <2>1, <2>2, <2>3
<1> QED
  BY <1>1, <1>3, <1>4, <1>5, <1>6, <1>7

\* validateIPv4 takes the addresses of four octets, and nothing else.
THEOREM IPv4IsExact ==
    \A parts \in Seq(Seq(Digits)) :
        validateIPv4(parts) <=> parts \in Seq(Octets) /\ Len(parts) = 4
<1> SUFFICES ASSUME NEW parts \in Seq(Seq(Digits))
             PROVE  validateIPv4(parts) <=> parts \in Seq(Octets) /\ Len(parts) = 4
  OBVIOUS
<1>1. CASE Len(parts) # 4
  BY <1>1 DEF validateIPv4
<1>2. CASE Len(parts) = 4
  <2>1. \A i \in 1..Len(parts) : parts[i] \in Seq(Digits)
    OBVIOUS
  <2>2. \A i \in 1..4 : parts[i] \in Seq(Digits)
    BY <1>2, <2>1
  <2>3. validateIPv4(parts) <=> \A i \in 1..4 : parts[i] \in Octets
    BY <1>2, <2>2, OctetIs DEF validateIPv4
  <2>4. parts = [i \in 1..4 |-> parts[i]]
    <3>1. parts = [i \in 1..Len(parts) |-> parts[i]]
      OBVIOUS
    <3> QED
      BY <1>2, <3>1
  <2>5. ASSUME \A i \in 1..4 : parts[i] \in Octets PROVE parts \in Seq(Octets)
    <3>1. parts \in [1..4 -> Octets]
      BY <2>4, <2>5
    <3>2. ASSUME NEW n \in Nat, NEW f \in [1..n -> Octets] PROVE f \in Seq(Octets)
      OBVIOUS
    <3> QED
      BY <3>1, <3>2
  <2>6. ASSUME parts \in Seq(Octets) PROVE \A i \in 1..4 : parts[i] \in Octets
    <3>1. \A i \in 1..Len(parts) : parts[i] \in Octets
      BY <2>6
    <3> QED
      BY <1>2, <3>1
  <2> QED
    BY <1>2, <2>3, <2>5, <2>6
<1> QED
  BY <1>1, <1>2

-----------------------------------------------------------------------------
(* The folds of Extractor, step by step *)

\* The fields of ExtractContent.
Paths == Seq({"messages", "system", "choices", "content_block"} \cup Nat)
Fields == [text : Texts, path : Paths, index : Nat]
ContentParts == [type : STRING, text : Texts \cup {Absent}]

\* The texts that accumulate gathers, by index.
Builders == UNION {[K -> Texts] : K \in SUBSET Nat}
Lines == Seq(Deltas) \cup {Blank, Field}

\* One step of extractContentParts, of extractMessagesArray, of splitSSEChunks
\* and of accumulate.
PartTaken(parts, path, start, k, fields) ==
    IF parts[k].type = "text" /\ IsText(parts[k].text)
    THEN Append(fields, ContentField(parts[k].text, Append(path, k - 1),
                                     start + Len(fields)))
    ELSE fields
MessageTaken(messages, start, m, fields) ==
    fields \o extractMessageContent(messages[m], m, start + Len(fields))
LineTaken(line, chunks) ==
    IF line \in {Blank, Field} THEN chunks ELSE Append(chunks, line)
IndexOf(chunk, path, i) ==
    IF path = "choices" THEN choiceIndex(chunk[i], i) ELSE blockIndex(chunk[i])
DeltaTaken(chunk, path, i, acc) ==
    IF IsText(chunk[i].text) /\ IndexOf(chunk, path, i) # Absent
    THEN WriteString(acc, IndexOf(chunk, path, i), chunk[i].text) ELSE acc

Gathered(chunks, path) ==
    FoldLeft(LAMBDA deltas, chunk : accumulate(deltas, chunk, path), <<>>, chunks)

\* A field is one.
LEMMA FieldType ==
    ASSUME NEW text \in Texts, NEW path \in Paths, NEW index \in Nat
    PROVE  ContentField(text, path, index) \in Fields
BY DEF ContentField, Fields

\* With a part, the fields are still fields.
LEMMA PartType ==
    ASSUME NEW parts \in Seq(ContentParts), NEW path \in Paths, NEW start \in Nat,
           NEW k \in 1..Len(parts), NEW fields \in Seq(Fields)
    PROVE  PartTaken(parts, path, start, k, fields) \in Seq(Fields)
<1>1. parts[k] \in ContentParts
  OBVIOUS
<1>2. IsText(parts[k].text) => parts[k].text \in Texts
  BY <1>1 DEF ContentParts, IsText
<1>3. k - 1 \in Nat /\ start + Len(fields) \in Nat
  OBVIOUS
<1>4. Append(path, k - 1) \in Paths
  BY <1>3 DEF Paths
<1>5. IsText(parts[k].text) =>
         ContentField(parts[k].text, Append(path, k - 1), start + Len(fields))
             \in Fields
  BY <1>2, <1>3, <1>4, FieldType
<1> QED
  BY <1>5 DEF PartTaken

\* extractContentParts takes one part after the other.
LEMMA PartsSteps ==
    ASSUME NEW parts \in Seq(ContentParts), NEW path \in Paths, NEW start \in Nat
    PROVE  \E k \in [0..Len(parts) -> Seq(Fields)] :
              /\ k[0] = <<>> /\ extractContentParts(parts, path, start) = k[Len(parts)]
              /\ \A i \in 1..Len(parts) :
                    k[i] = PartTaken(parts, path, start, i, k[i - 1])
<1> DEFINE n == Len(parts)
           id == [i \in DOMAIN parts |-> i]
           Is(h) == h = [s \in SUBSET (DOMAIN id) |->
                           IF s = {} THEN <<>>
                           ELSE PartTaken(parts, path, start, id[Max(s)],
                                          h[s \ {Max(s)}])]
           g == CHOOSE h : Is(h)
           Step == [x \in (1..n) \X Seq(Fields) |->
                      PartTaken(parts, path, start, x[1], x[2])]
<1>1. extractContentParts(parts, path, start) = g[DOMAIN id]
  BY DEF extractContentParts, FoldLeftDomain, FoldLeft, MapThenFoldSet, PartTaken
<1>2. n \in Nat /\ DOMAIN parts = 1..n /\ <<>> \in Seq(Fields)
  OBVIOUS
<1>3. DOMAIN id = 1..n /\ \A i \in 1..n : id[i] = i
  BY <1>2
<1> HIDE DEF n, id
<1>4. \A i \in 1..n : \A fields \in Seq(Fields) :
         PartTaken(parts, path, start, i, fields) \in Seq(Fields)
  BY <1>2, PartType DEF n
<1>5. Step \in [(1..n) \X Seq(Fields) -> Seq(Fields)]
  BY <1>4
<1>a. \A i \in 1..n : \A v \in Seq(Fields) :
    Step[<<i, v>>] = PartTaken(parts, path, start, i, v)
  OBVIOUS
<1> HIDE DEF Step
<1>6. PICK f \in [SUBSET (1..n) -> Seq(Fields)], k \in [0..n -> Seq(Fields)] :
         Through(Step, <<>>, n, f, k)
  BY <1>2, <1>5, FoldSteps
<1>7. ASSUME NEW s \in SUBSET (1..n), s # {}
      PROVE  Max(s) \in 1..n /\ id[Max(s)] = Max(s) /\ s \ {Max(s)} \in SUBSET (1..n)
  BY <1>2, <1>3, <1>7, MaxIs
<1>8. Is(f)
  <2>1. ASSUME NEW s \in SUBSET (1..n)
        PROVE  f[s] = IF s = {} THEN <<>>
                      ELSE PartTaken(parts, path, start, id[Max(s)], f[s \ {Max(s)}])
    <3>1. f[s] = IF s = {} THEN <<>> ELSE Step[<<Max(s), f[s \ {Max(s)}]>>]
      BY <1>6 DEF Through, IsFold
    <3>2. ASSUME s # {}
          PROVE f[s] = PartTaken(parts, path, start, id[Max(s)], f[s \ {Max(s)}])
      <4>1. Max(s) \in 1..n /\ f[s \ {Max(s)}] \in Seq(Fields)
        BY <1>7, <3>2
      <4>2. f[s] = Step[<<Max(s), f[s \ {Max(s)}]>>]
        BY <3>1, <3>2
      <4> QED
        BY <1>7, <1>a, <3>2, <4>1, <4>2
    <3> QED
      BY <3>1, <3>2
  <2>2. f = [s \in SUBSET (1..n) |-> f[s]]
    OBVIOUS
  <2> QED
    BY <1>3, <2>1, <2>2
<1>9. Is(g)
  <2> HIDE DEF Is
  <2> QED
    BY <1>8
<1>10. ASSUME NEW h, Is(h), NEW s \in SUBSET (1..n)
       PROVE  h[s] = IF s = {} THEN <<>>
                     ELSE PartTaken(parts, path, start, id[Max(s)], h[s \ {Max(s)}])
  BY <1>3, <1>10
<1> HIDE DEF g, Is
<1>11. SameFold(g, f, n)
  <2> SUFFICES ASSUME NEW s \in SUBSET (1..n),
                      s = {} \/ g[s \ {Max(s)}] = f[s \ {Max(s)}]
               PROVE  g[s] = f[s]
    BY DEF SameFold
  <2>1. f[s] = IF s = {} THEN <<>>
               ELSE PartTaken(parts, path, start, id[Max(s)], f[s \ {Max(s)}])
    BY <1>8, <1>10
  <2>2. g[s] = IF s = {} THEN <<>>
               ELSE PartTaken(parts, path, start, id[Max(s)], g[s \ {Max(s)}])
    BY <1>9, <1>10
  <2> QED
    BY <2>1, <2>2
<1>12. ASSUME NEW i \in 1..n PROVE k[i] = PartTaken(parts, path, start, i, k[i - 1])
  <2>1. k[i - 1] \in Seq(Fields)
    BY <1>2
  <2>2. k[i] = Step[<<i, k[i - 1]>>]
    BY <1>6 DEF Through
  <2> QED
    BY <1>a, <2>1, <2>2
<1>13. k[0] = <<>> /\ extractContentParts(parts, path, start) = k[n]
  BY <1>1, <1>3, <1>6, <1>11 DEF Through
<1> QED
  BY <1>12, <1>13, Zenon DEF n

\* What is extracted from a content has the type of fields.
LEMMA ContentType ==
    ASSUME NEW content \in Contents, NEW path \in Paths, NEW start \in Nat
    PROVE  extractContent(content, path, start) \in Seq(Fields)
<1>1. CASE content.kind = "string"
  <2>1. content.text \in Texts
    BY <1>1 DEF Contents
  <2>2. ContentField(content.text, path, start) \in Fields
    BY <2>1, FieldType
  <2>3. <<ContentField(content.text, path, start)>> \in Seq(Fields)
            /\ <<>> \in Seq(Fields)
    BY <2>2
  <2> QED
    BY <1>1, <2>3 DEF extractContent
<1>2. CASE content.kind = "array"
  <2>1. content.parts \in Seq(ContentParts)
    BY <1>2 DEF Contents, ContentParts
  <2>2. Len(content.parts) \in Nat
    BY <2>1
  <2>3. extractContentParts(content.parts, path, start) \in Seq(Fields)
    BY <2>1, <2>2, PartsSteps
  <2> QED
    BY <1>2, <2>3 DEF extractContent
<1>3. CASE content.kind = "none"
  BY <1>3 DEF extractContent
<1> QED
  BY <1>1, <1>2, <1>3 DEF Contents

\* The place of a message is one.
LEMMA MessagePath ==
    ASSUME NEW m \in Nat \ {0}
    PROVE  <<"messages", m - 1>> \in Paths
<1> DEFINE Places == {"messages", "system", "choices", "content_block"} \cup Nat
           k == m - 1
<1>1. k \in Nat
  OBVIOUS
<1> HIDE DEF k
<1>a. "messages" \in Places
  OBVIOUS
<1>b. k \in Places
  BY <1>1
<1> HIDE DEF Places
<1>2. <<"messages", k>> \in Seq(Places)
  BY <1>a, <1>b
<1> QED
  BY <1>2 DEF Paths, Places, k

\* With a message, the fields are still fields.
LEMMA MessageType ==
    ASSUME NEW messages \in Seq(Contents), NEW start \in Nat,
           NEW m \in 1..Len(messages), NEW fields \in Seq(Fields)
    PROVE  MessageTaken(messages, start, m, fields) \in Seq(Fields)
<1>1. messages[m] \in Contents /\ m \in Nat \ {0} /\ start + Len(fields) \in Nat
  OBVIOUS
<1>2. extractMessageContent(messages[m], m, start + Len(fields)) \in Seq(Fields)
  BY <1>1, MessagePath, ContentType DEF extractMessageContent
<1> QED
  BY <1>2 DEF MessageTaken

\* extractMessagesArray takes one message after the other.
LEMMA MessagesSteps ==
    ASSUME NEW messages \in Seq(Contents), NEW start \in Nat
    PROVE  \E k \in [0..Len(messages) -> Seq(Fields)] :
              /\ k[0] = <<>> /\ extractMessagesArray(messages, start) = k[Len(messages)]
              /\ \A i \in 1..Len(messages) :
                    k[i] = MessageTaken(messages, start, i, k[i - 1])
<1> DEFINE n == Len(messages)
           id == [i \in DOMAIN messages |-> i]
           Is(h) == h = [s \in SUBSET (DOMAIN id) |->
                           IF s = {} THEN <<>>
                           ELSE MessageTaken(messages, start, id[Max(s)],
                                             h[s \ {Max(s)}])]
           g == CHOOSE h : Is(h)
           Step == [x \in (1..n) \X Seq(Fields) |->
                      MessageTaken(messages, start, x[1], x[2])]
<1>1. extractMessagesArray(messages, start) = g[DOMAIN id]
  BY DEF extractMessagesArray, FoldLeftDomain, FoldLeft, MapThenFoldSet, MessageTaken
<1>2. n \in Nat /\ DOMAIN messages = 1..n /\ <<>> \in Seq(Fields)
  OBVIOUS
<1>3. DOMAIN id = 1..n /\ \A i \in 1..n : id[i] = i
  BY <1>2
<1> HIDE DEF n, id
<1>4. \A i \in 1..n : \A fields \in Seq(Fields) :
         MessageTaken(messages, start, i, fields) \in Seq(Fields)
  BY <1>2, MessageType DEF n
<1>5. Step \in [(1..n) \X Seq(Fields) -> Seq(Fields)]
  BY <1>4
<1>a. \A i \in 1..n : \A v \in Seq(Fields) :
    Step[<<i, v>>] = MessageTaken(messages, start, i, v)
  OBVIOUS
<1> HIDE DEF Step
<1>6. PICK f \in [SUBSET (1..n) -> Seq(Fields)], k \in [0..n -> Seq(Fields)] :
         Through(Step, <<>>, n, f, k)
  BY <1>2, <1>5, FoldSteps
<1>7. ASSUME NEW s \in SUBSET (1..n), s # {}
      PROVE  Max(s) \in 1..n /\ id[Max(s)] = Max(s) /\ s \ {Max(s)} \in SUBSET (1..n)
  BY <1>2, <1>3, <1>7, MaxIs
<1>8. Is(f)
  <2>1. ASSUME NEW s \in SUBSET (1..n)
        PROVE  f[s] = IF s = {} THEN <<>>
                      ELSE MessageTaken(messages, start, id[Max(s)], f[s \ {Max(s)}])
    <3>1. f[s] = IF s = {} THEN <<>> ELSE Step[<<Max(s), f[s \ {Max(s)}]>>]
      BY <1>6 DEF Through, IsFold
    <3>2. ASSUME s # {}
          PROVE f[s] = MessageTaken(messages, start, id[Max(s)], f[s \ {Max(s)}])
      <4>1. Max(s) \in 1..n /\ f[s \ {Max(s)}] \in Seq(Fields)
        BY <1>7, <3>2
      <4>2. f[s] = Step[<<Max(s), f[s \ {Max(s)}]>>]
        BY <3>1, <3>2
      <4> QED
        BY <1>7, <1>a, <3>2, <4>1, <4>2
    <3> QED
      BY <3>1, <3>2
  <2>2. f = [s \in SUBSET (1..n) |-> f[s]]
    OBVIOUS
  <2> QED
    BY <1>3, <2>1, <2>2
<1>9. Is(g)
  <2> HIDE DEF Is
  <2> QED
    BY <1>8
<1>10. ASSUME NEW h, Is(h), NEW s \in SUBSET (1..n)
       PROVE  h[s] = IF s = {} THEN <<>>
                     ELSE MessageTaken(messages, start, id[Max(s)], h[s \ {Max(s)}])
  BY <1>3, <1>10
<1> HIDE DEF g, Is
<1>11. SameFold(g, f, n)
  <2> SUFFICES ASSUME NEW s \in SUBSET (1..n),
                      s = {} \/ g[s \ {Max(s)}] = f[s \ {Max(s)}]
               PROVE  g[s] = f[s]
    BY DEF SameFold
  <2>1. f[s] = IF s = {} THEN <<>>
               ELSE MessageTaken(messages, start, id[Max(s)], f[s \ {Max(s)}])
    BY <1>8, <1>10
  <2>2. g[s] = IF s = {} THEN <<>>
               ELSE MessageTaken(messages, start, id[Max(s)], g[s \ {Max(s)}])
    BY <1>9, <1>10
  <2> QED
    BY <2>1, <2>2
<1>12. ASSUME NEW i \in 1..n PROVE k[i] = MessageTaken(messages, start, i, k[i - 1])
  <2>1. k[i - 1] \in Seq(Fields)
    BY <1>2
  <2>2. k[i] = Step[<<i, k[i - 1]>>]
    BY <1>6 DEF Through
  <2> QED
    BY <1>a, <2>1, <2>2
<1>13. k[0] = <<>> /\ extractMessagesArray(messages, start) = k[n]
  BY <1>1, <1>3, <1>6, <1>11 DEF Through
<1> QED
  BY <1>12, <1>13, Zenon DEF n

\* With a line, the chunks are still chunks.
LEMMA LineType ==
    ASSUME NEW line \in Lines, NEW chunks \in Seq(Seq(Deltas))
    PROVE  LineTaken(line, chunks) \in Seq(Seq(Deltas))
<1>1. line \notin {Blank, Field} => line \in Seq(Deltas)
  BY DEF Lines
<1> QED
  BY <1>1 DEF LineTaken

\* splitSSEChunks takes one line after the other.
LEMMA ChunksSteps ==
    ASSUME NEW lines \in Seq(Lines)
    PROVE  \E k \in [0..Len(lines) -> Seq(Seq(Deltas))] :
              /\ k[0] = <<>> /\ splitSSEChunks(lines) = k[Len(lines)]
              /\ \A i \in 1..Len(lines) : k[i] = LineTaken(lines[i], k[i - 1])
<1> DEFINE n == Len(lines)
           id == lines
           Is(h) == h = [s \in SUBSET (DOMAIN id) |->
                           IF s = {} THEN <<>>
                           ELSE LineTaken(id[Max(s)], h[s \ {Max(s)}])]
           g == CHOOSE h : Is(h)
           Step == [x \in (1..n) \X Seq(Seq(Deltas)) |-> LineTaken(id[x[1]], x[2])]
<1>1. splitSSEChunks(lines) = g[DOMAIN id]
  BY DEF splitSSEChunks, FoldLeft, MapThenFoldSet, LineTaken
<1>2. n \in Nat /\ DOMAIN id = 1..n /\ <<>> \in Seq(Seq(Deltas))
          /\ \A i \in 1..n : id[i] \in Lines
  OBVIOUS
<1>3. DOMAIN id = 1..n
  BY <1>2
<1> HIDE DEF n, id
<1>4. \A i \in 1..n : \A chunks \in Seq(Seq(Deltas)) :
         LineTaken(id[i], chunks) \in Seq(Seq(Deltas))
  BY <1>2, LineType
<1>5. Step \in [(1..n) \X Seq(Seq(Deltas)) -> Seq(Seq(Deltas))]
  BY <1>4
<1>a. \A i \in 1..n : \A v \in Seq(Seq(Deltas)) : Step[<<i, v>>] = LineTaken(id[i], v)
  OBVIOUS
<1> HIDE DEF Step
<1>6. PICK f \in [SUBSET (1..n) -> Seq(Seq(Deltas))], k \in [0..n -> Seq(Seq(Deltas))] :
         Through(Step, <<>>, n, f, k)
  BY <1>2, <1>5, FoldSteps
<1>7. ASSUME NEW s \in SUBSET (1..n), s # {}
      PROVE  Max(s) \in 1..n /\ s \ {Max(s)} \in SUBSET (1..n)
  BY <1>2, <1>3, <1>7, MaxIs
<1>8. Is(f)
  <2>1. ASSUME NEW s \in SUBSET (1..n)
        PROVE  f[s] = IF s = {} THEN <<>>
                      ELSE LineTaken(id[Max(s)], f[s \ {Max(s)}])
    <3>1. f[s] = IF s = {} THEN <<>> ELSE Step[<<Max(s), f[s \ {Max(s)}]>>]
      BY <1>6 DEF Through, IsFold
    <3>2. ASSUME s # {} PROVE f[s] = LineTaken(id[Max(s)], f[s \ {Max(s)}])
      <4>1. Max(s) \in 1..n /\ f[s \ {Max(s)}] \in Seq(Seq(Deltas))
        BY <1>7, <3>2
      <4>2. f[s] = Step[<<Max(s), f[s \ {Max(s)}]>>]
        BY <3>1, <3>2
      <4> QED
        BY <1>7, <1>a, <3>2, <4>1, <4>2
    <3> QED
      BY <3>1, <3>2
  <2>2. f = [s \in SUBSET (1..n) |-> f[s]]
    OBVIOUS
  <2> QED
    BY <1>3, <2>1, <2>2
<1>9. Is(g)
  <2> HIDE DEF Is
  <2> QED
    BY <1>8
<1>10. ASSUME NEW h, Is(h), NEW s \in SUBSET (1..n)
       PROVE  h[s] = IF s = {} THEN <<>>
                     ELSE LineTaken(id[Max(s)], h[s \ {Max(s)}])
  BY <1>3, <1>10
<1> HIDE DEF g, Is
<1>11. SameFold(g, f, n)
  <2> SUFFICES ASSUME NEW s \in SUBSET (1..n),
                      s = {} \/ g[s \ {Max(s)}] = f[s \ {Max(s)}]
               PROVE  g[s] = f[s]
    BY DEF SameFold
  <2>1. f[s] = IF s = {} THEN <<>>
               ELSE LineTaken(id[Max(s)], f[s \ {Max(s)}])
    BY <1>8, <1>10
  <2>2. g[s] = IF s = {} THEN <<>>
               ELSE LineTaken(id[Max(s)], g[s \ {Max(s)}])
    BY <1>9, <1>10
  <2> QED
    BY <2>1, <2>2
<1>12. ASSUME NEW i \in 1..n PROVE k[i] = LineTaken(id[i], k[i - 1])
  <2>1. k[i - 1] \in Seq(Seq(Deltas))
    BY <1>2
  <2>2. k[i] = Step[<<i, k[i - 1]>>]
    BY <1>6 DEF Through
  <2> QED
    BY <1>a, <2>1, <2>2
<1>13. k[0] = <<>> /\ splitSSEChunks(lines) = k[n]
  BY <1>1, <1>3, <1>6, <1>11 DEF Through
<1> QED
  BY <1>12, <1>13, Zenon DEF n, id

\* There may be no text at all.
LEMMA NoBuilder == <<>> \in Builders
<1>1. <<>> \in [{} -> Texts] /\ {} \in SUBSET Nat
  BY EmptySeq
<1> QED
  BY <1>1 DEF Builders

\* With a string, the texts are still texts.
LEMMA WriteStringType ==
    ASSUME NEW acc \in Builders, NEW idx \in Nat, NEW text \in Texts
    PROVE  WriteString(acc, idx, text) \in Builders
<1>1. PICK K \in SUBSET Nat : acc \in [K -> Texts]
  BY DEF Builders
<1> DEFINE D == K \cup {idx}
           w == [k \in D |-> IF k # idx THEN acc[k]
                             ELSE IF k \in DOMAIN acc THEN acc[k] \o text ELSE text]
<1>2. ASSUME NEW k \in K PROVE acc[k] \in Texts /\ acc[k] \o text \in Texts
  BY <1>1 DEF Texts
<1>3. w \in [D -> Texts]
  <2>1. ASSUME NEW k \in D
        PROVE  (IF k # idx THEN acc[k]
                ELSE IF k \in DOMAIN acc THEN acc[k] \o text ELSE text) \in Texts
    BY <1>1, <1>2
  <2> QED
    BY <2>1
<1>4. D \in SUBSET Nat
  OBVIOUS
<1>5. WriteString(acc, idx, text) = w
  BY <1>1 DEF WriteString
<1> HIDE DEF D, w
<1> QED
  BY <1>3, <1>4, <1>5 DEF Builders

\* So they are with a delta.
LEMMA DeltaType ==
    ASSUME NEW chunk \in Seq(Deltas), NEW path, NEW i \in 1..Len(chunk),
           NEW acc \in Builders
    PROVE  DeltaTaken(chunk, path, i, acc) \in Builders
<1>1. chunk[i] \in Deltas
  OBVIOUS
<1>2. chunk[i].index \in Nat \cup {Absent} /\ chunk[i].text \in Texts \cup {Absent}
  BY <1>1 DEF Deltas
<1>3. IndexOf(chunk, path, i) \in Nat \cup {Absent}
  BY <1>2 DEF IndexOf, choiceIndex, blockIndex
<1>4. IsText(chunk[i].text) => chunk[i].text \in Texts
  BY <1>2 DEF IsText
<1> QED
  BY <1>3, <1>4, WriteStringType DEF DeltaTaken

\* accumulate takes one delta of a chunk after the other.
LEMMA AccumulateSteps ==
    ASSUME NEW deltas \in Builders, NEW chunk \in Seq(Deltas), NEW path
    PROVE  \E k \in [0..Len(chunk) -> Builders] :
              /\ k[0] = deltas /\ accumulate(deltas, chunk, path) = k[Len(chunk)]
              /\ \A i \in 1..Len(chunk) : k[i] = DeltaTaken(chunk, path, i, k[i - 1])
<1> DEFINE n == Len(chunk)
           id == [i \in DOMAIN chunk |-> i]
           Is(h) == h = [s \in SUBSET (DOMAIN id) |->
                           IF s = {} THEN deltas
                           ELSE DeltaTaken(chunk, path, id[Max(s)], h[s \ {Max(s)}])]
           g == CHOOSE h : Is(h)
           Step == [x \in (1..n) \X Builders |-> DeltaTaken(chunk, path, x[1], x[2])]
<1>1. accumulate(deltas, chunk, path) = g[DOMAIN id]
  BY DEF accumulate, FoldLeftDomain, FoldLeft, MapThenFoldSet, DeltaTaken, IndexOf
<1>2. n \in Nat /\ DOMAIN chunk = 1..n /\ deltas \in Builders
  OBVIOUS
<1>3. DOMAIN id = 1..n /\ \A i \in 1..n : id[i] = i
  BY <1>2
<1> HIDE DEF n, id
<1>4. \A i \in 1..n : \A acc \in Builders : DeltaTaken(chunk, path, i, acc) \in Builders
  BY <1>2, DeltaType DEF n
<1>5. Step \in [(1..n) \X Builders -> Builders]
  BY <1>4
<1>a. \A i \in 1..n : \A v \in Builders : Step[<<i, v>>] = DeltaTaken(chunk, path, i, v)
  OBVIOUS
<1> HIDE DEF Step
<1>6. PICK f \in [SUBSET (1..n) -> Builders], k \in [0..n -> Builders] :
         Through(Step, deltas, n, f, k)
  BY <1>2, <1>5, FoldSteps
<1>7. ASSUME NEW s \in SUBSET (1..n), s # {}
      PROVE  Max(s) \in 1..n /\ id[Max(s)] = Max(s) /\ s \ {Max(s)} \in SUBSET (1..n)
  BY <1>2, <1>3, <1>7, MaxIs
<1>8. Is(f)
  <2>1. ASSUME NEW s \in SUBSET (1..n)
        PROVE  f[s] = IF s = {} THEN deltas
                      ELSE DeltaTaken(chunk, path, id[Max(s)], f[s \ {Max(s)}])
    <3>1. f[s] = IF s = {} THEN deltas ELSE Step[<<Max(s), f[s \ {Max(s)}]>>]
      BY <1>6 DEF Through, IsFold
    <3>2. ASSUME s # {}
          PROVE f[s] = DeltaTaken(chunk, path, id[Max(s)], f[s \ {Max(s)}])
      <4>1. Max(s) \in 1..n /\ f[s \ {Max(s)}] \in Builders
        BY <1>7, <3>2
      <4>2. f[s] = Step[<<Max(s), f[s \ {Max(s)}]>>]
        BY <3>1, <3>2
      <4> QED
        BY <1>7, <1>a, <3>2, <4>1, <4>2
    <3> QED
      BY <3>1, <3>2
  <2>2. f = [s \in SUBSET (1..n) |-> f[s]]
    OBVIOUS
  <2> QED
    BY <1>3, <2>1, <2>2
<1>9. Is(g)
  <2> HIDE DEF Is
  <2> QED
    BY <1>8
<1>10. ASSUME NEW h, Is(h), NEW s \in SUBSET (1..n)
       PROVE  h[s] = IF s = {} THEN deltas
                     ELSE DeltaTaken(chunk, path, id[Max(s)], h[s \ {Max(s)}])
  BY <1>3, <1>10
<1> HIDE DEF g, Is
<1>11. SameFold(g, f, n)
  <2> SUFFICES ASSUME NEW s \in SUBSET (1..n),
                      s = {} \/ g[s \ {Max(s)}] = f[s \ {Max(s)}]
               PROVE  g[s] = f[s]
    BY DEF SameFold
  <2>1. f[s] = IF s = {} THEN deltas
               ELSE DeltaTaken(chunk, path, id[Max(s)], f[s \ {Max(s)}])
    BY <1>8, <1>10
  <2>2. g[s] = IF s = {} THEN deltas
               ELSE DeltaTaken(chunk, path, id[Max(s)], g[s \ {Max(s)}])
    BY <1>9, <1>10
  <2> QED
    BY <2>1, <2>2
<1>12. ASSUME NEW i \in 1..n PROVE k[i] = DeltaTaken(chunk, path, i, k[i - 1])
  <2>1. k[i - 1] \in Builders
    BY <1>2
  <2>2. k[i] = Step[<<i, k[i - 1]>>]
    BY <1>6 DEF Through
  <2> QED
    BY <1>a, <2>1, <2>2
<1>13. k[0] = deltas /\ accumulate(deltas, chunk, path) = k[n]
  BY <1>1, <1>3, <1>6, <1>11 DEF Through
<1> QED
  BY <1>12, <1>13, Zenon DEF n

\* So they are with a chunk.
LEMMA AccumulateType ==
    ASSUME NEW deltas \in Builders, NEW chunk \in Seq(Deltas), NEW path
    PROVE  accumulate(deltas, chunk, path) \in Builders
<1>1. Len(chunk) \in Nat
  OBVIOUS
<1> QED
  BY <1>1, AccumulateSteps

\* deltasOf takes one chunk after the other.
LEMMA GatheredSteps ==
    ASSUME NEW chunks \in Seq(Seq(Deltas)), NEW path
    PROVE  \E k \in [0..Len(chunks) -> Builders] :
              /\ k[0] = <<>> /\ Gathered(chunks, path) = k[Len(chunks)]
              /\ \A i \in 1..Len(chunks) : k[i] = accumulate(k[i - 1], chunks[i], path)
<1> DEFINE n == Len(chunks)
           id == chunks
           Is(h) == h = [s \in SUBSET (DOMAIN id) |->
                           IF s = {} THEN <<>>
                           ELSE accumulate(h[s \ {Max(s)}], id[Max(s)], path)]
           g == CHOOSE h : Is(h)
           Step == [x \in (1..n) \X Builders |-> accumulate(x[2], id[x[1]], path)]
<1>1. Gathered(chunks, path) = g[DOMAIN id]
  BY DEF Gathered, FoldLeft, MapThenFoldSet
<1>2. n \in Nat /\ DOMAIN id = 1..n /\ <<>> \in Builders
          /\ \A i \in 1..n : id[i] \in Seq(Deltas)
  BY NoBuilder
<1>3. DOMAIN id = 1..n
  BY <1>2
<1> HIDE DEF n, id
<1>4. \A i \in 1..n : \A v \in Builders : accumulate(v, id[i], path) \in Builders
  BY <1>2, AccumulateType
<1>5. Step \in [(1..n) \X Builders -> Builders]
  BY <1>4
<1>a. \A i \in 1..n : \A v \in Builders : Step[<<i, v>>] = accumulate(v, id[i], path)
  OBVIOUS
<1> HIDE DEF Step
<1>6. PICK f \in [SUBSET (1..n) -> Builders], k \in [0..n -> Builders] :
         Through(Step, <<>>, n, f, k)
  BY <1>2, <1>5, FoldSteps
<1>7. ASSUME NEW s \in SUBSET (1..n), s # {}
      PROVE  Max(s) \in 1..n /\ s \ {Max(s)} \in SUBSET (1..n)
  BY <1>2, <1>3, <1>7, MaxIs
<1>8. Is(f)
  <2>1. ASSUME NEW s \in SUBSET (1..n)
        PROVE  f[s] = IF s = {} THEN <<>>
                      ELSE accumulate(f[s \ {Max(s)}], id[Max(s)], path)
    <3>1. f[s] = IF s = {} THEN <<>> ELSE Step[<<Max(s), f[s \ {Max(s)}]>>]
      BY <1>6 DEF Through, IsFold
    <3>2. ASSUME s # {} PROVE f[s] = accumulate(f[s \ {Max(s)}], id[Max(s)], path)
      <4>1. Max(s) \in 1..n /\ f[s \ {Max(s)}] \in Builders
        BY <1>7, <3>2
      <4>2. f[s] = Step[<<Max(s), f[s \ {Max(s)}]>>]
        BY <3>1, <3>2
      <4> QED
        BY <1>7, <1>a, <3>2, <4>1, <4>2
    <3> QED
      BY <3>1, <3>2
  <2>2. f = [s \in SUBSET (1..n) |-> f[s]]
    OBVIOUS
  <2> QED
    BY <1>3, <2>1, <2>2
<1>9. Is(g)
  <2> HIDE DEF Is
  <2> QED
    BY <1>8
<1>10. ASSUME NEW h, Is(h), NEW s \in SUBSET (1..n)
       PROVE  h[s] = IF s = {} THEN <<>>
                     ELSE accumulate(h[s \ {Max(s)}], id[Max(s)], path)
  BY <1>3, <1>10
<1> HIDE DEF g, Is
<1>11. SameFold(g, f, n)
  <2> SUFFICES ASSUME NEW s \in SUBSET (1..n),
                      s = {} \/ g[s \ {Max(s)}] = f[s \ {Max(s)}]
               PROVE  g[s] = f[s]
    BY DEF SameFold
  <2>1. f[s] = IF s = {} THEN <<>>
               ELSE accumulate(f[s \ {Max(s)}], id[Max(s)], path)
    BY <1>8, <1>10
  <2>2. g[s] = IF s = {} THEN <<>>
               ELSE accumulate(g[s \ {Max(s)}], id[Max(s)], path)
    BY <1>9, <1>10
  <2> QED
    BY <2>1, <2>2
<1>12. ASSUME NEW i \in 1..n PROVE k[i] = accumulate(k[i - 1], id[i], path)
  <2>1. k[i - 1] \in Builders
    BY <1>2
  <2>2. k[i] = Step[<<i, k[i - 1]>>]
    BY <1>6 DEF Through
  <2> QED
    BY <1>a, <2>1, <2>2
<1>13. k[0] = <<>> /\ Gathered(chunks, path) = k[n]
  BY <1>1, <1>3, <1>6, <1>11 DEF Through
<1> QED
  BY <1>12, <1>13, Zenon DEF n, id

-----------------------------------------------------------------------------
(* What the fields of a request tell *)

\* The fields are these texts, each once and under its own place.
Tells(fields, written) ==
    /\ fields \in Seq(Fields)
    /\ \A i, j \in DOMAIN fields : fields[i].path = fields[j].path => i = j
    /\ written = {<<fields[i].path, fields[i].text>> : i \in DOMAIN fields}

\* No fields tell no texts.
LEMMA TellsNothing == Tells(<<>>, {})
BY DEF Tells

\* One field tells one text.
LEMMA TellsField ==
    ASSUME NEW field \in Fields
    PROVE  Tells(<<field>>, {<<field.path, field.text>>})
<1>1. <<field>> \in Seq(Fields) /\ DOMAIN <<field>> = {1} /\ <<field>>[1] = field
  OBVIOUS
<1> QED
  BY <1>1 DEF Tells

\* Fields of other places may follow.
LEMMA TellsBoth ==
    ASSUME NEW f, NEW A, Tells(f, A), NEW g, NEW B, Tells(g, B),
           \A a \in A, b \in B : a[1] # b[1]
    PROVE  Tells(f \o g, A \cup B)
<1> DEFINE m == Len(f)
           n == Len(g)
           h == f \o g
<1>1. /\ f \in Seq(Fields) /\ g \in Seq(Fields) /\ m \in Nat /\ n \in Nat
      /\ DOMAIN f = 1..m /\ DOMAIN g = 1..n
  BY DEF Tells
<1>2. /\ h \in Seq(Fields) /\ Len(h) = m + n
      /\ \A i \in 1..m : h[i] = f[i]
      /\ \A j \in 1..n : h[m + j] = g[j]
  BY <1>1, ConcatProperties
<1> HIDE DEF h, m, n
<1>3. DOMAIN h = 1..(m + n)
  BY <1>1, <1>2
<1>4. \A i \in 1..(m + n) : i \in 1..m \/ \E j \in 1..n : i = m + j
  <2>1. ASSUME NEW i \in 1..(m + n), i \notin 1..m
        PROVE i - m \in 1..n /\ i = m + (i - m)
    BY <1>1, <2>1
  <2> QED
    BY <2>1
<1>5. (\A i \in 1..m : i \in 1..(m + n)) /\ \A j \in 1..n : m + j \in 1..(m + n)
  BY <1>1
<1>6. /\ \A i, j \in 1..m : f[i].path = f[j].path => i = j
      /\ \A i, j \in 1..n : g[i].path = g[j].path => i = j
      /\ A = {<<f[i].path, f[i].text>> : i \in 1..m}
      /\ B = {<<g[i].path, g[i].text>> : i \in 1..n}
  BY <1>1 DEF Tells
<1>7. \A i \in 1..m, j \in 1..n : f[i].path # g[j].path
  <2>1. ASSUME NEW i \in 1..m, NEW j \in 1..n PROVE f[i].path # g[j].path
    <3>1. <<f[i].path, f[i].text>> \in A /\ <<g[j].path, g[j].text>> \in B
      BY <1>6
    <3> QED
      BY <3>1
  <2> QED
    BY <2>1
<1>8. ASSUME NEW i \in 1..(m + n), NEW j \in 1..(m + n), h[i].path = h[j].path
      PROVE  i = j
  <2>1. CASE i \in 1..m /\ j \in 1..m
    BY <1>2, <1>6, <1>8, <2>1
  <2>2. ASSUME NEW a \in 1..n, i = m + a, j \in 1..m PROVE FALSE
    BY <1>2, <1>7, <1>8, <2>2
  <2>3. ASSUME NEW a \in 1..n, j = m + a, i \in 1..m PROVE FALSE
    BY <1>2, <1>7, <1>8, <2>3
  <2>4. ASSUME NEW a \in 1..n, NEW b \in 1..n, i = m + a, j = m + b PROVE i = j
    BY <1>2, <1>6, <1>8, <2>4
  <2> QED
    BY <1>4, <2>1, <2>2, <2>3, <2>4
<1>9. A \cup B = {<<h[i].path, h[i].text>> : i \in 1..(m + n)}
  <2>1. ASSUME NEW x \in A PROVE \E i \in 1..(m + n) : x = <<h[i].path, h[i].text>>
    BY <1>2, <1>5, <1>6
  <2>2. ASSUME NEW x \in B PROVE \E i \in 1..(m + n) : x = <<h[i].path, h[i].text>>
    <3>1. PICK j \in 1..n : x = <<g[j].path, g[j].text>>
      BY <1>6
    <3>2. m + j \in 1..(m + n) /\ h[m + j] = g[j]
      BY <1>2, <1>5
    <3> QED
      BY <3>1, <3>2
  <2>3. ASSUME NEW i \in 1..(m + n) PROVE <<h[i].path, h[i].text>> \in A \cup B
    <3>1. ASSUME i \in 1..m PROVE <<h[i].path, h[i].text>> \in A
      BY <1>2, <1>6, <3>1
    <3>2. ASSUME NEW j \in 1..n, i = m + j PROVE <<h[i].path, h[i].text>> \in B
      <4>1. h[i] = g[j]
        BY <1>2, <3>2
      <4> QED
        BY <1>6, <4>1
    <3> QED
      BY <1>4, <3>1, <3>2
  <2> QED
    BY <2>1, <2>2, <2>3
<1> QED
  BY <1>2, <1>3, <1>8, <1>9 DEF Tells, h

\* The places that begin with path.
Under(t, path) ==
    Len(path) <= Len(t[1]) /\ \A i \in 1..Len(path) : t[1][i] = path[i]

TextIn(parts, path, k) == <<Append(path, k - 1), parts[k].text>>
TextParts(parts, n) == {k \in 1..n : parts[k].type = "text" /\ IsText(parts[k].text)}

\* The fields of a multimodal content are its non-empty text parts.
LEMMA PartsTell ==
    ASSUME NEW parts \in Seq(ContentParts), NEW path \in Paths, NEW start \in Nat
    PROVE  Tells(extractContentParts(parts, path, start),
                 {TextIn(parts, path, k) : k \in TextParts(parts, Len(parts))})
<1> DEFINE n == Len(parts)
           W(i) == {TextIn(parts, path, k) : k \in TextParts(parts, i)}
<1>1. n \in Nat /\ \A k \in 1..n : parts[k] \in ContentParts
  OBVIOUS
<1>2. PICK k \in [0..n -> Seq(Fields)] :
         /\ k[0] = <<>> /\ extractContentParts(parts, path, start) = k[n]
         /\ \A i \in 1..n : k[i] = PartTaken(parts, path, start, i, k[i - 1])
  BY PartsSteps
<1> HIDE DEF n
<1> DEFINE Bad == {i \in 0..n : ~Tells(k[i], W(i))}
<1>3. W(0) = {}
  BY DEF TextParts
<1>4. ASSUME NEW i \in 1..n, Tells(k[i - 1], W(i - 1)) PROVE Tells(k[i], W(i))
  <2>1. i - 1 \in 0..n /\ i - 1 \in Nat /\ i \in Nat
    BY <1>1
  <2>2. k[i] = PartTaken(parts, path, start, i, k[i - 1]) /\ k[i - 1] \in Seq(Fields)
    BY <1>2, <2>1
  <2>3. CASE ~(parts[i].type = "text" /\ IsText(parts[i].text))
    <3>1. TextParts(parts, i) = TextParts(parts, i - 1)
      BY <2>1, <2>3 DEF TextParts
    <3> QED
      BY <1>4, <2>2, <2>3, <3>1 DEF PartTaken
  <2>4. CASE parts[i].type = "text" /\ IsText(parts[i].text)
    <3> DEFINE f == k[i - 1]
               x == ContentField(parts[i].text, Append(path, i - 1), start + Len(f))
    <3>1. k[i] = Append(f, x)
      BY <2>2, <2>4 DEF PartTaken
    <3>2. x \in Fields
      <4>1. parts[i].text \in Texts
        BY <1>1, <2>4 DEF ContentParts, IsText
      <4>2. Append(path, i - 1) \in Paths /\ start + Len(f) \in Nat
        BY <2>1, <2>2 DEF Paths
      <4> QED
        BY <4>1, <4>2, FieldType
    <3>3. <<x.path, x.text>> = TextIn(parts, path, i)
      BY DEF ContentField, TextIn
    <3> HIDE DEF x
    <3>4. Tells(<<x>>, {TextIn(parts, path, i)})
      BY <3>2, <3>3, TellsField
    <3>5. \A a \in W(i - 1), b \in {TextIn(parts, path, i)} : a[1] # b[1]
      <4>1. ASSUME NEW j \in TextParts(parts, i - 1)
            PROVE  TextIn(parts, path, j)[1] # TextIn(parts, path, i)[1]
        <5>1. j \in 1..(i - 1)
          BY DEF TextParts
        <5>2. j \in Int /\ j < i /\ i \in Int
          BY <2>1, <5>1
        <5>3. Append(path, j - 1) # Append(path, i - 1)
          <6> DEFINE l == Len(path) + 1
          <6>1. Append(path, j - 1)[l] = j - 1 /\ Append(path, i - 1)[l] = i - 1
            BY <2>1, <5>1 DEF Paths
          <6>2. j - 1 # i - 1
            BY <5>2
          <6> QED
            BY <6>1, <6>2
        <5> QED
          BY <5>3 DEF TextIn
      <4> QED
        BY <4>1
    <3>6. TextParts(parts, i) = TextParts(parts, i - 1) \cup {i}
      BY <2>1, <2>4 DEF TextParts
    <3>7. W(i) = W(i - 1) \cup {TextIn(parts, path, i)}
      BY <3>6
    <3>8. Append(f, x) = f \o <<x>>
      BY <2>2, <3>2, AppendIsConcat
    <3> HIDE DEF f, W
    <3>9. Tells(f \o <<x>>, W(i - 1) \cup {TextIn(parts, path, i)})
      BY <1>4, <3>4, <3>5, TellsBoth DEF f
    <3> QED
      BY <3>1, <3>7, <3>8, <3>9
  <2> QED
    BY <2>3, <2>4
<1>5. ASSUME Bad # {} PROVE FALSE
  <2>1. PICK i \in Bad : \A j \in Bad : i <= j
    <3>1. Bad \subseteq 0..n
      OBVIOUS
    <3> HIDE DEF Bad
    <3> QED
      BY <1>1, <1>5, <3>1, Least
  <2>2. i \in 0..n /\ ~Tells(k[i], W(i))
    OBVIOUS
  <2>3. i # 0
    BY <1>2, <1>3, <2>2, TellsNothing
  <2>4. i \in 1..n /\ i - 1 \in 0..n
    BY <1>1, <2>2, <2>3
  <2>5. i - 1 \notin Bad
    <3> HIDE DEF Bad
    <3> QED
      BY <2>1, <2>4
  <2> HIDE DEF W
  <2> QED
    BY <1>4, <2>2, <2>4, <2>5
<1>6. Tells(k[n], W(n))
  <2>1. n \in 0..n /\ n \notin Bad
    <3> HIDE DEF Bad
    <3> QED
      BY <1>1, <1>5
  <2> HIDE DEF W
  <2> QED
    BY <2>1
<1> QED
  BY <1>2, <1>6 DEF n

Shown(texts) == {t \in texts : IsText(t[2])}

\* The fields of a content are its texts, at or under its place.
LEMMA ContentTells ==
    ASSUME NEW content \in Contents, NEW path \in Paths, NEW start \in Nat
    PROVE  /\ Tells(extractContent(content, path, start), Shown(TextsOf(content, path)))
           /\ \A t \in TextsOf(content, path) : Under(t, path)
<1>1. CASE content.kind = "string"
  <2> DEFINE x == ContentField(content.text, path, start)
  <2>1. TextsOf(content, path) = {<<path, content.text>>}
    BY <1>1 DEF TextsOf
  <2>2. \A t \in TextsOf(content, path) : Under(t, path)
    BY <2>1 DEF Under, Paths
  <2>3. CASE IsText(content.text)
    <3>1. content.text \in Texts
      BY <1>1 DEF Contents
    <3>2. x \in Fields
      BY <3>1, FieldType
    <3>3. x.path = path /\ x.text = content.text
      BY DEF ContentField
    <3>4. extractContent(content, path, start) = <<x>>
      BY <1>1, <2>3 DEF extractContent
    <3>5. Shown(TextsOf(content, path)) = {<<x.path, x.text>>}
      BY <2>1, <2>3, <3>3 DEF Shown
    <3> HIDE DEF x
    <3> QED
      BY <2>2, <3>2, <3>4, <3>5, TellsField
  <2>4. CASE ~IsText(content.text)
    <3>1. extractContent(content, path, start) = <<>>
      BY <1>1, <2>4 DEF extractContent
    <3>2. Shown(TextsOf(content, path)) = {}
      BY <2>1, <2>4 DEF Shown
    <3> QED
      BY <2>2, <3>1, <3>2, TellsNothing
  <2> QED
    BY <2>3, <2>4
<1>2. CASE content.kind = "array"
  <2> DEFINE parts == content.parts
             n == Len(parts)
  <2>1. parts \in Seq(ContentParts)
    BY <1>2 DEF Contents, ContentParts
  <2>2. n \in Nat /\ DOMAIN parts = 1..n
    BY <2>1
  <2>3. extractContent(content, path, start) = extractContentParts(parts, path, start)
    BY <1>2 DEF extractContent
  <2>4. TextsOf(content, path) =
          {TextIn(parts, path, k) : k \in {k \in 1..n : parts[k].type = "text"}}
    BY <1>2, <2>2 DEF TextsOf, TextIn
  <2>5. \A k : TextIn(parts, path, k)[2] = parts[k].text
    BY DEF TextIn
  <2>6. Shown(TextsOf(content, path)) = {TextIn(parts, path, k) :
            k \in TextParts(parts, n)}
    <3> HIDE DEF parts, n
    <3> QED
      BY <2>4, <2>5 DEF Shown, TextParts
  <2>7. ASSUME NEW t \in TextsOf(content, path) PROVE Under(t, path)
    <3>1. PICK k \in 1..n : t = TextIn(parts, path, k)
      BY <2>4
    <3>2. t[1] = Append(path, k - 1) /\ k - 1 \in Nat
      BY <2>2, <3>1 DEF TextIn
    <3> DEFINE Places == {"messages", "system", "choices", "content_block"} \cup Nat
               j == k - 1
    <3>3. path \in Seq(Places) /\ j \in Places
      BY <3>2 DEF Paths
    <3> HIDE DEF Places, j
    <3>4. /\ Len(Append(path, j)) = Len(path) + 1 /\ Len(path) \in Nat
          /\ \A i \in 1..Len(path) : Append(path, j)[i] = path[i]
      BY <3>3, AppendProperties
    <3> QED
      BY <3>2, <3>4 DEF Under, j
  <2> HIDE DEF parts, n
  <2>8. Tells(extractContentParts(parts, path, start),
              {TextIn(parts, path, k) : k \in TextParts(parts, n)})
    BY <2>1, PartsTell DEF n
  <2> QED
    BY <2>3, <2>6, <2>7, <2>8
<1>3. CASE content.kind = "none"
  <2>1. extractContent(content, path, start) = <<>> /\ TextsOf(content, path) = {}
    BY <1>3 DEF extractContent, TextsOf
  <2> QED
    BY <2>1, TellsNothing DEF Shown
<1> QED
  BY <1>1, <1>2, <1>3 DEF Contents

MessageTexts(messages, m) == Shown(TextsOf(messages[m], <<"messages", m - 1>>))

\* The fields of the messages are their texts.
LEMMA MessagesTell ==
    ASSUME NEW messages \in Seq(Contents), NEW start \in Nat
    PROVE  /\ Tells(extractMessagesArray(messages, start),
                    UNION {MessageTexts(messages, m) : m \in 1..Len(messages)})
           /\ \A m \in 1..Len(messages) : \A t \in MessageTexts(messages, m) :
                 t[1][1] = "messages"
<1> DEFINE n == Len(messages)
           W(i) == UNION {MessageTexts(messages, m) : m \in 1..i}
<1>1. n \in Nat /\ \A m \in 1..n : messages[m] \in Contents
  OBVIOUS
<1>2. PICK k \in [0..n -> Seq(Fields)] :
         /\ k[0] = <<>> /\ extractMessagesArray(messages, start) = k[n]
         /\ \A i \in 1..n : k[i] = MessageTaken(messages, start, i, k[i - 1])
  BY MessagesSteps
<1> HIDE DEF n
<1>3. ASSUME NEW m \in 1..n, NEW t \in MessageTexts(messages, m)
      PROVE  t[1][1] = "messages" /\ t[1][2] = m - 1
  <2> DEFINE path == <<"messages", m - 1>>
  <2>1. path \in Paths /\ Len(path) = 2 /\ path[1] = "messages" /\ path[2] = m - 1
    BY <1>1, MessagePath
  <2>2. t \in TextsOf(messages[m], path)
    BY DEF MessageTexts, Shown
  <2> HIDE DEF path
  <2>3. Under(t, path)
    BY <1>1, <2>1, <2>2, ContentTells
  <2> QED
    BY <2>1, <2>3 DEF Under
<1>4. ASSUME NEW i \in 1..n, NEW from \in Nat
      PROVE  Tells(extractMessageContent(messages[i], i, from),
                   MessageTexts(messages, i))
  <2>1. <<"messages", i - 1>> \in Paths
    BY <1>1, MessagePath
  <2> QED
    BY <1>1, <2>1, ContentTells DEF extractMessageContent, MessageTexts
<1> DEFINE Bad == {i \in 0..n : ~Tells(k[i], W(i))}
<1>5. ASSUME NEW i \in 1..n, Tells(k[i - 1], W(i - 1)) PROVE Tells(k[i], W(i))
  <2>1. i - 1 \in 0..n /\ i - 1 \in Nat /\ i \in Nat
    BY <1>1
  <2> DEFINE f == k[i - 1]
             g == extractMessageContent(messages[i], i, start + Len(f))
  <2>2. k[i] = f \o g /\ f \in Seq(Fields)
    BY <1>2, <2>1 DEF MessageTaken
  <2>3. start + Len(f) \in Nat
    BY <2>2
  <2>4. Tells(g, MessageTexts(messages, i))
    BY <1>4, <2>3
  <2>5. \A a \in W(i - 1), b \in MessageTexts(messages, i) : a[1] # b[1]
    <3>1. ASSUME NEW m \in 1..(i - 1), NEW a \in MessageTexts(messages, m),
                 NEW b \in MessageTexts(messages, i)
          PROVE  a[1] # b[1]
      <4>1. m \in 1..n /\ m - 1 # i - 1
        BY <1>1, <2>1
      <4>2. a[1][2] = m - 1 /\ b[1][2] = i - 1
        BY <1>3, <4>1
      <4> QED
        BY <4>1, <4>2
    <3> QED
      BY <3>1
  <2>6. W(i) = W(i - 1) \cup MessageTexts(messages, i)
    <3>1. 1..i = (1..(i - 1)) \cup {i}
      BY <2>1
    <3> QED
      BY <3>1
  <2> HIDE DEF f, g, W
  <2>7. Tells(f \o g, W(i - 1) \cup MessageTexts(messages, i))
    BY <1>5, <2>4, <2>5, TellsBoth DEF f
  <2> QED
    BY <2>2, <2>6, <2>7
<1>6. ASSUME Bad # {} PROVE FALSE
  <2>1. PICK i \in Bad : \A j \in Bad : i <= j
    <3>1. Bad \subseteq 0..n
      OBVIOUS
    <3> HIDE DEF Bad
    <3> QED
      BY <1>1, <1>6, <3>1, Least
  <2>2. i \in 0..n /\ ~Tells(k[i], W(i))
    OBVIOUS
  <2>a. W(0) = {}
    OBVIOUS
  <2>3. i # 0
    BY <1>2, <2>a, <2>2, TellsNothing
  <2>4. i \in 1..n /\ i - 1 \in 0..n
    BY <1>1, <2>2, <2>3
  <2>5. i - 1 \notin Bad
    <3> HIDE DEF Bad
    <3> QED
      BY <2>1, <2>4
  <2> HIDE DEF W
  <2> QED
    BY <1>5, <2>2, <2>4, <2>5
<1>7. Tells(k[n], W(n))
  <2>1. n \in 0..n /\ n \notin Bad
    <3> HIDE DEF Bad
    <3> QED
      BY <1>1, <1>6
  <2> HIDE DEF W
  <2> QED
    BY <2>1
<1> QED
  BY <1>2, <1>3, <1>7 DEF n

Requests ==
    [lines : {<<>>}, system : Contents, messages : Seq(Contents), stream : {FALSE}]

\* The fields of a request are its texts.
LEMMA RequestTells ==
    ASSUME data \in Requests, api \in APIs
    PROVE  Tells(ExtractContent(api, data), Written)
<1> DEFINE system == data.system
           messages == data.messages
           spoken == UNION {MessageTexts(messages, m) : m \in 1..Len(messages)}
<1>1. /\ system \in Contents /\ messages \in Seq(Contents)
      /\ data.lines = <<>> /\ ~data.stream
  BY DEF Requests
<1>2. ~isSSE(data.lines)
  BY <1>1 DEF isSSE
<1>3. Len(messages) \in Nat /\ DOMAIN messages = 1..Len(messages)
  BY <1>1
<1>4. spoken = Shown(UNION {TextsOf(messages[m], <<"messages", m - 1>>) :
                              m \in DOMAIN messages})
  <2> DEFINE all == UNION {TextsOf(messages[m], <<"messages", m - 1>>) :
                             m \in 1..Len(messages)}
  <2> HIDE DEF messages
  <2>1. ASSUME NEW t \in spoken PROVE t \in Shown(all)
    <3>1. PICK m \in 1..Len(messages) : t \in MessageTexts(messages, m)
      OBVIOUS
    <3>2. t \in TextsOf(messages[m], <<"messages", m - 1>>) /\ IsText(t[2])
      BY <3>1 DEF MessageTexts, Shown
    <3> QED
      BY <3>2 DEF Shown
  <2>2. ASSUME NEW t \in Shown(all) PROVE t \in spoken
    <3>1. t \in all /\ IsText(t[2])
      BY DEF Shown
    <3>2. PICK m \in 1..Len(messages) :
              t \in TextsOf(messages[m], <<"messages", m - 1>>)
      BY <3>1
    <3>3. t \in MessageTexts(messages, m)
      BY <3>1, <3>2 DEF MessageTexts, Shown
    <3> QED
      BY <3>3
  <2>3. spoken = Shown(all)
    BY <2>1, <2>2
  <2> QED
    BY <1>3, <2>3
<1>5. CASE api = "openai"
  <2>1. ExtractContent(api, data) = extractMessagesArray(messages, 0)
    BY <1>2, <1>5 DEF ExtractContent, openAIContent
  <2>2. Written = spoken
    BY <1>1, <1>4, <1>5 DEF Written, Shown
  <2> HIDE DEF messages, spoken
  <2>3. Tells(extractMessagesArray(messages, 0), spoken)
    BY <1>1, MessagesTell DEF spoken
  <2> QED
    BY <2>1, <2>2, <2>3
<1>6. CASE api = "anthropic"
  <2> DEFINE first == extractSystem(data)
             rest == extractMessagesArray(messages, Len(first))
             path == <<"system">>
  <2>1. ExtractContent(api, data) = first \o rest
    BY <1>2, <1>6 DEF ExtractContent, anthropicContent
  <2>2. Written = Shown(TextsOf(system, path)) \cup spoken
    BY <1>1, <1>4, <1>6 DEF Written, Shown
  <2>3. path \in Paths /\ Len(path) = 1 /\ path[1] = "system"
    <3> DEFINE Places == {"messages", "system", "choices", "content_block"} \cup Nat
    <3>1. "system" \in Places
      OBVIOUS
    <3> HIDE DEF Places
    <3>2. <<"system">> \in Seq(Places)
      BY <3>1
    <3> QED
      BY <3>2 DEF Places, Paths
  <2>4. first = extractContent(system, path, 0)
    BY DEF extractSystem
  <2> HIDE DEF path, first
  <2>5. /\ Tells(first, Shown(TextsOf(system, path)))
        /\ \A t \in TextsOf(system, path) : Under(t, path)
    BY <1>1, <2>3, <2>4, ContentTells
  <2>6. Len(first) \in Nat
    BY <2>5 DEF Tells
  <2> HIDE DEF messages
  <2>7. /\ Tells(rest, spoken)
        /\ \A m \in 1..Len(messages) : \A t \in MessageTexts(messages, m) :
              t[1][1] = "messages"
    BY <1>1, <2>6, MessagesTell
  <2>8. \A a \in Shown(TextsOf(system, path)), b \in spoken : a[1] # b[1]
    <3>1. ASSUME NEW a \in Shown(TextsOf(system, path)) PROVE a[1][1] = "system"
      BY <2>3, <2>5 DEF Shown, Under
    <3>2. ASSUME NEW b \in spoken PROVE b[1][1] = "messages"
      BY <2>7
    <3> QED
      BY <3>1, <3>2
  <2> HIDE DEF spoken, rest
  <2>9. Tells(first \o rest, Shown(TextsOf(system, path)) \cup spoken)
    BY <2>5, <2>7, <2>8, TellsBoth
  <2> QED
    BY <2>1, <2>2, <2>9
<1>7. CASE api = "unknown"
  <2>1. ExtractContent(api, data) = <<>>
    BY <1>7 DEF ExtractContent
  <2>2. Written = {}
    BY <1>7 DEF Written
  <2> QED
    BY <2>1, <2>2, TellsNothing
<1> QED
  BY <1>5, <1>6, <1>7 DEF APIs

-----------------------------------------------------------------------------
(* What the fields of a stream tell *)

\* Lines of data are told from others.
LEMMA LinesAre ==
    /\ \A line \in Seq(Deltas) : line \in Lines /\ line \notin {Blank, Field}
    /\ Blank \in Lines /\ Field \in Lines
BY ProcessingAssumption DEF Lines

\* Another line of deltas is another chunk.
LEMMA SplitGrows ==
    ASSUME NEW lines \in Seq(Lines), NEW line \in Seq(Deltas)
    PROVE  /\ lines \o <<line, Blank>> \in Seq(Lines)
           /\ splitSSEChunks(lines) \in Seq(Seq(Deltas))
           /\ splitSSEChunks(lines \o <<line, Blank>>)
                 = Append(splitSSEChunks(lines), line)
<1> DEFINE n == Len(lines)
           more == <<line, Blank>>
           longer == lines \o more
<1>1. more \in Seq(Lines) /\ Len(more) = 2 /\ more[1] = line /\ more[2] = Blank
  BY LinesAre
<1>2. n \in Nat
  OBVIOUS
<1> HIDE DEF more
<1>3. /\ longer \in Seq(Lines) /\ Len(longer) = Len(lines) + Len(more)
      /\ \A i \in 1..Len(lines) : longer[i] = lines[i]
      /\ \A i \in 1..Len(more) : longer[Len(lines) + i] = more[i]
  <2>1. lines \in Seq(Lines) /\ more \in Seq(Lines)
    BY <1>1
  <2> QED
    BY <2>1, ConcatProperties
<1>4. PICK k \in [0..n -> Seq(Seq(Deltas))] :
         /\ k[0] = <<>> /\ splitSSEChunks(lines) = k[n]
         /\ \A i \in 1..n : k[i] = LineTaken(lines[i], k[i - 1])
  BY ChunksSteps
<1> HIDE DEF longer
<1>5. PICK l \in [0..Len(longer) -> Seq(Seq(Deltas))] :
         /\ l[0] = <<>> /\ splitSSEChunks(longer) = l[Len(longer)]
         /\ \A i \in 1..Len(longer) : l[i] = LineTaken(longer[i], l[i - 1])
  BY <1>3, ChunksSteps
<1>6. Len(longer) = n + 2
  BY <1>1, <1>3
<1>7. longer[n + 1] = line /\ longer[n + 2] = Blank
  BY <1>1, <1>3
<1>8. \A i \in 1..n : longer[i] = lines[i]
  BY <1>3
<1> HIDE DEF n
<1>9. \A i \in 1..n : i \in 1..(n + 2)
  BY <1>2
<1>10. Alike(n, k, l)
  BY <1>4, <1>5, <1>6, <1>8, <1>9 DEF Alike
<1>11. \A i \in 0..n : k[i] = l[i]
  BY <1>2, <1>10, SameSteps
<1>12. l[n + 1] = LineTaken(line, l[n]) /\ l[n + 2] = LineTaken(Blank, l[n + 1])
  <2>1. n + 1 \in 1..(n + 2) /\ n + 2 \in 1..(n + 2) /\ (n + 1) - 1 = n
            /\ (n + 2) - 1 = n + 1
    BY <1>2
  <2> QED
    BY <1>5, <1>6, <1>7, <2>1
<1>13. l[n] = k[n] /\ k[n] \in Seq(Seq(Deltas))
  BY <1>2, <1>11
<1>14. l[n + 2] = Append(k[n], line)
  BY <1>12, <1>13, LinesAre DEF LineTaken
<1> QED
  BY <1>3, <1>4, <1>5, <1>6, <1>13, <1>14 DEF longer, more

\* Other lines are no chunks.
LEMMA OthersSplit ==
    ASSUME NEW lines \in Seq({Blank, Field})
    PROVE  lines \in Seq(Lines) /\ splitSSEChunks(lines) = <<>>
<1> DEFINE n == Len(lines)
           none == [i \in 0..n |-> <<>>]
<1>1. n \in Nat /\ \A i \in 1..n : lines[i] \in {Blank, Field}
  OBVIOUS
<1>2. lines \in Seq(Lines)
  BY LinesAre
<1>3. PICK k \in [0..n -> Seq(Seq(Deltas))] :
         /\ k[0] = <<>> /\ splitSSEChunks(lines) = k[n]
         /\ \A i \in 1..n : k[i] = LineTaken(lines[i], k[i - 1])
  BY <1>2, ChunksSteps
<1> HIDE DEF n
<1>4. \A i \in 0..n : none[i] = <<>>
  OBVIOUS
<1> HIDE DEF none
<1>5. \A i \in 1..n : k[i] = k[i - 1]
  BY <1>1, <1>3 DEF LineTaken
<1>6. Alike(n, k, none)
  <2>1. \A i \in 1..n : i - 1 \in 0..n /\ i \in 0..n
    BY <1>1
  <2>2. 0 \in 0..n
    BY <1>1
  <2> QED
    BY <1>3, <1>4, <1>5, <2>1, <2>2 DEF Alike
<1>7. \A i \in 0..n : k[i] = none[i]
  BY <1>1, <1>6, SameSteps
<1>8. n \in 0..n
  BY <1>1
<1> QED
  BY <1>2, <1>3, <1>4, <1>7, <1>8

\* Another chunk is accumulated to what there is.
LEMMA GatheredGrows ==
    ASSUME NEW chunks \in Seq(Seq(Deltas)), NEW chunk \in Seq(Deltas), NEW path
    PROVE  /\ Gathered(chunks, path) \in Builders
           /\ Gathered(Append(chunks, chunk), path) =
                accumulate(Gathered(chunks, path), chunk, path)
<1> DEFINE n == Len(chunks)
           longer == Append(chunks, chunk)
<1>1. n \in Nat
  OBVIOUS
<1>2. /\ longer \in Seq(Seq(Deltas)) /\ Len(longer) = n + 1
      /\ (\A i \in 1..n : longer[i] = chunks[i]) /\ longer[n + 1] = chunk
  BY AppendProperties
<1>3. PICK k \in [0..n -> Builders] :
         /\ k[0] = <<>> /\ Gathered(chunks, path) = k[n]
         /\ \A i \in 1..n : k[i] = accumulate(k[i - 1], chunks[i], path)
  BY GatheredSteps
<1> HIDE DEF longer
<1>4. PICK l \in [0..Len(longer) -> Builders] :
         /\ l[0] = <<>> /\ Gathered(longer, path) = l[Len(longer)]
         /\ \A i \in 1..Len(longer) : l[i] = accumulate(l[i - 1], longer[i], path)
  BY <1>2, GatheredSteps
<1> HIDE DEF n
<1>5. \A i \in 1..n : i \in 1..(n + 1)
  BY <1>1
<1>6. Alike(n, k, l)
  BY <1>2, <1>3, <1>4, <1>5 DEF Alike
<1>7. \A i \in 0..n : k[i] = l[i]
  BY <1>1, <1>6, SameSteps
<1>8. n + 1 \in 1..(n + 1) /\ (n + 1) - 1 = n /\ n \in 0..n
  BY <1>1
<1>9. l[n + 1] = accumulate(l[n], chunk, path) /\ l[n] = k[n]
  BY <1>2, <1>4, <1>7, <1>8
<1> QED
  BY <1>2, <1>3, <1>4, <1>8, <1>9 DEF longer

\* What becomes of the builders when texts are written to some of them.
Grown(deltas, texts) ==
    [k \in DOMAIN deltas \cup DOMAIN texts |->
        IF k \notin DOMAIN texts THEN deltas[k]
        ELSE IF k \in DOMAIN deltas THEN deltas[k] \o texts[k] ELSE texts[k]]

\* A chunk of one delta, and what it writes.
OneDelta(k, text) == <<[index |-> k, text |-> text]>>
OneText(k, text) == [i \in {k} |-> text]

\* One delta with an index is written to the text of that index.
LEMMA AccumulateOne ==
    ASSUME NEW deltas \in Builders, NEW k \in Nat, NEW text \in Texts, text # <<>>,
           NEW path
    PROVE  accumulate(deltas, OneDelta(k, text), path) = Grown(deltas, OneText(k, text))
<1> DEFINE delta == [index |-> k, text |-> text]
           chunk == <<delta>>
           texts == [i \in {k} |-> text]
<1>1. delta \in Deltas /\ delta.index = k /\ delta.text = text
  BY DEF Deltas
<1> HIDE DEF delta
<1>2. chunk \in Seq(Deltas) /\ Len(chunk) = 1 /\ chunk[1] = delta
  BY <1>1
<1> HIDE DEF chunk
<1>3. PICK v \in [0..Len(chunk) -> Builders] :
         /\ v[0] = deltas /\ accumulate(deltas, chunk, path) = v[Len(chunk)]
         /\ \A i \in 1..Len(chunk) : v[i] = DeltaTaken(chunk, path, i, v[i - 1])
  BY <1>2, AccumulateSteps
<1>4. v[1] = DeltaTaken(chunk, path, 1, deltas)
  <2>1. 1 \in 1..1 /\ 1 - 1 = 0
    OBVIOUS
  <2> QED
    BY <1>2, <1>3, <2>1
<1>5. k # Absent /\ IsText(text)
  BY ProcessingAssumption DEF IsText
<1>6. IndexOf(chunk, path, 1) = k
  BY <1>1, <1>2, <1>5 DEF IndexOf, choiceIndex, blockIndex
<1>7. v[1] = WriteString(deltas, k, text)
  BY <1>1, <1>2, <1>4, <1>5, <1>6 DEF DeltaTaken
<1>8. DOMAIN texts = {k} /\ texts[k] = text
  OBVIOUS
<1> HIDE DEF texts
<1>9. WriteString(deltas, k, text) = Grown(deltas, texts)
  BY <1>8 DEF WriteString, Grown
<1>10. accumulate(deltas, chunk, path) = Grown(deltas, texts)
  BY <1>2, <1>3, <1>7, <1>9
<1> QED
  BY <1>10, Zenon DEF chunk, delta, texts, OneDelta, OneText

\* The chunk of all choices that have something to add, without index.
AllChoices(n, texts) ==
    [i \in 1..n |-> [index |-> Absent,
                     text |-> IF i - 1 \in DOMAIN texts THEN texts[i - 1] ELSE Absent]]

\* Those of the texts that the first i choices have.
Among(texts, i) == [k \in {k \in DOMAIN texts : k < i} |-> texts[k]]

\* Each choice without index is written to the text of its position.
LEMMA AccumulateAll ==
    ASSUME NEW deltas \in Builders, NEW n \in Nat, NEW A \in SUBSET (0..(n - 1)),
           NEW texts \in [A -> Texts \ {<<>>}]
    PROVE  /\ AllChoices(n, texts) \in Seq(Deltas)
           /\ accumulate(deltas, AllChoices(n, texts), "choices") = Grown(deltas, texts)
<1> DEFINE chunk == AllChoices(n, texts)
           w == [i \in 0..n |-> Grown(deltas, Among(texts, i))]
<1>1. ASSUME NEW k \in A
      PROVE  k \in Nat /\ k < n /\ texts[k] \in Texts /\ texts[k] # <<>>
          /\ IsText(texts[k])
  BY ProcessingAssumption DEF IsText
<1>2. /\ chunk \in Seq(Deltas) /\ Len(chunk) = n
      /\ \A i \in 1..n : /\ chunk[i].index = Absent
                         /\ chunk[i].text = IF i - 1 \in A THEN texts[i - 1] ELSE Absent
  <2> DEFINE delta(i) == [index |-> Absent,
                          text |-> IF i - 1 \in A THEN texts[i - 1] ELSE Absent]
  <2>1. ASSUME NEW i \in 1..n PROVE delta(i) \in Deltas
    BY <1>1 DEF Deltas
  <2>2. chunk = [i \in 1..n |-> delta(i)]
    BY DEF AllChoices
  <2>3. \A i \in 1..n : /\ delta(i).index = Absent
                        /\ delta(i).text = IF i - 1 \in A THEN texts[i - 1] ELSE Absent
    OBVIOUS
  <2> HIDE DEF chunk, delta
  <2>4. chunk \in Seq(Deltas) /\ Len(chunk) = n /\ \A i \in 1..n : chunk[i] = delta(i)
    BY <2>1, <2>2
  <2> QED
    BY <2>3, <2>4
<1> HIDE DEF chunk
<1> DEFINE path == "choices"
<1> HIDE DEF path
<1>3. PICK v \in [0..n -> Builders] :
         /\ v[0] = deltas /\ accumulate(deltas, chunk, path) = v[n]
         /\ \A i \in 1..n : v[i] = DeltaTaken(chunk, path, i, v[i - 1])
  <2>a. chunk \in Seq(Deltas)
    BY <1>2
  <2>1. \E v \in [0..Len(chunk) -> Builders] :
           /\ v[0] = deltas /\ accumulate(deltas, chunk, path) = v[Len(chunk)]
           /\ \A i \in 1..Len(chunk) : v[i] = DeltaTaken(chunk, path, i, v[i - 1])
    BY <2>a, AccumulateSteps
  <2> QED
    BY <1>2, <2>1
<1>4. DOMAIN texts = A
  OBVIOUS
<1>5. \A i \in 0..n : w[i] = Grown(deltas, Among(texts, i))
  OBVIOUS
<1>6. PICK K \in SUBSET Nat : deltas \in [K -> Texts]
  BY DEF Builders
<1>7. DOMAIN deltas = K /\ deltas = [k \in K |-> deltas[k]]
  BY <1>6
<1>8. Grown(deltas, Among(texts, 0)) = deltas
  <2>1. DOMAIN Among(texts, 0) = {}
    BY <1>1, <1>4 DEF Among
  <2>2. Grown(deltas, Among(texts, 0)) = [k \in K |-> deltas[k]]
    BY <1>7, <2>1 DEF Grown
  <2> QED
    BY <1>7, <2>2
<1>9. ASSUME NEW i \in 1..n, v[i - 1] = w[i - 1] PROVE v[i] = w[i]
  <2> DEFINE j == i - 1
             before == Among(texts, j)
             after == Among(texts, i)
             old == Grown(deltas, before)
  <2>1. j \in 0..n /\ j \in Nat /\ i \in 0..n /\ i \in Nat /\ j < i
    BY <1>3
  <2>2. v[i] = DeltaTaken(chunk, path, i, old) /\ w[i] = Grown(deltas, after)
    BY <1>3, <1>5, <1>9, <2>1
  <2>3. IndexOf(chunk, path, i) = j /\ j # Absent
    BY <1>2, <2>1, ProcessingAssumption DEF IndexOf, choiceIndex, path
  <2>4. DOMAIN before = {k \in A : k < j}
            /\ \A k \in DOMAIN before : before[k] = texts[k]
    BY <1>4 DEF Among
  <2>5. DOMAIN after = {k \in A : k < i} /\ \A k \in DOMAIN after : after[k] = texts[k]
    BY <1>4 DEF Among
  <2> HIDE DEF before, after
  <2>6. /\ DOMAIN old = K \cup DOMAIN before
        /\ \A k \in DOMAIN old : old[k] = IF k \notin DOMAIN before THEN deltas[k]
                                          ELSE IF k \in K THEN deltas[k] \o before[k]
                                          ELSE before[k]
    BY <1>7 DEF Grown
  <2>7. Grown(deltas, after) =
          [k \in K \cup DOMAIN after |->
              IF k \notin DOMAIN after THEN deltas[k]
              ELSE IF k \in K THEN deltas[k] \o after[k] ELSE after[k]]
    BY <1>7 DEF Grown
  <2> HIDE DEF old
  <2>8. CASE j \notin A
    <3>1. DOMAIN after = DOMAIN before
      <4>1. \A k \in A : k < i <=> k < j
        <5>1. ASSUME NEW k \in A PROVE k < i <=> k < j
          <6>1. k # j /\ k \in Nat
            BY <1>1, <2>8
          <6> QED
            BY <2>1, <6>1
        <5> QED
          BY <5>1
      <4> QED
        BY <2>4, <2>5, <4>1
    <3>2. after = before
      <4>1. before = [k \in DOMAIN before |-> before[k]]
                /\ after = [k \in DOMAIN after |-> after[k]]
        BY DEF before, after, Among
      <4> QED
        BY <2>4, <2>5, <3>1, <4>1
    <3>3. v[i] = old
      <4>1. chunk[i].text = Absent
        BY <1>2, <2>8
      <4> QED
        BY <2>2, <4>1 DEF DeltaTaken, IsText
    <3> QED
      BY <2>2, <3>2, <3>3 DEF old
  <2>9. CASE j \in A
    <3> DEFINE text == texts[j]
    <3>1. text \in Texts /\ IsText(text) /\ chunk[i].text = text
      BY <1>1, <1>2, <2>9
    <3>2. v[i] = WriteString(old, j, text)
      BY <2>2, <2>3, <3>1 DEF DeltaTaken
    <3>3. DOMAIN after = DOMAIN before \cup {j} /\ j \notin DOMAIN before
      <4>1. \A k \in A : k < i <=> k < j \/ k = j
        <5>1. ASSUME NEW k \in A PROVE k < i <=> k < j \/ k = j
          <6>1. k \in Nat
            BY <1>1
          <6> QED
            BY <2>1, <6>1
        <5> QED
          BY <5>1
      <4>2. ~(j < j)
        BY <2>1
      <4> QED
        BY <2>4, <2>5, <2>9, <4>1, <4>2
    <3>4. /\ after[j] = text
          /\ \A k \in DOMAIN before : after[k] = before[k] /\ k # j
      BY <2>4, <2>5, <3>3
    <3> HIDE DEF text, j
    <3> DEFINE one(k) == IF k # j THEN old[k]
                         ELSE IF k \in DOMAIN old THEN old[k] \o text ELSE text
               other(k) == IF k \notin DOMAIN after THEN deltas[k]
                           ELSE IF k \in K THEN deltas[k] \o after[k] ELSE after[k]
               S == DOMAIN old \cup {j}
    <3>5. WriteString(old, j, text) = [k \in S |-> one(k)]
      BY DEF WriteString
    <3>6. S = K \cup DOMAIN after
      BY <2>6, <3>3
    <3>7. ASSUME NEW k \in S PROVE one(k) = other(k)
      <4>1. CASE k = j
        <5>1. k \in DOMAIN after /\ k \notin DOMAIN before /\ after[k] = text
          BY <3>3, <3>4, <4>1
        <5>2. k \in DOMAIN old <=> k \in K
          BY <2>6, <5>1
        <5>3. k \in K => old[k] = deltas[k]
          BY <2>6, <5>1, <5>2
        <5> QED
          BY <4>1, <5>1, <5>2, <5>3
      <4>2. CASE k # j
        <5>1. k \in DOMAIN old
          BY <4>2
        <5>2. k \in DOMAIN after <=> k \in DOMAIN before
          BY <3>3, <4>2
        <5>3. k \in DOMAIN before => after[k] = before[k]
          BY <3>4
        <5> QED
          BY <2>6, <4>2, <5>1, <5>2, <5>3
      <4> QED
        BY <4>1, <4>2
    <3>8. Grown(deltas, after) = [k \in S |-> other(k)]
      BY <2>7, <3>6
    <3> HIDE DEF one, other, S
    <3>9. [k \in S |-> one(k)] = [k \in S |-> other(k)]
      BY <3>7
    <3> QED
      BY <2>2, <3>2, <3>5, <3>8, <3>9
  <2> QED
    BY <2>8, <2>9
<1>10. v[n] = w[n]
  <2>1. 0 \in 0..n /\ n \in 0..n
    OBVIOUS
  <2>2. v[0] = w[0]
    BY <1>3, <1>5, <1>8, <2>1
  <2> HIDE DEF w
  <2>3. Alike(n, v, w)
    BY <1>9, <2>2 DEF Alike
  <2> QED
    BY <2>1, <2>3, SameSteps
<1>11. Grown(deltas, Among(texts, n)) = Grown(deltas, texts)
  <2>1. \A k \in A : k < n
    BY <1>1
  <2>2. {k \in A : k < n} = A
    BY <2>1
  <2>3. Among(texts, n) = texts
    BY <1>4, <2>2 DEF Among
  <2> QED
    BY <2>3
<1>12. w[n] = Grown(deltas, Among(texts, n))
  BY <1>5
<1> QED
  BY <1>2, <1>3, <1>10, <1>11, <1>12 DEF chunk, path

-----------------------------------------------------------------------------
(* What has been sent of a stream *)

\* How much of each text can have been sent, and what is in the builders then.
Sents ==
    {s \in [DOMAIN Answer -> Nat] : \A k \in DOMAIN Answer : s[k] <= Len(Answer[k])}
SentTexts(s) ==
    [k \in {k \in DOMAIN Answer : s[k] > 0} |-> SubSeq(Answer[k], 1, s[k])]

\* The texts that are streamed, numbered from 0 on.
LEMMA AnswerIs ==
    /\ Cardinality(DOMAIN Answer) \in Nat
    /\ DOMAIN Answer = 0..(Cardinality(DOMAIN Answer) - 1)
    /\ \A k \in DOMAIN Answer : k \in Nat /\ Answer[k] \in Texts
          /\ Len(Answer[k]) \in Nat
<1>1. IsFiniteSet(DOMAIN Answer) /\ DOMAIN Answer = 0..(Cardinality(DOMAIN Answer) - 1)
  BY ProcessingAssumption
<1>2. Cardinality(DOMAIN Answer) \in Nat
  BY <1>1, FS_CardinalityType
<1>3. \A k \in DOMAIN Answer : Answer[k] \in Texts
  BY ProcessingAssumption
<1>4. \A k \in DOMAIN Answer : Len(Answer[k]) \in Nat
  BY <1>3 DEF Texts
<1>5. \A k \in DOMAIN Answer : k \in Nat
  <2> DEFINE c == Cardinality(DOMAIN Answer)
  <2>1. c \in Nat /\ DOMAIN Answer = 0..(c - 1)
    BY <1>1, <1>2
  <2> HIDE DEF c
  <2> QED
    BY <2>1
<1> QED
  BY <1>1, <1>2, <1>3, <1>4, <1>5

\* Pieces of a text.
LEMMA SubTextIs ==
    ASSUME NEW text \in Texts, NEW a \in Nat, NEW b \in Nat, b <= Len(text)
    PROVE  /\ SubSeq(text, a + 1, b) \in Texts
           /\ a < b => SubSeq(text, a + 1, b) # <<>>
           /\ b <= a => SubSeq(text, a + 1, b) = <<>>
           /\ a <= b
                 => SubSeq(text, 1, a) \o SubSeq(text, a + 1, b) = SubSeq(text, 1, b)
<1> DEFINE n == Len(text)
<1>1. text \in Seq(Pieces) /\ n \in Nat /\ \A i \in 1..n : text[i] \in Pieces
  BY DEF Texts
<1>2. b <= n
  OBVIOUS
<1>3. a + 1 \in Int /\ b \in Int /\ \A i \in (a + 1)..b : text[i] \in Pieces
  <2> HIDE DEF n
  <2> QED
    BY <1>1, <1>2
<1>4. /\ SubSeq(text, a + 1, b) \in Seq(Pieces)
      /\ Len(SubSeq(text, a + 1, b)) = IF a + 1 <= b THEN b - (a + 1) + 1 ELSE 0
  BY <1>3, SubSeqProperties
<1>5. ASSUME a < b PROVE SubSeq(text, a + 1, b) # <<>>
  <2>1. Len(SubSeq(text, a + 1, b)) # 0
    BY <1>4, <1>5
  <2> QED
    BY <2>1
<1>6. ASSUME b <= a PROVE SubSeq(text, a + 1, b) = <<>>
  <2>1. b < a + 1
    BY <1>6
  <2> QED
    BY <1>3, <2>1, SubSeqEmpty
<1>7. ASSUME a <= b
      PROVE SubSeq(text, 1, a) \o SubSeq(text, a + 1, b) = SubSeq(text, 1, b)
  <2>1. 1 \in 1..(n + 1) /\ a \in (1 - 1)..n /\ b \in a..n
    <3> HIDE DEF n
    <3> QED
      BY <1>1, <1>2, <1>7
  <2> QED
    BY <1>1, <2>1, ConcatAdjacentSubSeq
<1> QED
  BY <1>4, <1>5, <1>6, <1>7 DEF Texts

\* What has been sent when a line has added to it, and what it adds.
SentThen(s, adds) == [k \in DOMAIN Answer |-> s[k] + adds[k]]
Added(s, adds) ==
    [k \in {k \in DOMAIN Answer : adds[k] > 0} |->
        SubSeq(Answer[k], s[k] + 1, s[k] + adds[k])]

\* The builders keep up with what is sent.
LEMMA SentGrows ==
    ASSUME NEW s \in Sents, NEW adds \in [DOMAIN Answer -> Nat],
           \A k \in DOMAIN Answer : s[k] + adds[k] <= Len(Answer[k]),
           NEW t, t = SentThen(s, adds), NEW texts, texts = Added(s, adds)
    PROVE  /\ t \in Sents /\ DOMAIN texts = {k \in DOMAIN Answer : adds[k] > 0}
           /\ \A k \in DOMAIN texts : texts[k] \in Texts \ {<<>>}
           /\ Grown(SentTexts(s), texts) = SentTexts(t)
<1> DEFINE old == SentTexts(s)
           new == SentTexts(t)
           A == {k \in DOMAIN Answer : adds[k] > 0}
<1>1. ASSUME NEW k \in DOMAIN Answer
      PROVE  /\ Answer[k] \in Texts /\ Len(Answer[k]) \in Nat
             /\ s[k] \in Nat /\ adds[k] \in Nat /\ t[k] = s[k] + adds[k]
             /\ s[k] <= Len(Answer[k]) /\ t[k] <= Len(Answer[k]) /\ t[k] \in Nat
  BY AnswerIs DEF Sents, SentThen
<1>2. t \in Sents
  BY <1>1 DEF Sents, SentThen
<1>3. DOMAIN texts = A /\ \A k \in A : texts[k] = SubSeq(Answer[k], s[k] + 1, t[k])
  BY <1>1 DEF Added
<1>4. ASSUME NEW k \in A PROVE texts[k] \in Texts \ {<<>>}
  <2> DEFINE text == Answer[k]
             a == s[k]
             b == t[k]
  <2>1. text \in Texts /\ a \in Nat /\ b \in Nat /\ b <= Len(text) /\ a < b
    BY <1>1
  <2>2. texts[k] = SubSeq(text, a + 1, b)
    BY <1>3
  <2> HIDE DEF text, a, b
  <2>3. SubSeq(text, a + 1, b) \in Texts /\ SubSeq(text, a + 1, b) # <<>>
    BY <2>1, SubTextIs
  <2> QED
    BY <2>2, <2>3
<1>5. /\ DOMAIN old = {k \in DOMAIN Answer : s[k] > 0}
      /\ \A k \in DOMAIN old : old[k] = SubSeq(Answer[k], 1, s[k])
  BY DEF SentTexts
<1>6. new = [k \in {k \in DOMAIN Answer : t[k] > 0} |-> SubSeq(Answer[k], 1, t[k])]
  BY DEF SentTexts
<1> DEFINE one(k) == IF k \notin DOMAIN texts THEN old[k]
                     ELSE IF k \in DOMAIN old THEN old[k] \o texts[k] ELSE texts[k]
           other(k) == SubSeq(Answer[k], 1, t[k])
           S == {k \in DOMAIN Answer : t[k] > 0}
<1>7. Grown(old, texts) = [k \in DOMAIN old \cup DOMAIN texts |-> one(k)]
  BY DEF Grown
<1> HIDE DEF old, new
<1>8. DOMAIN old \cup DOMAIN texts = S
  <2>1. ASSUME NEW k \in DOMAIN Answer PROVE t[k] > 0 <=> s[k] > 0 \/ adds[k] > 0
    BY <1>1
  <2> QED
    BY <1>3, <1>5, <2>1
<1>9. ASSUME NEW k \in S PROVE one(k) = other(k)
  <2>1. k \in DOMAIN Answer
    OBVIOUS
  <2>2. CASE k \notin A
    <3>1. adds[k] = 0 /\ t[k] = s[k] /\ s[k] > 0
      BY <1>1, <2>1, <2>2
    <3>2. k \in DOMAIN old
      BY <1>5, <2>1, <3>1
    <3> QED
      BY <1>3, <1>5, <2>2, <3>1, <3>2
  <2>3. CASE k \in A /\ s[k] > 0
    <3>1. k \in DOMAIN old /\ one(k) = old[k] \o texts[k]
      BY <1>3, <1>5, <2>1, <2>3
    <3>2. s[k] <= t[k]
      BY <1>1, <2>1
    <3>3. SubSeq(Answer[k], 1, s[k]) \o SubSeq(Answer[k], s[k] + 1, t[k]) = other(k)
      <4> DEFINE text == Answer[k]
                 a == s[k]
                 b == t[k]
      <4>1. text \in Texts /\ a \in Nat /\ b \in Nat /\ b <= Len(text) /\ a <= b
        BY <1>1, <2>1, <3>2
      <4> HIDE DEF text, a, b
      <4>2. SubSeq(text, 1, a) \o SubSeq(text, a + 1, b) = SubSeq(text, 1, b)
        BY <4>1, SubTextIs
      <4> QED
        BY <4>2 DEF text, a, b, other
    <3> HIDE DEF one, other
    <3> QED
      BY <1>3, <1>5, <2>3, <3>1, <3>3
  <2>4. CASE k \in A /\ ~(s[k] > 0)
    <3>1. s[k] = 0 /\ k \notin DOMAIN old
      BY <1>1, <1>5, <2>1, <2>4
    <3>2. texts[k] = SubSeq(Answer[k], s[k] + 1, t[k]) /\ s[k] + 1 = 1
      BY <1>3, <2>4, <3>1
    <3> QED
      BY <1>3, <2>4, <3>1, <3>2
  <2> QED
    BY <2>2, <2>3, <2>4
<1> HIDE DEF one, other, S
<1>10. [k \in S |-> one(k)] = [k \in S |-> other(k)]
  BY <1>9
<1>11. new = [k \in S |-> other(k)]
  BY <1>6 DEF S, other
<1>12. Grown(old, texts) = new
  BY <1>7, <1>8, <1>10, <1>11
<1> QED
  BY <1>2, <1>3, <1>4, <1>12 DEF old, new

\* The builders of what is sent have the type of builders.
LEMMA SentTextsType ==
    ASSUME NEW s \in Sents
    PROVE  SentTexts(s) \in Builders
<1> DEFINE K == {k \in DOMAIN Answer : s[k] > 0}
<1>1. K \in SUBSET Nat
  BY AnswerIs
<1>2. ASSUME NEW k \in K PROVE SubSeq(Answer[k], 1, s[k]) \in Texts
  <2>1. /\ Answer[k] \in Texts /\ s[k] \in Nat /\ s[k] <= Len(Answer[k])
        /\ 0 \in Nat /\ 0 + 1 = 1
    BY AnswerIs DEF Sents
  <2>2. SubSeq(Answer[k], 0 + 1, s[k]) \in Texts
    BY <2>1, SubTextIs
  <2> QED
    BY <2>1, <2>2
<1>3. SentTexts(s) \in [K -> Texts]
  BY <1>2 DEF SentTexts
<1> QED
  BY <1>1, <1>3 DEF Builders

Increasing(s) == \A i, j \in DOMAIN s : i < j => s[i] < s[j]

\* Some numbers can be put into their order.
LEMMA SortedExists ==
    ASSUME NEW n \in Nat, NEW S \in SUBSET (0..n)
    PROVE  \E s \in [1..Cardinality(S) -> S] : Increasing(s)
<1> DEFINE Ordered(T) == \E s \in [1..Cardinality(T) -> T] : Increasing(s)
           Bad == {T \in SUBSET S : ~Ordered(T)}
<1>1. SUFFICES ASSUME Bad # {} PROVE FALSE
  OBVIOUS
<1>2. IsFiniteSet(S)
  <2>1. IsFiniteSet(0..n)
    BY FS_Interval
  <2> QED
    BY <2>1, FS_Subset
<1>3. PICK T \in Bad : \A U \in Bad : U \subseteq T => U = T
  <2> DEFINE R == S
  <2>1. Bad \subseteq SUBSET R /\ IsFiniteSet(R) /\ Bad # {}
    BY <1>1, <1>2
  <2> HIDE DEF Bad, R
  <2> QED
    BY ONLY <2>1, MinimalSubset
<1>4. T \in SUBSET S /\ ~Ordered(T)
  OBVIOUS
<1>5. IsFiniteSet(T) /\ Cardinality(T) \in Nat
  BY <1>2, <1>4, FS_Subset, FS_CardinalityType
<1>6. CASE T = {}
  <2>1. Cardinality(T) = 0
    BY <1>6, FS_EmptySet
  <2>2. [i \in 1..0 |-> i] \in [1..0 -> {}] /\ Increasing([i \in 1..0 |-> i])
    BY DEF Increasing
  <2> QED
    BY <1>4, <1>6, <2>1, <2>2
<1>7. CASE T # {}
  <2>1. PICK m \in T : \A y \in T : m <= y
    BY <1>4, <1>7, Least
  <2> DEFINE U == T \ {m}
             c == Cardinality(T)
  <2>2. U \in SUBSET S /\ U \subseteq T /\ U # T
    BY <1>4
  <2>3. Cardinality(U) = c - 1
    BY <1>5, FS_RemoveElement
  <2>4. Ordered(U)
    <3>1. U \notin Bad
      <4> HIDE DEF Bad, U
      <4> QED
        BY <1>3, <2>2
    <3> HIDE DEF U, Ordered
    <3> QED
      BY <2>2, <3>1
  <2>5. PICK s \in [1..(c - 1) -> U] : Increasing(s)
    BY <2>3, <2>4
  <2> DEFINE r == [i \in 1..c |-> IF i = 1 THEN m ELSE s[i - 1]]
  <2>a. c \in Nat
    BY <1>5
  <2> HIDE DEF c
  <2>b. ASSUME NEW i \in 1..c, i # 1 PROVE i - 1 \in 1..(c - 1)
    BY <2>a, <2>b
  <2>6. r \in [1..c -> T]
    <3>1. ASSUME NEW i \in 1..c PROVE (IF i = 1 THEN m ELSE s[i - 1]) \in T
      BY <2>b, <2>5
    <3> QED
      BY <3>1
  <2>7. ASSUME NEW i \in 1..c, NEW j \in 1..c, i < j PROVE r[i] < r[j]
    <3>1. j # 1 /\ j - 1 \in 1..(c - 1) /\ r[j] = s[j - 1] /\ s[j - 1] \in U
      BY <2>a, <2>b, <2>5, <2>7
    <3>2. CASE i = 1
      <4>1. r[i] = m /\ r[j] \in T /\ r[j] # m
        BY <3>1, <3>2
      <4> HIDE DEF r
      <4>2. m \in 0..n /\ r[j] \in 0..n
        BY <1>4, <4>1
      <4> QED
        BY <2>1, <4>1, <4>2
    <3>3. CASE i # 1
      <4>1. i - 1 \in 1..(c - 1) /\ r[i] = s[i - 1] /\ i - 1 < j - 1
        BY <2>a, <2>b, <2>7, <3>3
      <4>2. DOMAIN s = 1..(c - 1)
        BY <2>5
      <4> HIDE DEF r
      <4> QED
        BY <2>5, <3>1, <4>1, <4>2 DEF Increasing
    <3> QED
      BY <3>2, <3>3
  <2>8. Increasing(r)
    <3>1. DOMAIN r = 1..c
      OBVIOUS
    <3> HIDE DEF r
    <3> QED
      BY <2>7, <3>1 DEF Increasing
  <2> HIDE DEF r
  <2> QED
    BY <1>4, <2>6, <2>8 DEF c
<1> QED
  BY <1>6, <1>7

\* sorted enumerates the numbers, each once.
LEMMA SortedIs ==
    ASSUME NEW n \in Nat, NEW S \in SUBSET (0..n)
    PROVE  /\ Cardinality(S) \in Nat /\ sorted(S) \in [1..Cardinality(S) -> S]
           /\ \A i, j \in 1..Cardinality(S) : sorted(S)[i] = sorted(S)[j] => i = j
           /\ \A k \in S : \E i \in 1..Cardinality(S) : k = sorted(S)[i]
<1> DEFINE c == Cardinality(S)
           s == sorted(S)
<1>1. IsFiniteSet(S) /\ c \in Nat
  <2>1. IsFiniteSet(0..n)
    BY FS_Interval
  <2> QED
    BY <2>1, FS_Subset, FS_CardinalityType
<1>2. s \in [1..c -> S] /\ Increasing(s)
  BY SortedExists DEF sorted, Increasing
<1> HIDE DEF c, s
<1>3. ASSUME NEW i \in 1..c, NEW j \in 1..c, s[i] = s[j] PROVE i = j
  <2>1. i \in DOMAIN s /\ j \in DOMAIN s /\ s[i] \in 0..n /\ s[j] \in 0..n
    BY <1>2
  <2>2. ~(i < j) /\ ~(j < i)
    BY <1>2, <1>3, <2>1 DEF Increasing
  <2> QED
    BY <1>1, <2>2
<1>4. s \in Injection(1..c, S)
  BY <1>2, <1>3 DEF Injection, IsInjective
<1>5. Cardinality(1..c) = c
  BY <1>1, FS_Interval
<1>6. s \in Surjection(1..c, S)
  BY <1>1, <1>4, <1>5, FS_Injection DEF c
<1>7. \A k \in S : \E i \in 1..c : k = s[i]
  BY <1>6 DEF Surjection
<1> QED
  BY <1>1, <1>2, <1>3, <1>7 DEF c, s

\* The place of a streamed text is one.
LEMMA StreamPath ==
    ASSUME NEW path \in {"choices", "content_block"}, NEW k \in Nat
    PROVE  <<path, k>> \in Paths
<1> DEFINE Places == {"messages", "system", "choices", "content_block"} \cup Nat
<1>1. path \in Places
  OBVIOUS
<1>2. k \in Places
  OBVIOUS
<1> HIDE DEF Places
<1>3. <<path, k>> \in Seq(Places)
  BY <1>1, <1>2
<1> QED
  BY <1>3 DEF Paths, Places

Sending(path, s) == {<<<<path, k>>, SubSeq(Answer[k], 1, s[k])>> : k \in DOMAIN Answer}

\* The fields of a stream are its texts, as far as they are sent.
LEMMA ConcatenatedTells ==
    ASSUME NEW lines, NEW path \in {"choices", "content_block"}, NEW s \in Sents,
           deltasOf(lines, path) = SentTexts(s)
    PROVE  Tells(concatenated(lines, path), Shown(Sending(path, s)))
<1> DEFINE deltas == SentTexts(s)
           K == {k \in DOMAIN Answer : s[k] > 0}
           keys == sorted(K)
           c == Cardinality(K)
           field(i) == ContentField(deltas[keys[i]], <<path, keys[i]>>, i - 1)
           fields == [i \in 1..c |-> field(i)]
           text(k) == SubSeq(Answer[k], 1, s[k])
<1>1. DOMAIN deltas = K /\ \A k \in K : deltas[k] = text(k)
  BY DEF SentTexts
<1>2. ASSUME NEW k \in DOMAIN Answer
      PROVE  /\ k \in Nat /\ s[k] \in Nat /\ text(k) \in Texts
             /\ IsText(text(k)) <=> k \in K
  <2> DEFINE whole == Answer[k]
             b == s[k]
  <2>1. whole \in Texts /\ b \in Nat /\ b <= Len(whole) /\ k \in Nat /\ 0 \in Nat
            /\ 0 + 1 = 1
    BY AnswerIs DEF Sents
  <2>2. text(k) = SubSeq(whole, 0 + 1, b)
    BY <2>1
  <2> HIDE DEF whole, b, text
  <2>3. /\ SubSeq(whole, 0 + 1, b) \in Texts
        /\ 0 < b => SubSeq(whole, 0 + 1, b) # <<>>
        /\ b <= 0 => SubSeq(whole, 0 + 1, b) = <<>>
    BY <2>1, SubTextIs
  <2>4. k \in K <=> b > 0
    BY DEF b
  <2> HIDE DEF K
  <2>5. IsText(text(k)) <=> text(k) # <<>>
    BY <2>2, <2>3, ProcessingAssumption DEF IsText
  <2>6. 0 < b \/ b <= 0
    BY <2>1
  <2> QED
    BY <2>1, <2>2, <2>3, <2>4, <2>5, <2>6 DEF b
<1>3. /\ c \in Nat /\ keys \in [1..c -> K]
      /\ \A i, j \in 1..c : keys[i] = keys[j] => i = j
      /\ \A k \in K : \E i \in 1..c : k = keys[i]
  <2> DEFINE n == Cardinality(DOMAIN Answer)
  <2>1. n \in Nat /\ DOMAIN Answer = 0..(n - 1)
    BY AnswerIs
  <2>2. K \subseteq DOMAIN Answer
    OBVIOUS
  <2> HIDE DEF n, K
  <2>3. K \in SUBSET (0..n)
    BY <2>1, <2>2
  <2> QED
    BY <2>1, <2>3, SortedIs
<1>4. concatenated(lines, path) = fields
  <2>1. DOMAIN keys = 1..c
    BY <1>3
  <2> QED
    BY <1>1, <2>1 DEF concatenated
<1> HIDE DEF deltas, keys, c, K, text
<1>5. ASSUME NEW i \in 1..c
      PROVE  /\ keys[i] \in K /\ keys[i] \in DOMAIN Answer
             /\ field(i) \in Fields /\ field(i).path = <<path, keys[i]>>
             /\ field(i).text = text(keys[i])
  <2>1. keys[i] \in K /\ keys[i] \in DOMAIN Answer
    BY <1>3 DEF K
  <2>2. deltas[keys[i]] = text(keys[i]) /\ text(keys[i]) \in Texts /\ keys[i] \in Nat
    BY <1>1, <1>2, <2>1
  <2>3. <<path, keys[i]>> \in Paths /\ i - 1 \in Nat
    BY <1>3, <2>2, StreamPath
  <2>4. field(i) \in Fields
    BY <2>2, <2>3, FieldType
  <2>5. field(i).path = <<path, keys[i]>> /\ field(i).text = deltas[keys[i]]
    BY DEF ContentField
  <2> HIDE DEF field
  <2> QED
    BY <2>1, <2>2, <2>4, <2>5
<1> HIDE DEF field
<1>6. /\ fields \in Seq(Fields) /\ DOMAIN fields = 1..c
      /\ \A i \in 1..c : fields[i] = field(i)
  BY <1>3, <1>5
<1> HIDE DEF fields
<1>7. ASSUME NEW i \in 1..c, NEW j \in 1..c, fields[i].path = fields[j].path
      PROVE  i = j
  <2>1. <<path, keys[i]>> = <<path, keys[j]>>
    BY <1>5, <1>6, <1>7
  <2>2. keys[i] = keys[j]
    BY <2>1
  <2> QED
    BY <1>3, <2>2
<1>8. Shown(Sending(path, s)) = {<<fields[i].path, fields[i].text>> : i \in 1..c}
  <2>1. ASSUME NEW t \in Shown(Sending(path, s))
        PROVE  \E i \in 1..c : t = <<fields[i].path, fields[i].text>>
    <3>1. PICK k \in DOMAIN Answer : t = <<<<path, k>>, text(k)>>
      BY DEF Shown, Sending, text
    <3>2. IsText(text(k))
      BY <3>1 DEF Shown
    <3>3. PICK i \in 1..c : k = keys[i]
      BY <1>2, <1>3, <3>2
    <3> QED
      BY <1>5, <1>6, <3>1, <3>3
  <2>2. ASSUME NEW i \in 1..c
        PROVE  <<fields[i].path, fields[i].text>> \in Shown(Sending(path, s))
    <3> DEFINE k == keys[i]
               t == <<<<path, k>>, text(k)>>
    <3>1. <<fields[i].path, fields[i].text>> = t
      BY <1>5, <1>6
    <3>2. k \in DOMAIN Answer /\ IsText(text(k))
      BY <1>2, <1>5
    <3>3. t \in Sending(path, s) /\ t[2] = text(k)
      BY <3>2 DEF Sending, text
    <3> HIDE DEF t, k
    <3> QED
      BY <3>1, <3>2, <3>3 DEF Shown
  <2> QED
    BY <2>1, <2>2
<1> QED
  BY <1>4, <1>6, <1>7, <1>8 DEF Tells

\* A stream that has no other lines than data is found to be one.
LEMMA NotSSE ==
    ASSUME NEW lines \in Seq(Lines), ~isSSE(lines),
           \A i \in 1..Len(lines) : lines[i] # Field
    PROVE  lines \in Seq({Blank, Field})
<1> DEFINE n == Len(lines)
           Other == {i \in 0..n : i # 0 /\ lines[i] # Blank}
<1>1. n \in Nat /\ DOMAIN lines = 1..n
  OBVIOUS
<1>2. ASSUME Other # {} PROVE FALSE
  <2>1. PICK i \in Other : \A j \in Other : i <= j
    <3>1. Other \subseteq 0..n
      OBVIOUS
    <3> HIDE DEF Other, n
    <3> QED
      BY <1>1, <1>2, <3>1, Least
  <2>2. i \in 1..n /\ lines[i] # Blank /\ lines[i] # Field
    BY <1>1
  <2>3. ASSUME NEW j \in 1..(i - 1) PROVE lines[j] = Blank
    <3> HIDE DEF n
    <3>1. j \in 0..n /\ j # 0 /\ ~(i <= j)
      BY <1>1, <2>2
    <3>2. j \notin Other
      <4> HIDE DEF Other
      <4> QED
        BY <2>1, <3>1
    <3> QED
      BY <3>1, <3>2
  <2> QED
    BY <1>1, <2>2, <2>3 DEF isSSE
<1>3. ASSUME NEW i \in 1..n PROVE lines[i] = Blank
  <2>1. i \in 0..n /\ i # 0
    BY <1>1
  <2> QED
    BY <1>2, <2>1
<1>4. \A i \in 1..Len(lines) : lines[i] \in {Blank, Field}
  BY <1>3
<1> QED
  BY <1>4

\* Without chunks there is no text.
LEMMA NothingGathered ==
    ASSUME NEW lines, splitSSEChunks(lines) = <<>>, NEW path
    PROVE  deltasOf(lines, path) = <<>>
<1> DEFINE none == <<>>
<1>1. none \in Seq(Seq(Deltas)) /\ Len(none) = 0
  OBVIOUS
<1> HIDE DEF none
<1>2. \E k \in [0..Len(none) -> Builders] :
         /\ k[0] = <<>> /\ Gathered(none, path) = k[Len(none)]
         /\ \A i \in 1..Len(none) : k[i] = accumulate(k[i - 1], none[i], path)
  BY <1>1, GatheredSteps
<1>3. Gathered(none, path) = <<>>
  BY <1>1, <1>2
<1>4. deltasOf(lines, path) = Gathered(splitSSEChunks(lines), path)
  BY DEF deltasOf, Gathered
<1> QED
  BY <1>3, <1>4 DEF none

Streams ==
    [lines : Seq(Lines), system : {[kind |-> "none"]}, messages : {<<>>},
     stream : {TRUE}]

PathOf(type) == IF type = "openai" THEN "choices" ELSE "content_block"

\* The fields of a stream are its texts.
LEMMA StreamTells ==
    ASSUME data \in Streams, sent \in Sents, api \in APIs,
           \A i \in 1..Len(data.lines) : data.lines[i] # Field,
           deltasOf(data.lines, PathOf(api)) = SentTexts(sent)
    PROVE  Tells(ExtractContent(api, data), Written)
<1> DEFINE path == PathOf(api)
<1>1. /\ data.lines \in Seq(Lines) /\ data.system.kind = "none"
      /\ data.messages = <<>> /\ data.stream
  <2> DEFINE system == [kind |-> "none"]
             none == <<>>
  <2>1. data \in [lines : Seq(Lines), system : {system}, messages : {none},
                  stream : {TRUE}]
    BY DEF Streams
  <2>2. system.kind = "none"
    OBVIOUS
  <2> DEFINE S == Seq(Lines)
  <2> HIDE DEF system, none, S
  <2>3. data \in [lines : S, system : {system}, messages : {none}, stream : {TRUE}]
    BY <2>1 DEF S
  <2>4. data.lines \in S /\ data.system = system /\ data.messages = none /\ data.stream
    BY <2>3
  <2> QED
    BY <2>2, <2>4 DEF S, none
<1>2. path \in {"choices", "content_block"}
  BY DEF PathOf
<1>3. CASE api = "unknown"
  <2>1. ExtractContent(api, data) = <<>>
    BY <1>3 DEF ExtractContent
  <2>2. Written = {}
    BY <1>3 DEF Written
  <2> QED
    BY <2>1, <2>2, TellsNothing
<1>4. CASE api # "unknown"
  <2>1. Written = Shown(Sending(path, sent))
    BY <1>1, <1>4 DEF Written, Shown, Sending, PathOf
  <2>2. CASE isSSE(data.lines)
    <3>1. ExtractContent(api, data) = concatenated(data.lines, path)
      BY <1>4, <2>2 DEF ExtractContent, openAIContent, anthropicContent, openAISSE,
                        anthropicSSE, PathOf, APIs
    <3> HIDE DEF path
    <3>2. deltasOf(data.lines, path) = SentTexts(sent)
      BY DEF path
    <3>3. Tells(concatenated(data.lines, path), Shown(Sending(path, sent)))
      BY <1>2, <3>2, ConcatenatedTells
    <3> QED
      BY <2>1, <3>1, <3>3
  <2>3. CASE ~isSSE(data.lines)
    <3>1. splitSSEChunks(data.lines) = <<>>
      BY <1>1, <2>3, NotSSE, OthersSplit
    <3>2. SentTexts(sent) = <<>>
      BY <3>1, NothingGathered
    <3>3. \A k \in DOMAIN Answer : ~(sent[k] > 0)
      <4>1. DOMAIN SentTexts(sent) = {}
        BY <3>2
      <4> QED
        BY <4>1 DEF SentTexts
    <3>4. \A k \in DOMAIN Answer : SubSeq(Answer[k], 1, sent[k]) = <<>>
      <4>1. ASSUME NEW k \in DOMAIN Answer PROVE SubSeq(Answer[k], 1, sent[k]) = <<>>
        <5>1. sent[k] \in Nat /\ sent[k] < 1
          BY <3>3 DEF Sents
        <5> QED
          BY <5>1, SubSeqEmpty
      <4> QED
        BY <4>1
    <3>5. Shown(Sending(path, sent)) = {}
      <4> HIDE DEF path
      <4>1. ASSUME NEW t \in Shown(Sending(path, sent)) PROVE FALSE
        <5>1. t \in Sending(path, sent) /\ IsText(t[2])
          BY DEF Shown
        <5>2. PICK k \in DOMAIN Answer :
                  t = <<<<path, k>>, SubSeq(Answer[k], 1, sent[k])>>
          BY <5>1 DEF Sending
        <5>3. t[2] = <<>>
          BY <3>4, <5>2
        <5> QED
          BY <5>1, <5>3 DEF IsText
      <4> QED
        BY <4>1
    <3>6. \A start \in Nat : extractMessagesArray(data.messages, start) = <<>>
      <4> DEFINE none == <<>>
      <4>1. none \in Seq(Contents) /\ Len(none) = 0
        OBVIOUS
      <4> HIDE DEF none
      <4>2. ASSUME NEW start \in Nat PROVE extractMessagesArray(none, start) = <<>>
        <5>1. \E k \in [0..Len(none) -> Seq(Fields)] :
                 /\ k[0] = <<>> /\ extractMessagesArray(none, start) = k[Len(none)]
                 /\ \A i \in 1..Len(none) :
                       k[i] = MessageTaken(none, start, i, k[i - 1])
          BY <4>1, MessagesSteps
        <5> QED
          BY <4>1, <5>1
      <4> QED
        BY <1>1, <4>2 DEF none
    <3>7. extractSystem(data) = <<>>
      BY <1>1 DEF extractSystem, extractContent
    <3>8. Len(extractSystem(data)) \in Nat
      BY <3>7
    <3>9. ExtractContent(api, data) = <<>>
      <4>1. CASE api = "openai"
        BY <2>3, <3>6, <4>1 DEF ExtractContent, openAIContent
      <4>2. CASE api = "anthropic"
        <5>1. ExtractContent(api, data) =
                extractSystem(data)
                  \o extractMessagesArray(data.messages, Len(extractSystem(data)))
          BY <2>3, <4>2 DEF ExtractContent, anthropicContent
        <5>2. ExtractContent(api, data) = <<>> \o <<>>
          BY <3>6, <3>7, <3>8, <5>1
        <5> QED
          BY <5>2
      <4> QED
        BY <1>4, <4>1, <4>2 DEF APIs
    <3> QED
      BY <2>1, <3>5, <3>9, TellsNothing
  <2> QED
    BY <2>2, <2>3
<1> QED
  BY <1>3, <1>4

-----------------------------------------------------------------------------
(* The log of the fields *)

\* What processPayload makes of the fields it finds.
LogOf(fields) ==
    LET redacted == [i \in DOMAIN fields |-> Redact(fields[i].text)]
    IN [payload |-> buildRedactedPayload(fields,
                        [i \in DOMAIN fields |-> redacted[i].text]),
        cats |-> UNION {redacted[i].cats : i \in DOMAIN fields},
        scanned |-> Len(fields)]

\* The log of some texts, each with its place.
LogIs(log, written) ==
    /\ log.payload = [path \in {t[1] : t \in written} |->
                         Clean((CHOOSE t \in written : t[1] = path)[2])]
    /\ log.cats = UNION {CatsIn(t[2]) : t \in written}
    /\ log.scanned = Cardinality(written)

\* The last of the fields of a place, when it has only one.
LEMMA MaxOfOne ==
    ASSUME NEW n \in Nat, NEW i \in 1..n
    PROVE  Max({i}) = i
<1> DEFINE s == {i}
<1>1. s \in SUBSET (1..n) /\ s # {}
  OBVIOUS
<1> HIDE DEF s
<1>2. Max(s) \in s
  BY <1>1, MaxIs
<1> QED
  BY <1>2 DEF s

\* A log of fields that are these texts is a log of these texts.
LEMMA TellsLog ==
    ASSUME NEW fields, NEW written, Tells(fields, written)
    PROVE  LogIs(LogOf(fields), written)
<1> DEFINE n == Len(fields)
           path(i) == fields[i].path
           text(i) == fields[i].text
           entryOf(i) == <<path(i), text(i)>>
<1>1. /\ n \in Nat /\ DOMAIN fields = 1..n
      /\ \A i \in 1..n : text(i) \in Texts
  <2>1. fields \in Seq(Fields)
    BY DEF Tells
  <2>2. n \in Nat /\ DOMAIN fields = 1..n /\ \A i \in 1..n : fields[i] \in Fields
    BY <2>1
  <2>3. \A f \in Fields : f.text \in Texts
    BY DEF Fields
  <2> HIDE DEF n
  <2> QED
    BY <2>2, <2>3
<1>2. \A i, j \in 1..n : path(i) = path(j) => i = j
  BY <1>1 DEF Tells
<1>3. written = {entryOf(i) : i \in 1..n}
  BY <1>1 DEF Tells
<1>4. \A i \in 1..n : /\ Redact(text(i)).text = Clean(text(i))
                      /\ Redact(text(i)).cats = CatsIn(text(i))
  BY <1>1, RedactIsClean
<1>5. /\ LogOf(fields).payload =
           buildRedactedPayload(fields, [i \in 1..n |-> Redact(text(i)).text])
      /\ LogOf(fields).cats = UNION {Redact(text(i)).cats : i \in 1..n}
      /\ LogOf(fields).scanned = n
  <2> DEFINE redacted == [i \in DOMAIN fields |-> Redact(fields[i].text)]
             texts == [i \in DOMAIN fields |-> redacted[i].text]
             cats == UNION {redacted[i].cats : i \in DOMAIN fields}
  <2>1. LogOf(fields) = [payload |-> buildRedactedPayload(fields, texts), cats |-> cats,
                         scanned |-> Len(fields)]
    BY DEF LogOf
  <2>2. texts = [i \in 1..n |-> Redact(text(i)).text]
    BY <1>1
  <2>3. cats = UNION {Redact(text(i)).cats : i \in 1..n}
    BY <1>1
  <2> HIDE DEF texts, cats
  <2>4. /\ LogOf(fields).payload = buildRedactedPayload(fields, texts)
        /\ LogOf(fields).cats = cats /\ LogOf(fields).scanned = n
    BY <2>1
  <2> QED
    BY <2>2, <2>3, <2>4
<1> DEFINE texts == [i \in 1..n |-> Redact(text(i)).text]
           P == {t[1] : t \in written}
           shown(p) == (CHOOSE t \in written : t[1] = p)[2]
<1>6. LogOf(fields).payload = [p \in P |-> Clean(shown(p))]
  <2> DEFINE Q == {path(i) : i \in 1..n}
             last(p) == Max({i \in 1..n : path(i) = p})
  <2>1. buildRedactedPayload(fields, texts) = [p \in Q |-> texts[last(p)]]
    BY <1>1 DEF buildRedactedPayload
  <2>2. P = Q
    <3>1. \A i \in 1..n : entryOf(i)[1] = path(i)
      OBVIOUS
    <3> HIDE DEF entryOf, path
    <3> QED
      BY <1>3, <3>1
  <2>3. ASSUME NEW p \in Q PROVE texts[last(p)] = Clean(shown(p))
    <3>1. PICK i \in 1..n : p = path(i)
      OBVIOUS
    <3>2. {j \in 1..n : path(j) = p} = {i}
      BY <1>2, <3>1
    <3>3. last(p) = i
      BY <1>1, <3>2, MaxOfOne
    <3>4. shown(p) = text(i)
      <4>1. entryOf(i) \in written /\ entryOf(i)[1] = p
        BY <1>3, <3>1
      <4>2. ASSUME NEW t \in written, t[1] = p PROVE t[2] = text(i)
        <5>1. PICK j \in 1..n : t = entryOf(j)
          BY <1>3
        <5>2. t[1] = path(j) /\ t[2] = text(j)
          BY <5>1
        <5> QED
          BY <1>2, <3>1, <4>2, <5>2
      <4> QED
        BY <4>1, <4>2
    <3> HIDE DEF last, shown, text
    <3> QED
      BY <1>4, <3>3, <3>4
  <2> DEFINE one(p) == texts[last(p)]
             other(p) == Clean(shown(p))
  <2>4. \A p \in Q : one(p) = other(p)
    BY <2>3
  <2>5. LogOf(fields).payload = [p \in Q |-> one(p)]
    BY <1>5, <2>1
  <2> HIDE DEF one, other, Q, P
  <2>6. LogOf(fields).payload = [p \in P |-> other(p)]
    BY <2>2, <2>4, <2>5
  <2> QED
    BY <2>6 DEF other
<1>7. LogOf(fields).cats = UNION {CatsIn(t[2]) : t \in written}
  <2>1. {Redact(text(i)).cats : i \in 1..n} = {CatsIn(t[2]) : t \in written}
    <3>1. {Redact(text(i)).cats : i \in 1..n} = {CatsIn(text(i)) : i \in 1..n}
      <4> HIDE DEF text
      <4> QED
        BY <1>4
    <3>2. \A i \in 1..n : entryOf(i)[2] = text(i)
      OBVIOUS
    <3> HIDE DEF entryOf, text
    <3>3. {CatsIn(text(i)) : i \in 1..n} = {CatsIn(t[2]) : t \in written}
      BY <1>3, <3>2
    <3> QED
      BY <3>1, <3>3
  <2> HIDE DEF text
  <2> QED
    BY <1>5, <2>1
<1>8. Cardinality(written) = n
  <2> DEFINE e == [i \in 1..n |-> entryOf(i)]
  <2>1. \A i \in 1..n : entryOf(i)[1] = path(i)
    OBVIOUS
  <2> HIDE DEF entryOf, path
  <2>2. e \in Bijection(1..n, written)
    <3>1. e \in [1..n -> written] /\ \A t \in written : \E i \in 1..n : e[i] = t
      BY <1>3
    <3>2. \A i, j \in 1..n : e[i] = e[j] => i = j
      BY <1>2, <2>1
    <3> DEFINE S == 1..n
    <3> HIDE DEF e, S
    <3>3. /\ e \in [S -> written] /\ \A t \in written : \E i \in S : e[i] = t
          /\ \A i, j \in S : e[i] = e[j] => i = j
      BY <3>1, <3>2 DEF S
    <3>4. e \in Bijection(S, written)
      BY <3>3 DEF Bijection, Injection, Surjection, IsInjective
    <3> QED
      BY <3>4 DEF S
  <2> HIDE DEF e
  <2> QED
    BY <1>1, <2>2, FS_CountingElements DEF ExistsBijection
<1> HIDE DEF n, P, shown
<1> QED
  BY <1>5, <1>6, <1>7, <1>8 DEF LogIs, P, shown

-----------------------------------------------------------------------------
(* A stream under way *)

\* No stream begins with a line that is not data: with one, the whole of it
\* is taken for a request, and nothing in it is found.
OnlyData == \A opening \in Openings : \A i \in DOMAIN opening : opening[i] # Field

NoField(lines) == \A i \in 1..Len(lines) : lines[i] # Field

\* The builders have, of the lines so far, what has been sent.
Streaming ==
    /\ data \in Streams /\ sent \in Sents
    /\ deltasOf(data.lines, PathOf(api)) = SentTexts(sent)
    /\ OnlyData => NoField(data.lines)

ProcessingInv ==
    /\ api \in APIs
    /\ data # None => data \in Requests \/ Streaming
    /\ entry # None => data # None /\ entry = processPayload(api, data)

\* A stream with one more line.
WithLine(d, line) == [d EXCEPT !.lines = @ \o <<line, Blank>>]

\* A stream, whatever its lines are.
LEMMA StreamFields ==
    ASSUME NEW d \in Streams
    PROVE  /\ d.lines \in Seq(Lines) /\ d.stream
           /\ \A lines \in Seq(Lines) :
                 /\ [d EXCEPT !.lines = lines] \in Streams
                 /\ [d EXCEPT !.lines = lines].lines = lines
<1> DEFINE S == Seq(Lines)
           systems == {[kind |-> "none"]}
           none == {<<>>}
<1>1. Streams = [lines : S, system : systems, messages : none, stream : {TRUE}]
  BY DEF Streams
<1> HIDE DEF S, systems, none
<1>2. d.lines \in S /\ d.stream
  BY <1>1
<1>3. ASSUME NEW lines \in S
      PROVE  /\ [d EXCEPT !.lines = lines] \in Streams
             /\ [d EXCEPT !.lines = lines].lines = lines
  BY <1>1
<1> QED
  BY <1>2, <1>3 DEF S

\* One more line of deltas adds what it writes.
LEMMA StreamGrows ==
    ASSUME NEW type, NEW d \in Streams, NEW s \in Sents,
           deltasOf(d.lines, PathOf(type)) = SentTexts(s),
           NEW line \in Seq(Deltas), NEW adds \in [DOMAIN Answer -> Nat],
           \A k \in DOMAIN Answer : s[k] + adds[k] <= Len(Answer[k]),
           accumulate(SentTexts(s), line, PathOf(type))
               = Grown(SentTexts(s), Added(s, adds)),
           NEW e, e = WithLine(d, line), NEW t, t = SentThen(s, adds)
    PROVE  /\ e \in Streams /\ t \in Sents
           /\ deltasOf(e.lines, PathOf(type)) = SentTexts(t)
           /\ NoField(d.lines) => NoField(e.lines)
<1> DEFINE lines == d.lines
           more == <<line, Blank>>
           path == PathOf(type)
           added == Added(s, adds)
<1>1. lines \in Seq(Lines)
  BY StreamFields
<1>2. /\ lines \o more \in Seq(Lines)
      /\ splitSSEChunks(lines) \in Seq(Seq(Deltas))
      /\ splitSSEChunks(lines \o more) = Append(splitSSEChunks(lines), line)
  <2> HIDE DEF lines
  <2> QED
    BY <1>1, SplitGrows
<1>3. e \in Streams /\ e.lines = lines \o more
  <2> DEFINE whole == lines \o more
  <2>1. e = [d EXCEPT !.lines = whole]
    BY DEF WithLine
  <2>2. whole \in Seq(Lines)
    BY <1>2
  <2> HIDE DEF whole
  <2>3. e \in Streams /\ e.lines = whole
    BY <2>1, <2>2, StreamFields
  <2> QED
    BY <2>3 DEF whole
<1>4. t \in Sents /\ Grown(SentTexts(s), added) = SentTexts(t)
  BY SentGrows
<1>5. deltasOf(e.lines, path) = SentTexts(t)
  <2> DEFINE chunks == splitSSEChunks(lines)
  <2>1. /\ deltasOf(lines, path) = Gathered(chunks, path)
        /\ deltasOf(e.lines, path) = Gathered(splitSSEChunks(e.lines), path)
    BY DEF deltasOf, Gathered
  <2>2. chunks \in Seq(Seq(Deltas)) /\ splitSSEChunks(e.lines) = Append(chunks, line)
    BY <1>2, <1>3
  <2> HIDE DEF chunks, path, lines, added
  <2>3. Gathered(Append(chunks, line), path)
            = accumulate(Gathered(chunks, path), line, path)
    BY <2>2, GatheredGrows
  <2>4. Gathered(chunks, path) = SentTexts(s)
    BY <2>1 DEF lines, path
  <2>5. accumulate(SentTexts(s), line, path) = SentTexts(t)
    BY <1>4 DEF path, added
  <2> QED
    BY <2>1, <2>2, <2>3, <2>4, <2>5
<1>6. ASSUME NoField(lines) PROVE NoField(e.lines)
  <2>1. line # Field /\ Blank # Field
    BY LinesAre, ProcessingAssumption
  <2>2. line \in Lines /\ Blank \in Lines
    BY LinesAre
  <2> HIDE DEF lines
  <2>3. more \in Seq(Lines) /\ Len(more) = 2 /\ more[1] = line /\ more[2] = Blank
    BY <2>2
  <2> HIDE DEF more
  <2>4. /\ Len(lines \o more) = Len(lines) + 2 /\ Len(lines) \in Nat
        /\ \A i \in 1..Len(lines) : (lines \o more)[i] = lines[i]
        /\ \A j \in 1..2 : (lines \o more)[Len(lines) + j] = more[j]
    <3>1. lines \in Seq(Lines) /\ more \in Seq(Lines)
      BY <1>1, <2>3
    <3>2. /\ Len(lines \o more) = Len(lines) + Len(more)
          /\ \A i \in 1..Len(lines) : (lines \o more)[i] = lines[i]
          /\ \A j \in 1..Len(more) : (lines \o more)[Len(lines) + j] = more[j]
      BY <3>1, Joined
    <3> QED
      BY <2>3, <3>1, <3>2
  <2>5. ASSUME NEW i \in 1..Len(lines \o more) PROVE (lines \o more)[i] # Field
    <3>1. CASE i \in 1..Len(lines)
      BY <1>6, <2>4, <3>1 DEF NoField
    <3>2. CASE i \notin 1..Len(lines)
      <4> DEFINE j == i - Len(lines)
      <4>1. j \in 1..2 /\ i = Len(lines) + j
        <5> DEFINE n == Len(lines)
        <5>1. n \in Nat /\ i \in 1..(n + 2) /\ i \notin 1..n
          BY <2>4, <3>2
        <5> HIDE DEF n
        <5>2. i - n \in 1..2 /\ i = n + (i - n)
          BY <5>1
        <5> QED
          BY <5>2 DEF n
      <4>2. (lines \o more)[i] = more[j]
        BY <2>4, <4>1
      <4>3. j = 1 \/ j = 2
        BY <4>1
      <4> HIDE DEF j
      <4> QED
        BY <2>1, <2>3, <4>2, <4>3
    <3> QED
      BY <3>1, <3>2
  <2> QED
    BY <1>3, <2>5 DEF NoField
<1> QED
  BY <1>3, <1>4, <1>5, <1>6

\* So does WriteLine.
LEMMA WriteLineKeeps ==
    ASSUME ProcessingInv, NEW line \in Seq(Deltas), NEW adds \in [DOMAIN Answer -> Nat],
           WriteLine(line, adds),
           sent \in Sents =>
               accumulate(SentTexts(sent), line, PathOf(api)) =
                 Grown(SentTexts(sent), Added(sent, adds))
    PROVE  ProcessingInv'
<1>1. /\ data # None /\ entry = None /\ data.stream
      /\ \A k \in DOMAIN Answer : sent[k] + adds[k] <= Len(Answer[k])
      /\ sent' = [k \in DOMAIN Answer |-> sent[k] + adds[k]]
      /\ data' = [data EXCEPT !.lines = @ \o <<line, Blank>>]
      /\ api' = api /\ entry' = entry
  BY DEF WriteLine
<1>2. Streaming
  <2>1. data \notin Requests
    BY <1>1 DEF Requests
  <2> QED
    BY <1>1, <2>1 DEF ProcessingInv
<1>3. /\ data' \in Streams /\ sent' \in Sents
      /\ deltasOf(data'.lines, PathOf(api)) = SentTexts(sent')
      /\ NoField(data.lines) => NoField(data'.lines)
  <2> DEFINE type == api
             d == data
             s == sent
             e == data'
             t == sent'
  <2>1. /\ e = WithLine(d, line) /\ t = SentThen(s, adds)
        /\ \A k \in DOMAIN Answer : s[k] + adds[k] <= Len(Answer[k])
    BY <1>1 DEF WithLine, SentThen
  <2>2. d \in Streams /\ s \in Sents /\ deltasOf(d.lines, PathOf(type)) = SentTexts(s)
    BY <1>2 DEF Streaming
  <2>3. accumulate(SentTexts(s), line, PathOf(type))
            = Grown(SentTexts(s), Added(s, adds))
    BY <2>2
  <2> HIDE DEF type, d, s, e, t
  <2>4. /\ e \in Streams /\ t \in Sents
        /\ deltasOf(e.lines, PathOf(type)) = SentTexts(t)
        /\ NoField(d.lines) => NoField(e.lines)
    BY <2>1, <2>2, <2>3, StreamGrows
  <2> QED
    BY <2>4 DEF type, d, e, t
<1>4. Streaming'
  <2>1. PathOf(api') = PathOf(api)
    BY <1>1
  <2> QED
    BY <1>1, <1>2, <1>3, <2>1 DEF Streaming
<1>5. api' \in APIs
  BY <1>1 DEF ProcessingInv
<1>6. entry' = None
  BY <1>1
<1> QED
  BY <1>4, <1>5, <1>6 DEF ProcessingInv

\* Before its first delta, a stream has sent nothing of any text.
LEMMA OpeningStreams ==
    ASSUME NEW opening \in Openings, NEW type \in APIs,
           NEW d, d = [lines |-> opening, system |-> [kind |-> "none"],
                       messages |-> <<>>, stream |-> TRUE],
           NEW s, s = [k \in DOMAIN Answer |-> 0]
    PROVE  /\ d \in Streams /\ s \in Sents
           /\ deltasOf(d.lines, PathOf(type)) = SentTexts(s)
           /\ OnlyData => NoField(d.lines)
<1>1. opening \in Seq({Blank, Field})
  BY ProcessingAssumption
<1>2. opening \in Seq(Lines) /\ splitSSEChunks(opening) = <<>>
  BY <1>1, OthersSplit
<1>3. d \in Streams /\ d.lines = opening
  <2> DEFINE S == Seq(Lines)
             system == [kind |-> "none"]
             none == <<>>
  <2>1. Streams = [lines : S, system : {system}, messages : {none}, stream : {TRUE}]
    BY DEF Streams
  <2>2. d = [lines |-> opening, system |-> system, messages |-> none, stream |-> TRUE]
    OBVIOUS
  <2>3. opening \in S
    BY <1>2
  <2> HIDE DEF S, system, none
  <2> QED
    BY <2>1, <2>2, <2>3
<1>4. s \in Sents /\ DOMAIN s = DOMAIN Answer
  <2>1. \A k \in DOMAIN Answer : Len(Answer[k]) \in Nat
    BY AnswerIs
  <2> QED
    BY <2>1 DEF Sents
<1>5. SentTexts(s) = <<>>
  <2> DEFINE K == {k \in DOMAIN Answer : s[k] > 0}
  <2>1. K = {}
    OBVIOUS
  <2>2. SentTexts(s) = [k \in K |-> SubSeq(Answer[k], 1, s[k])]
    BY DEF SentTexts
  <2> HIDE DEF K
  <2> QED
    BY <2>1, <2>2
<1>6. deltasOf(opening, PathOf(type)) = <<>>
  BY <1>2, NothingGathered
<1>7. OnlyData => NoField(opening)
  BY <1>1 DEF OnlyData, NoField
<1> QED
  BY <1>3, <1>4, <1>5, <1>6, <1>7

\* A stream that begins.
LEMMA BeginStreamKeeps ==
    ASSUME ProcessingInv, BeginStream
    PROVE  ProcessingInv'
<1>1. PICK type \in APIs, opening \in Openings :
        Begin(type, [lines |-> opening, system |-> [kind |-> "none"],
                     messages |-> <<>>, stream |-> TRUE])
  BY DEF BeginStream
<1> DEFINE d == [lines |-> opening, system |-> [kind |-> "none"],
                 messages |-> <<>>, stream |-> TRUE]
           s == [k \in DOMAIN Answer |-> 0]
<1>2. api' = type /\ data' = d /\ sent' = s /\ entry' = entry
  BY <1>1 DEF Begin
<1>3. entry = None
  BY DEF BeginStream, ProcessingInv
<1>4. /\ d \in Streams /\ s \in Sents
      /\ deltasOf(d.lines, PathOf(type)) = SentTexts(s)
      /\ OnlyData => NoField(d.lines)
  BY OpeningStreams
<1> HIDE DEF d, s
<1>5. PathOf(api') = PathOf(type)
  BY <1>2
<1>6. Streaming'
  BY <1>2, <1>4, <1>5 DEF Streaming
<1> QED
  BY <1>2, <1>3, <1>6 DEF ProcessingInv

\* The next pieces of one text.
LEMMA SendDeltaKeeps ==
    ASSUME ProcessingInv, SendDelta
    PROVE  ProcessingInv'
<1>0. PICK k \in DOMAIN Answer : \E n \in 1..Len(Answer[k]) :
        WriteLine(<<[index |-> k, text |-> Piece(k, n)]>>,
                  [i \in DOMAIN Answer |-> IF i = k THEN n ELSE 0])
  BY DEF SendDelta
<1>1. PICK n \in 1..Len(Answer[k]) :
        WriteLine(<<[index |-> k, text |-> Piece(k, n)]>>,
                  [i \in DOMAIN Answer |-> IF i = k THEN n ELSE 0])
  BY <1>0
<1> DEFINE text == Piece(k, n)
           adds == [i \in DOMAIN Answer |-> IF i = k THEN n ELSE 0]
           line == <<[index |-> k, text |-> text]>>
<1>2. k \in Nat /\ n \in Nat /\ n > 0 /\ Answer[k] \in Texts /\ Len(Answer[k]) \in Nat
  BY AnswerIs
<1>3. adds \in [DOMAIN Answer -> Nat]
  BY <1>2
<1>4. adds[k] = n /\ {i \in DOMAIN Answer : adds[i] > 0} = {k}
  BY <1>2
<1>5. data \in Streams /\ sent \in Sents /\ sent[k] + n <= Len(Answer[k])
  <2>1. data # None /\ data.stream /\ sent[k] + adds[k] <= Len(Answer[k])
    BY <1>1 DEF WriteLine
  <2>2. data \notin Requests
    BY <2>1 DEF Requests
  <2>3. Streaming
    BY <2>1, <2>2 DEF ProcessingInv
  <2> HIDE DEF adds
  <2> QED
    BY <1>4, <2>1, <2>3 DEF Streaming
<1>6. text \in Texts /\ text # <<>>
  <2> DEFINE whole == Answer[k]
             a == sent[k]
             b == sent[k] + n
  <2>1. a \in Nat /\ b \in Nat /\ b <= Len(whole) /\ a < b /\ whole \in Texts
    BY <1>2, <1>5 DEF Sents
  <2>2. text = SubSeq(whole, a + 1, b)
    BY DEF Piece
  <2> HIDE DEF text, whole, a, b
  <2> QED
    BY <2>1, <2>2, SubTextIs
<1>7. line \in Seq(Deltas)
  <2> DEFINE delta == [index |-> k, text |-> text]
  <2>1. delta \in Deltas
    BY <1>2, <1>6 DEF Deltas
  <2>2. line = <<delta>>
    OBVIOUS
  <2> HIDE DEF delta, line
  <2> QED
    BY <2>1, <2>2
<1>8. Added(sent, adds) = [i \in {k} |-> text]
  <2> DEFINE K == {i \in DOMAIN Answer : adds[i] > 0}
             one(i) == SubSeq(Answer[i], sent[i] + 1, sent[i] + adds[i])
  <2>1. Added(sent, adds) = [i \in K |-> one(i)]
    BY DEF Added
  <2>2. one(k) = text
    BY <1>4 DEF Piece
  <2>3. K = {k}
    BY <1>4
  <2> HIDE DEF K, one, adds, text
  <2> QED
    BY <2>1, <2>2, <2>3
<1>9. accumulate(SentTexts(sent), line, PathOf(api)) =
        Grown(SentTexts(sent), Added(sent, adds))
  <2> DEFINE deltas == SentTexts(sent)
             path == PathOf(api)
  <2>1. deltas \in Builders
    BY <1>5, SentTextsType
  <2> HIDE DEF deltas, path, text
  <2>2. accumulate(deltas, OneDelta(k, text), path) = Grown(deltas, OneText(k, text))
    BY <1>2, <1>6, <2>1, AccumulateOne
  <2>3. line = OneDelta(k, text) /\ Added(sent, adds) = OneText(k, text)
    BY <1>8 DEF OneDelta, OneText
  <2> HIDE DEF adds, line
  <2> QED
    BY <2>2, <2>3 DEF deltas, path
<1>10. WriteLine(line, adds)
  BY <1>1
<1> HIDE DEF line, adds, text
<1> QED
  BY <1>3, <1>7, <1>9, <1>10, WriteLineKeeps

\* The next piece of every text that is not complete.
LEMMA SendChoicesKeeps ==
    ASSUME ProcessingInv, SendChoices
    PROVE  ProcessingInv'
<1> DEFINE n == Cardinality(DOMAIN Answer)
           adds == [k \in DOMAIN Answer |-> IF sent[k] < Len(Answer[k]) THEN 1 ELSE 0]
           line == [i \in 1..n |->
                       [index |-> Absent,
                        text |-> IF adds[i - 1] = 1 THEN Piece(i - 1, 1) ELSE Absent]]
           texts == Added(sent, adds)
           A == {k \in DOMAIN Answer : adds[k] > 0}
<1>1. api = "openai" /\ WriteLine(line, adds)
  BY DEF SendChoices
<1>2. /\ n \in Nat /\ DOMAIN Answer = 0..(n - 1)
      /\ \A k \in DOMAIN Answer : k \in Nat /\ Answer[k] \in Texts
            /\ Len(Answer[k]) \in Nat
  BY AnswerIs
<1>3. adds \in [DOMAIN Answer -> Nat]
          /\ \A k \in DOMAIN Answer : adds[k] > 0 <=> adds[k] = 1
  <2>1. adds \in [DOMAIN Answer -> {0, 1}]
    OBVIOUS
  <2> HIDE DEF adds
  <2> QED
    BY <2>1
<1> HIDE DEF n, adds
<1>4. /\ data \in Streams /\ sent \in Sents
      /\ \A k \in DOMAIN Answer : sent[k] + adds[k] <= Len(Answer[k])
  <2>1. /\ data # None /\ data.stream
        /\ \A k \in DOMAIN Answer : sent[k] + adds[k] <= Len(Answer[k])
    BY <1>1 DEF WriteLine
  <2>2. data \notin Requests
    BY <2>1 DEF Requests
  <2>3. Streaming
    BY <2>1, <2>2 DEF ProcessingInv
  <2> QED
    BY <2>1, <2>3 DEF Streaming
<1>5. /\ A \in SUBSET (0..(n - 1)) /\ texts \in [A -> Texts \ {<<>>}]
      /\ DOMAIN texts = A /\ \A k \in A : texts[k] = Piece(k, 1)
  <2>1. ASSUME NEW k \in A
        PROVE  texts[k] = Piece(k, 1) /\ texts[k] \in Texts \ {<<>>}
    <3> DEFINE whole == Answer[k]
               a == sent[k]
               b == sent[k] + 1
    <3>1. adds[k] = 1
      BY <1>3
    <3>2. texts[k] = SubSeq(Answer[k], sent[k] + 1, sent[k] + adds[k])
      BY DEF Added
    <3>3. a \in Nat /\ b \in Nat /\ b <= Len(whole) /\ a < b /\ whole \in Texts
      BY <1>2, <1>4, <3>1 DEF Sents
    <3>4. texts[k] = SubSeq(whole, a + 1, b) /\ Piece(k, 1) = SubSeq(whole, a + 1, b)
      BY <3>1, <3>2 DEF Piece
    <3> HIDE DEF texts, whole, a, b
    <3>5. SubSeq(whole, a + 1, b) \in Texts /\ SubSeq(whole, a + 1, b) # <<>>
      BY <3>3, SubTextIs
    <3> QED
      BY <3>4, <3>5
  <2>2. texts = [k \in A |-> SubSeq(Answer[k], sent[k] + 1, sent[k] + adds[k])]
    BY DEF Added
  <2>3. A \in SUBSET (0..(n - 1))
    BY <1>2
  <2> DEFINE one(k) == SubSeq(Answer[k], sent[k] + 1, sent[k] + adds[k])
  <2>4. texts = [k \in A |-> one(k)]
    BY <2>2
  <2> HIDE DEF texts, A, one
  <2> QED
    BY <2>1, <2>3, <2>4
<1>6. line = AllChoices(n, texts)
  <2> DEFINE one(i) ==
               [index |-> Absent,
                text |-> IF adds[i - 1] = 1 THEN Piece(i - 1, 1) ELSE Absent]
             other(i) ==
               [index |-> Absent,
                text |-> IF i - 1 \in DOMAIN texts THEN texts[i - 1] ELSE Absent]
  <2>1. ASSUME NEW i \in 1..n PROVE one(i) = other(i)
    <3> DEFINE k == i - 1
    <3>1. k \in DOMAIN Answer
      BY <1>2
    <3>2. k \in A <=> adds[k] = 1
      BY <1>3, <3>1
    <3>3. k \in DOMAIN texts <=> k \in A
      BY <1>5
    <3>4. k \in A => texts[k] = Piece(k, 1)
      BY <1>5
    <3> HIDE DEF k, texts, A
    <3>5. (IF adds[k] = 1 THEN Piece(k, 1) ELSE Absent)
            = IF k \in DOMAIN texts THEN texts[k] ELSE Absent
      BY <3>2, <3>3, <3>4
    <3> QED
      BY <3>5 DEF k
  <2>2. /\ line = [i \in 1..n |-> one(i)]
        /\ AllChoices(n, texts) = [i \in 1..n |-> other(i)]
    BY DEF AllChoices
  <2> HIDE DEF one, other, line, texts
  <2> QED
    BY <2>1, <2>2
<1>7. /\ line \in Seq(Deltas)
      /\ accumulate(SentTexts(sent), line, "choices") = Grown(SentTexts(sent), texts)
  <2> DEFINE deltas == SentTexts(sent)
  <2>1. deltas \in Builders
    BY <1>4, SentTextsType
  <2> HIDE DEF deltas, line, texts, A
  <2>2. /\ AllChoices(n, texts) \in Seq(Deltas)
        /\ accumulate(deltas, AllChoices(n, texts), "choices") = Grown(deltas, texts)
    BY <1>2, <1>5, <2>1, AccumulateAll
  <2> QED
    BY <1>6, <2>2 DEF deltas
<1>8. PathOf(api) = "choices"
  BY <1>1 DEF PathOf
<1> HIDE DEF line
<1> QED
  BY <1>1, <1>3, <1>7, <1>8, WriteLineKeeps

\* Initially nothing is under way.
LEMMA ProcessingStarts ==
    ASSUME ProcessingInit
    PROVE  ProcessingInv
BY DEF ProcessingInit, ProcessingInv, APIs

\* Each step preserves the invariant.
LEMMA ProcessingGoesOn ==
    ASSUME ProcessingInv, [ProcessingStep]_processingVars
    PROVE  ProcessingInv'
<1>1. CASE SendRequest
  <2>1. PICK type \in APIs, body \in RequestBodies : Begin(type, body)
    BY <1>1 DEF SendRequest
  <2>2. api' = type /\ data' = body /\ entry' = entry
    BY <2>1 DEF Begin
  <2>3. entry = None
    BY <1>1 DEF SendRequest, ProcessingInv
  <2>4. body \in Requests
    BY ProcessingAssumption DEF Requests
  <2> QED
    BY <2>2, <2>3, <2>4 DEF ProcessingInv
<1>2. CASE BeginStream
  BY <1>2, BeginStreamKeeps
<1>3. CASE SendDelta
  BY <1>3, SendDeltaKeeps
<1>4. CASE SendChoices
  BY <1>4, SendChoicesKeeps
<1>5. CASE Process
  <2>1. /\ data # None /\ entry' = processPayload(api, data)
        /\ api' = api /\ data' = data /\ sent' = sent
    BY <1>5 DEF Process
  <2>2. Streaming => Streaming'
    BY <2>1 DEF Streaming
  <2>3. entry' = processPayload(api', data')
    BY <2>1
  <2> QED
    BY <2>1, <2>2, <2>3 DEF ProcessingInv
<1>6. CASE NextPayload
  BY <1>6 DEF NextPayload, ProcessingInv, APIs
<1>7. CASE UNCHANGED processingVars
  <2>1. api' = api /\ data' = data /\ sent' = sent /\ entry' = entry
    BY <1>7 DEF processingVars
  <2>2. Streaming => Streaming'
    BY <2>1 DEF Streaming
  <2>3. processPayload(api', data') = processPayload(api, data)
    BY <2>1
  <2> QED
    BY <2>1, <2>2, <2>3 DEF ProcessingInv
<1> QED
  BY <1>1, <1>2, <1>3, <1>4, <1>5, <1>6, <1>7 DEF ProcessingStep

-----------------------------------------------------------------------------
(* The theorems about the logs *)

\* So the builders keep up with the stream at every step.
THEOREM BuildersKeepUp == ProcessingSpec => []ProcessingInv
<1>1. ProcessingInit => ProcessingInv
  BY ProcessingStarts
<1>2. ProcessingInv /\ [ProcessingStep]_processingVars => ProcessingInv'
  BY ProcessingGoesOn
<1> QED
  BY <1>1, <1>2, PTL DEF ProcessingSpec

\* The log of a request or a stream is the one of its texts.
LEMMA LogsTell ==
    ASSUME OnlyData, ProcessingInv
    PROVE  LogsTellPayloads
<1> SUFFICES ASSUME entry # None PROVE LogIs(entry, Written)
  BY DEF LogsTellPayloads, LogIs
<1>1. api \in APIs /\ data # None /\ entry = LogOf(ExtractContent(api, data))
  BY DEF ProcessingInv, processPayload, LogOf
<1>2. Tells(ExtractContent(api, data), Written)
  <2>1. CASE data \in Requests
    BY <1>1, <2>1, RequestTells
  <2>2. CASE Streaming
    BY <1>1, <2>2, StreamTells DEF Streaming, NoField
  <2> QED
    BY <1>1, <2>1, <2>2 DEF ProcessingInv
<1> QED
  BY <1>1, <1>2, TellsLog

\* The log of a payload holds its texts, redacted, each under its place, and
\* nothing else, however they were cut into deltas: for all texts, openings of
\* blank lines, requests, and card numbers of all lengths.
THEOREM LogsAreComplete ==
    ASSUME OnlyData
    PROVE  ProcessingSpec => []LogsTellPayloads
<1>1. ProcessingInv => LogsTellPayloads
  BY LogsTell
<1> QED
  BY <1>1, BuildersKeepUp, PTL

\* Whatever is written is a text.
LEMMA WrittenTexts ==
    ASSUME ProcessingInv, data # None, NEW t \in Written
    PROVE  t[2] \in Texts
<1>1. CASE data \in Requests
  <2>1. Tells(ExtractContent(api, data), Written)
    BY <1>1, RequestTells DEF ProcessingInv
  <2> DEFINE fields == ExtractContent(api, data)
  <2> HIDE DEF fields
  <2>2. PICK i \in DOMAIN fields : t = <<fields[i].path, fields[i].text>>
    BY <2>1 DEF Tells, fields
  <2>3. fields[i] \in Fields
    <3>1. fields \in Seq(Fields)
      BY <2>1 DEF Tells, fields
    <3> QED
      BY <3>1
  <2> QED
    BY <2>2, <2>3 DEF Fields
<1>2. CASE Streaming
  <2>1. data.stream /\ sent \in Sents
    BY <1>2, StreamFields DEF Streaming
  <2>2. PICK k \in DOMAIN Answer : t[2] = SubSeq(Answer[k], 1, sent[k])
    BY <2>1 DEF Written
  <2> DEFINE whole == Answer[k]
             a == 0
             b == sent[k]
  <2>3. a \in Nat /\ b \in Nat /\ b <= Len(whole) /\ whole \in Texts /\ a + 1 = 1
    BY <2>1, AnswerIs DEF Sents
  <2>4. t[2] = SubSeq(whole, a + 1, b)
    BY <2>2, <2>3
  <2> HIDE DEF whole, a, b
  <2> QED
    BY <2>3, <2>4, SubTextIs
<1> QED
  BY <1>1, <1>2 DEF ProcessingInv

\* The candidates of a text are candidates of the validators.
LEMMA Exact ==
    ASSUME ProcessingInv
    PROVE  ValidatorsExact
<1> SUFFICES ASSUME entry # None, NEW t \in Written, NEW i \in DOMAIN t[2],
                    t[2][i][1] = 1, NEW c, c = t[2][i][2]
             PROVE  /\ Len(c.digits) \in MinDigits..MaxDigits => LuhnDetects(c.digits)
                    /\ validateIPv4(c.parts) <=> c.parts \in Seq(Octets) /\ Len(c.parts) = 4
  BY DEF ValidatorsExact
<1>1. t[2] \in Texts
  BY WrittenTexts DEF ProcessingInv
<1>2. c \in Candidates
  <2>1. t[2][i] \in Pieces
    BY <1>1 DEF Texts
  <2> DEFINE p == t[2][i]
  <2>2. p \in Pieces /\ p[1] = 1
    BY <2>1
  <2> HIDE DEF p
  <2>3. p[2] \in Candidates
    BY <2>2 DEF Pieces
  <2> QED
    BY <2>3 DEF p
<1>3. c.digits \in Seq(Digits) /\ c.parts \in Seq(Seq(Digits))
  BY <1>2 DEF Candidates
<1> QED
  BY <1>3, LuhnKeepsPromise, IPv4IsExact

\* What the validators say of the candidates in a payload is exact.
THEOREM ValidatorsAreExact == ProcessingSpec => []ValidatorsExact
<1>1. ProcessingInv => ValidatorsExact
  BY Exact
<1> QED
  BY <1>1, BuildersKeepUp, PTL
=============================================================================
