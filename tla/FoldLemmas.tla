----------------------------- MODULE FoldLemmas -----------------------------
(***************************************************************************)
(* Lemmas about the sums and the sequences that the modules build with the *)
(* folds of the community modules, for every function, set and sequence.   *)
(*                                                                         *)
(* Each is by induction, in the form that a non-empty set of subsets of a  *)
(* finite set has a minimal member: the counterexamples to what is to be   *)
(* shown would have one.                                                   *)
(***************************************************************************)
EXTENDS Integers, FiniteSets, Sequences, Functions, SequencesExt,
        FiniteSetTheorems, SequenceTheorems, TLAPS

-----------------------------------------------------------------------------
(* Induction *)

\* Among the subsets of a finite set there is always a minimal one.
LEMMA MinimalSubset ==
    ASSUME NEW S, IsFiniteSet(S), NEW T, T \subseteq SUBSET S, T # {}
    PROVE  \E x \in T : \A y \in T : y \subseteq x => y = x
<1>1. T \subseteq FiniteSubsetsOf(S)
  BY FS_Subset DEF FiniteSubsetsOf
<1>2. IsWellFoundedOn(StrictSubsetOrdering(S), FiniteSubsetsOf(S))
  BY FS_StrictSubsetOrderingWellFounded
<1>3. \E x \in T : \A y \in T : ~ (<<y, x>> \in StrictSubsetOrdering(S))
  BY <1>1, <1>2, WFMin
<1> QED
  BY <1>3 DEF StrictSubsetOrdering

\* Among some numbers up to n there is a least one.
LEMMA Least ==
    ASSUME NEW n \in Nat, NEW R, R \subseteq 0..n, R # {}
    PROVE  \E i \in R : \A j \in R : i <= j
<1> DEFINE S == 0..n
           T == {0..i : i \in R}
<1>1. IsFiniteSet(S)
  BY FS_Interval
<1>a. T \subseteq SUBSET S /\ T # {}
  <2>1. \A i \in R : 0..i \subseteq S
    OBVIOUS
  <2> QED
    BY <2>1
<1>2. PICK x \in T : \A y \in T : y \subseteq x => y = x
  <2> HIDE DEF S, T
  <2> QED
    BY <1>1, <1>a, MinimalSubset
<1>3. PICK i \in R : x = 0..i
  OBVIOUS
<1>4. ASSUME NEW j \in R PROVE i <= j
  <2>1. SUFFICES ASSUME j < i PROVE FALSE
    OBVIOUS
  <2>2. 0..j \in T /\ 0..j \subseteq 0..i /\ i \notin 0..j /\ i \in 0..i
    BY <2>1
  <2> QED
    BY <1>2, <1>3, <2>2
<1> QED
  BY <1>3, <1>4

-----------------------------------------------------------------------------
(* Folds over a sequence *)

\* The greatest of some numbers up to n.
LEMMA MaxIs ==
    ASSUME NEW n \in Nat, NEW s \in SUBSET (1..n), s # {}
    PROVE  Max(s) \in s /\ \A y \in s : Max(s) >= y
<1> DEFINE R == {n - y : y \in s}
<1>1. R \subseteq 0..n /\ R # {}
  <2>1. \A y \in s : n - y \in 0..n
    OBVIOUS
  <2> QED
    BY <2>1
<1>2. PICK r \in R : \A j \in R : r <= j
  <2> HIDE DEF R
  <2> QED
    BY <1>1, Least
<1>3. PICK x \in s : r = n - x
  OBVIOUS
<1>4. ASSUME NEW y \in s PROVE x >= y
  <2>1. n - x <= n - y
    BY <1>2, <1>3
  <2>2. x \in Int /\ y \in Int
    OBVIOUS
  <2> QED
    BY <2>1, <2>2
<1>5. \E z \in s : \A y \in s : z >= y
  BY <1>4
<1> QED
  BY <1>5 DEF Max

\* The sets that a fold from left to right goes through.
LEMMA Prefix ==
    ASSUME NEW n \in Nat, NEW i \in 1..n
    PROVE  /\ 1..i \in SUBSET (1..n) /\ 1..i # {}
           /\ Max(1..i) = i /\ (1..i) \ {i} = 1..(i - 1)
<1>1. 1..i \in SUBSET (1..n) /\ 1..i # {} /\ i \in 1..i
  OBVIOUS
<1>2. Max(1..i) \in 1..i /\ Max(1..i) >= i
  BY <1>1, MaxIs
<1> QED
  BY <1>1, <1>2

\* g is a fold over 1..n, where the step F is a function on indices and values.
IsFold(F, base, n, g) ==
    \A s \in SUBSET (1..n) :
        g[s] = IF s = {} THEN base ELSE F[<<Max(s), g[s \ {Max(s)}]>>]

\* What every fold needs for being defined.
LEMMA FoldExists ==
    ASSUME NEW n \in Nat, NEW V, NEW base \in V, NEW F \in [(1..n) \X V -> V]
    PROVE  \E g \in [SUBSET (1..n) -> V] : IsFold(F, base, n, g)
<1> USE DEF IsFold
<1> DEFINE Folds(g, i) == IsFold(F, base, i, g)
           Bad == {i \in 0..n : ~ \E g \in [SUBSET (1..i) -> V] : Folds(g, i)}
<1>1. SUFFICES ASSUME Bad # {} PROVE FALSE
  <2>1. n \in 0..n
    OBVIOUS
  <2> QED
    BY <2>1
<1>2. PICK i \in Bad : \A j \in Bad : i <= j
  <2>1. Bad \subseteq 0..n
    OBVIOUS
  <2> HIDE DEF Bad
  <2> QED
    BY <1>1, <2>1, Least
<1>3. i \in 0..n /\ ~ \E g \in [SUBSET (1..i) -> V] : Folds(g, i)
  OBVIOUS
<1>4. CASE i = 0
  <2> DEFINE g == [s \in SUBSET (1..i) |-> base]
  <2>1. \A s \in SUBSET (1..i) : s = {}
    BY <1>4
  <2>2. g \in [SUBSET (1..i) -> V] /\ Folds(g, i)
    BY <2>1
  <2> QED
    BY <1>3, <2>2
<1>5. CASE i # 0
  <2>1. i \in 1..n /\ i - 1 \in 0..n
    BY <1>3, <1>5
  <2>2. i - 1 \notin Bad
    <3> HIDE DEF Bad
    <3> QED
      BY <1>2, <2>1
  <2>3. PICK g \in [SUBSET (1..(i - 1)) -> V] : Folds(g, i - 1)
    BY <2>1, <2>2
  <2> DEFINE h == [s \in SUBSET (1..i) |->
                     IF i \in s THEN F[<<i, g[s \ {i}]>>] ELSE g[s]]
  <2>4. ASSUME NEW s \in SUBSET (1..i)
        PROVE  /\ h[s] \in V
               /\ h[s] = IF s = {} THEN base ELSE F[<<Max(s), h[s \ {Max(s)}]>>]
    <3>0. i \in Nat /\ i - 1 \in Nat
      BY <2>1
    <3>1. CASE i \in s
      <4>1. Max(s) \in 1..i /\ Max(s) >= i
        BY <3>0, <3>1, MaxIs
      <4>2. Max(s) = i
        BY <2>1, <4>1
      <4> DEFINE r == s \ {i}
      <4>3. r \in SUBSET (1..(i - 1)) /\ r \in SUBSET (1..i) /\ i \notin r
        BY <2>1
      <4>4. h[r] = g[r] /\ g[r] \in V
        BY <4>3
      <4>5. h[s] = F[<<i, g[r]>>]
        BY <3>1
      <4> HIDE DEF h, r
      <4> QED
        BY <2>1, <3>1, <4>2, <4>4, <4>5 DEF r
    <3>2. CASE i \notin s
      <4>1. s \in SUBSET (1..(i - 1))
        BY <2>1, <3>2
      <4>2. h[s] = g[s] /\ g[s] \in V
        BY <3>2, <4>1
      <4>3. g[s] = IF s = {} THEN base ELSE F[<<Max(s), g[s \ {Max(s)}]>>]
        BY <2>3, <4>1
      <4>4. h[s \ {Max(s)}] = g[s \ {Max(s)}]
        BY <3>2, <4>1
      <4> HIDE DEF h
      <4> QED
        BY <4>2, <4>3, <4>4
    <3> QED
      BY <3>1, <3>2
  <2>5. h \in [SUBSET (1..i) -> V] /\ Folds(h, i)
    <3>1. h \in [SUBSET (1..i) -> V]
      BY <2>4
    <3> HIDE DEF h
    <3> QED
      BY <2>4, <3>1
  <2> QED
    BY <1>3, <2>5
<1> QED
  BY <1>4, <1>5

\* A fold that is defined by the same recursion has the same values.
SameFold(h, g, n) ==
    \A s \in SUBSET (1..n) :
        s = {} \/ h[s \ {Max(s)}] = g[s \ {Max(s)}] => h[s] = g[s]

\* k is the values that the fold g goes through, the last one its result.
Through(F, base, n, g, k) ==
    /\ IsFold(F, base, n, g)
    /\ k[0] = base
    /\ \A i \in 1..n : k[i] = F[<<i, k[i - 1]>>]
    /\ \A h : SameFold(h, g, n) => h[1..n] = k[n]

\* A fold is the last of as many values as there are steps, each from the one
\* before.
LEMMA FoldSteps ==
    ASSUME NEW n \in Nat, NEW V, NEW base \in V, NEW F \in [(1..n) \X V -> V]
    PROVE  \E g \in [SUBSET (1..n) -> V] : \E k \in [0..n -> V] :
              Through(F, base, n, g, k)
<1>1. PICK g \in [SUBSET (1..n) -> V] : IsFold(F, base, n, g)
  BY FoldExists
<1> DEFINE k == [i \in 0..n |-> g[1..i]]
<1>2. \A i \in 0..n : 1..i \in SUBSET (1..n)
  OBVIOUS
<1>3. k \in [0..n -> V]
  BY <1>2
<1>4. k[0] = base
  <2>1. 1..0 = {} /\ 0 \in 0..n
    OBVIOUS
  <2> QED
    BY <1>1, <2>1 DEF IsFold
<1>5. ASSUME NEW i \in 1..n PROVE k[i] = F[<<i, k[i - 1]>>]
  <2>1. /\ 1..i \in SUBSET (1..n) /\ 1..i # {}
        /\ Max(1..i) = i /\ (1..i) \ {i} = 1..(i - 1)
    BY Prefix
  <2>2. g[1..i] = F[<<i, g[1..(i - 1)]>>]
    BY <1>1, <2>1 DEF IsFold
  <2>3. k[i] = g[1..i] /\ k[i - 1] = g[1..(i - 1)]
    OBVIOUS
  <2> HIDE DEF k
  <2> QED
    BY <2>2, <2>3
<1>6. ASSUME NEW h, SameFold(h, g, n) PROVE h[1..n] = g[1..n]
  <2> DEFINE S == 1..n
             Bad == {s \in SUBSET S : h[s] # g[s]}
  <2>1. SUFFICES ASSUME Bad # {} PROVE FALSE
    BY <1>2
  <2>2. Bad \subseteq SUBSET S
    OBVIOUS
  <2>a. IsFiniteSet(S)
    BY FS_Interval
  <2>3. PICK s \in Bad : \A r \in Bad : r \subseteq s => r = s
    <3> HIDE DEF Bad, S
    <3> QED
      BY <2>1, <2>2, <2>a, MinimalSubset
  <2>4. s \in SUBSET (1..n) /\ h[s] # g[s]
    OBVIOUS
  <2>5. s # {} /\ h[s \ {Max(s)}] # g[s \ {Max(s)}]
    BY <1>6, <2>4 DEF SameFold
  <2>6. Max(s) \in s
    BY <2>4, <2>5, MaxIs
  <2>7. s \ {Max(s)} \in Bad
    BY <2>4, <2>5
  <2> HIDE DEF Bad
  <2> QED
    BY <2>3, <2>6, <2>7
<1>7. k[n] = g[1..n]
  OBVIOUS
<1> HIDE DEF k
<1> QED
  BY <1>1, <1>3, <1>4, <1>5, <1>6, <1>7 DEF Through

\* Values that begin and go on alike are the same.
Alike(n, k, l) ==
    k[0] = l[0] /\ \A i \in 1..n : k[i - 1] = l[i - 1] => k[i] = l[i]

LEMMA SameSteps ==
    ASSUME NEW n \in Nat, NEW k, NEW l, Alike(n, k, l)
    PROVE  \A i \in 0..n : k[i] = l[i]
<1> USE DEF Alike
<1> DEFINE Bad == {i \in 0..n : k[i] # l[i]}
<1>1. SUFFICES ASSUME Bad # {} PROVE FALSE
  OBVIOUS
<1>2. PICK i \in Bad : \A j \in Bad : i <= j
  <2>1. Bad \subseteq 0..n
    OBVIOUS
  <2> HIDE DEF Bad
  <2> QED
    BY <1>1, <2>1, Least
<1>3. i \in 0..n /\ k[i] # l[i]
  OBVIOUS
<1>4. i \in 1..n
  BY <1>3
<1>5. i - 1 \in 0..n /\ i - 1 \notin Bad
  <2> HIDE DEF Bad
  <2> QED
    BY <1>2, <1>4
<1> QED
  BY <1>3, <1>4, <1>5

-----------------------------------------------------------------------------
(* Sums *)

\* The recursion of a sum of f, where c says which element is next.
SumStep(f, c, g, S) ==
    [s \in SUBSET S |-> IF s = {} THEN 0 ELSE f[c[s]] + g[s \ {c[s]}]]
IsSum(f, c, g, S) == g = SumStep(f, c, g, S)
Choice(c, S) == \A s \in SUBSET S : s # {} => c[s] \in s

\* A sum is what its recursion says.
LEMMA SumIs ==
    ASSUME NEW S, NEW f, NEW c, NEW g, IsSum(f, c, g, S), NEW s \in SUBSET S
    PROVE  g[s] = IF s = {} THEN 0 ELSE f[c[s]] + g[s \ {c[s]}]
BY DEF IsSum, SumStep

\* The recursion determines the sum.
LEMMA SumUnique ==
    ASSUME NEW S, IsFiniteSet(S), NEW f, NEW c, Choice(c, S),
           NEW g, IsSum(f, c, g, S),
           NEW R, NEW h, IsSum(f, c, h, R),
           NEW t \in SUBSET S, t \subseteq R
    PROVE  g[t] = h[t]
<1> DEFINE Bad == {s \in SUBSET S : s \subseteq R /\ g[s] # h[s]}
<1>1. SUFFICES ASSUME Bad # {} PROVE FALSE
  OBVIOUS
<1>0. Bad \subseteq SUBSET S
  OBVIOUS
<1>2. PICK s \in Bad : \A y \in Bad : y \subseteq s => y = s
  <2> HIDE DEF Bad
  <2> QED
    BY <1>0, <1>1, MinimalSubset
<1>a. s \in SUBSET S /\ s \in SUBSET R
  OBVIOUS
<1>b. g[s] = IF s = {} THEN 0 ELSE f[c[s]] + g[s \ {c[s]}]
  <2> HIDE DEF Bad
  <2> QED
    BY <1>a, SumIs
<1>c. h[s] = IF s = {} THEN 0 ELSE f[c[s]] + h[s \ {c[s]}]
  <2> HIDE DEF Bad
  <2> QED
    BY <1>a, SumIs
<1>4. s # {} /\ g[s \ {c[s]}] # h[s \ {c[s]}]
  BY <1>b, <1>c
<1>5. c[s] \in s
  BY <1>4 DEF Choice
<1>6. s \ {c[s]} \in Bad
  BY <1>4
<1> QED
  BY <1>2, <1>5, <1>6

\* Something satisfies the recursion.
LEMMA SumExists ==
    ASSUME NEW S, IsFiniteSet(S), NEW f, NEW c, Choice(c, S)
    PROVE  \E g : IsSum(f, c, g, S)
<1> DEFINE Bad == {s \in SUBSET S : ~ \E g : IsSum(f, c, g, s)}
<1>1. SUFFICES ASSUME Bad # {} PROVE FALSE
  OBVIOUS
<1>0. Bad \subseteq SUBSET S
  OBVIOUS
<1>2. PICK s \in Bad : \A y \in Bad : y \subseteq s => y = s
  <2> HIDE DEF Bad
  <2> QED
    BY <1>0, <1>1, MinimalSubset
<1> DEFINE h(u) == CHOOSE g : IsSum(f, c, g, u)
           G == [u \in SUBSET s |->
                   IF u = {} THEN 0 ELSE f[c[u]] + h(u \ {c[u]})[u \ {c[u]}]]
<1>3. ASSUME NEW u \in SUBSET s, u # s
      PROVE  IsSum(f, c, h(u), u)
  <2>1. u \notin Bad /\ u \in SUBSET S
    BY <1>2, <1>3
  <2>2. \E g : IsSum(f, c, g, u)
    BY <2>1
  <2> HIDE DEF Bad
  <2> QED
    BY <2>2
<1>4. ASSUME NEW u \in SUBSET s, u # {}
      PROVE  c[u] \in u
  BY <1>4 DEF Choice
<1>5. ASSUME NEW u \in SUBSET s, u # s
      PROVE  G[u] = h(u)[u]
  <2>1. IsSum(f, c, h(u), u)
    BY <1>3, <1>5
  <2> DEFINE v == u \ {c[u]}
             hu == h(u)
             hv == h(v)
  <2>2. hu[u] = IF u = {} THEN 0 ELSE f[c[u]] + hu[v]
    BY <2>1, SumIs
  <2>3. G[u] = IF u = {} THEN 0 ELSE f[c[u]] + hv[v]
    OBVIOUS
  <2>4. ASSUME u # {}
        PROVE  hu[v] = hv[v]
    <3>1. IsSum(f, c, hv, v)
      BY <1>3, <1>4, <1>5, <2>4
    <3>2. IsFiniteSet(u) /\ Choice(c, u)
      BY FS_Subset DEF Choice
    <3>3. v \in SUBSET u /\ v \subseteq v
      OBVIOUS
    <3> HIDE DEF v, hu, hv, h, G
    <3> QED
      BY <2>1, <3>1, <3>2, <3>3, SumUnique DEF hu
  <2> QED
    BY <2>2, <2>3, <2>4
<1>6. ASSUME NEW u \in SUBSET s
      PROVE  G[u] = IF u = {} THEN 0 ELSE f[c[u]] + G[u \ {c[u]}]
  <2>1. CASE u = {}
    BY <2>1
  <2>2. CASE u # {}
    <3>1. c[u] \in u /\ u \ {c[u]} \in SUBSET s /\ u \ {c[u]} # s
      BY <1>4, <2>2
    <3>2. G[u \ {c[u]}] = h(u \ {c[u]})[u \ {c[u]}]
      BY <1>5, <3>1
    <3> QED
      BY <2>2, <3>2
  <2> QED
    BY <2>1, <2>2
<1>7. IsSum(f, c, G, s)
  <2>1. DOMAIN G = SUBSET s /\ G = [u \in DOMAIN G |-> G[u]]
    OBVIOUS
  <2> HIDE DEF G
  <2> QED
    BY <1>6, <2>1 DEF IsSum, SumStep
<1> QED
  BY <1>2, <1>7

\* The order of SumFunctionOnSet.
Picks(S) == [s \in SUBSET S |-> CHOOSE x \in s : TRUE]

\* SumFunctionOnSet is such a sum.
LEMMA SumDef ==
    ASSUME NEW f, NEW S
    PROVE  SumFunctionOnSet(f, S) = (CHOOSE g : IsSum(f, Picks(S), g, S))[S]
BY DEF SumFunctionOnSet, FoldFunctionOnSet, MapThenFoldSet, IsSum, SumStep, Picks

\* Whatever satisfies the recursion on a set has the sum of each subset.
LEMMA SumOfSubset ==
    ASSUME NEW S, IsFiniteSet(S), NEW f, NEW R \in SUBSET S,
           NEW g, IsSum(f, Picks(S), g, S)
    PROVE  SumFunctionOnSet(f, R) = g[R]
<1> DEFINE h == CHOOSE k : IsSum(f, Picks(R), k, R)
<1>1. IsFiniteSet(R) /\ Choice(Picks(S), S) /\ Choice(Picks(R), R)
  BY FS_Subset DEF Choice, Picks
<1>2. IsSum(f, Picks(R), h, R)
  BY <1>1, SumExists
<1>3. IsSum(f, Picks(S), h, R)
  <2> HIDE DEF h
  <2>1. \A s \in SUBSET R : Picks(S)[s] = Picks(R)[s]
    BY DEF Picks
  <2>2. SumStep(f, Picks(S), h, R) = SumStep(f, Picks(R), h, R)
    BY <2>1 DEF SumStep
  <2> QED
    BY <1>2, <2>2 DEF IsSum
<1>4. g[R] = h[R]
  BY <1>1, <1>3, SumUnique
<1> QED
  BY <1>4, SumDef

\* The sum over nothing.
LEMMA SumEmpty ==
    ASSUME NEW f, NEW S, S = {}
    PROVE  SumFunctionOnSet(f, S) = 0
<1>1. IsFiniteSet(S) /\ Choice(Picks(S), S)
  BY FS_EmptySet DEF Choice, Picks
<1>2. PICK g : IsSum(f, Picks(S), g, S)
  BY <1>1, SumExists
<1>3. g[S] = 0
  BY <1>2 DEF IsSum, SumStep
<1>4. S \in SUBSET S
  OBVIOUS
<1>5. SumFunctionOnSet(f, S) = g[S]
  BY <1>1, <1>2, <1>4, SumOfSubset
<1> QED
  BY <1>3, <1>5

\* Some element can be taken out of a sum.
LEMMA SumOfSome ==
    ASSUME NEW S, IsFiniteSet(S), S # {}, NEW f
    PROVE  \E x \in S : SumFunctionOnSet(f, S) = f[x] + SumFunctionOnSet(f, S \ {x})
<1>1. Choice(Picks(S), S)
  BY DEF Choice, Picks
<1>2. PICK g : IsSum(f, Picks(S), g, S)
  BY <1>1, SumExists
<1> DEFINE x == Picks(S)[S]
<1>3. x \in S
  BY <1>1 DEF Choice
<1>4. g[S] = f[x] + g[S \ {x}]
  BY <1>2, SumIs
<1>5. SumFunctionOnSet(f, S) = g[S] /\ SumFunctionOnSet(f, S \ {x}) = g[S \ {x}]
  BY <1>2, SumOfSubset
<1> QED
  BY <1>3, <1>4, <1>5

\* A sum of integers is an integer, one of naturals a natural.
LEMMA SumType ==
    ASSUME NEW S, IsFiniteSet(S), NEW f
    PROVE  /\ (\A x \in S : f[x] \in Int) => SumFunctionOnSet(f, S) \in Int
           /\ (\A x \in S : f[x] \in Nat) => SumFunctionOnSet(f, S) \in Nat
<1>1. ASSUME NEW Num, Num \in {Int, Nat}, \A x \in S : f[x] \in Num
      PROVE  SumFunctionOnSet(f, S) \in Num
  <2> DEFINE Bad == {s \in SUBSET S : SumFunctionOnSet(f, s) \notin Num}
  <2>1. SUFFICES ASSUME Bad # {} PROVE FALSE
    OBVIOUS
  <2>2. Bad \subseteq SUBSET S
    OBVIOUS
  <2>3. PICK s \in Bad : \A y \in Bad : y \subseteq s => y = s
    <3> HIDE DEF Bad
    <3> QED
      BY <2>1, <2>2, MinimalSubset
  <2>4. s # {}
    BY <1>1, SumEmpty
  <2>5. IsFiniteSet(s)
    BY FS_Subset
  <2>6. PICK x \in s : SumFunctionOnSet(f, s) = f[x] + SumFunctionOnSet(f, s \ {x})
    BY <2>4, <2>5, SumOfSome
  <2>7. s \ {x} \in SUBSET S /\ s \ {x} \notin Bad
    BY <2>3
  <2>8. SumFunctionOnSet(f, s \ {x}) \in Num /\ f[x] \in Num
    BY <1>1, <2>7
  <2>9. SumFunctionOnSet(f, s) \in Num
    BY <1>1, <2>6, <2>8
  <2> QED
    BY <2>9
<1> QED
  BY <1>1

\* Any element can be taken out of a sum.
LEMMA SumRemove ==
    ASSUME NEW S, IsFiniteSet(S), NEW f, \A z \in S : f[z] \in Int, NEW x \in S
    PROVE  SumFunctionOnSet(f, S) = f[x] + SumFunctionOnSet(f, S \ {x})
<1> DEFINE Sum(s) == SumFunctionOnSet(f, s)
           Splits(s, z) == Sum(s) = f[z] + Sum(s \ {z})
           Bad == {s \in SUBSET S : \E z \in s : ~Splits(s, z)}
<1>1. SUFFICES ASSUME Bad # {} PROVE FALSE
  OBVIOUS
<1>2. Bad \subseteq SUBSET S
  OBVIOUS
<1>3. PICK s \in Bad : \A y \in Bad : y \subseteq s => y = s
  <2> HIDE DEF Bad
  <2> QED
    BY <1>1, <1>2, MinimalSubset
<1>4. PICK z \in s : ~Splits(s, z)
  OBVIOUS
<1>5. s \in SUBSET S /\ IsFiniteSet(s)
  BY FS_Subset
<1>6. PICK y \in s : Splits(s, y)
  <2> HIDE DEF Bad
  <2> QED
    BY <1>4, <1>5, SumOfSome
<1>7. y # z
  BY <1>4, <1>6
<1>8. ASSUME NEW t \in SUBSET s, t # s, NEW u \in t
      PROVE  Splits(t, u)
  <2>1. t \notin Bad /\ t \in SUBSET S
    BY <1>3, <1>5, <1>8
  <2> QED
    BY <2>1
<1>9. Splits(s \ {y}, z) /\ Splits(s \ {z}, y)
  <2>1. /\ s \ {y} \in SUBSET s /\ s \ {y} # s /\ z \in s \ {y}
        /\ s \ {z} \in SUBSET s /\ s \ {z} # s /\ y \in s \ {z}
    BY <1>7
  <2> HIDE DEF Splits
  <2> QED
    BY <1>8, <2>1
<1> DEFINE r == (s \ {y}) \ {z}
<1>10. r = (s \ {z}) \ {y}
  OBVIOUS
<1>11. /\ Sum(s) = f[y] + Sum(s \ {y}) /\ Sum(s \ {y}) = f[z] + Sum(r)
       /\ Sum(s \ {z}) = f[y] + Sum(r)
  BY <1>6, <1>9, <1>10
<1>12. Sum(r) \in Int /\ f[y] \in Int /\ f[z] \in Int
  <2>1. IsFiniteSet(r) /\ \A u \in r : f[u] \in Int
    BY <1>5, FS_Subset
  <2> HIDE DEF r
  <2> QED
    BY <1>5, <2>1, SumType
<1>13. Sum(s) = f[z] + Sum(s \ {z})
  <2> HIDE DEF Sum, r
  <2> QED
    BY <1>11, <1>12
<1> QED
  BY <1>4, <1>13

\* Sums over the same values are the same.
LEMMA SumSame ==
    ASSUME NEW S, IsFiniteSet(S), NEW f, NEW g, \A z \in S : f[z] = g[z]
    PROVE  SumFunctionOnSet(f, S) = SumFunctionOnSet(g, S)
<1>1. Choice(Picks(S), S)
  BY DEF Choice, Picks
<1>2. PICK h : IsSum(f, Picks(S), h, S)
  BY <1>1, SumExists
<1>3. IsSum(g, Picks(S), h, S)
  <2>1. ASSUME NEW s \in SUBSET S, s # {}
        PROVE  f[Picks(S)[s]] = g[Picks(S)[s]]
    BY <1>1, <2>1 DEF Choice
  <2>2. SumStep(f, Picks(S), h, S) = SumStep(g, Picks(S), h, S)
    BY <2>1 DEF SumStep
  <2> QED
    BY <1>2, <2>2 DEF IsSum
<1>4. S \in SUBSET S
  OBVIOUS
<1>5. SumFunctionOnSet(f, S) = h[S]
  BY <1>2, <1>4, SumOfSubset
<1>6. SumFunctionOnSet(g, S) = h[S]
  BY <1>3, <1>4, SumOfSubset
<1> QED
  BY <1>5, <1>6

\* One value of a sum changes.
LEMMA SumUpdate ==
    ASSUME NEW S, IsFiniteSet(S), NEW f, NEW g, NEW x \in S,
           \A z \in S : f[z] \in Int, g[x] \in Int,
           \A z \in S \ {x} : g[z] = f[z]
    PROVE  SumFunctionOnSet(g, S) = SumFunctionOnSet(f, S) + g[x] - f[x]
<1> DEFINE R == S \ {x}
<1>1. IsFiniteSet(R) /\ \A z \in R : f[z] \in Int
  BY FS_Subset
<1>2. SumFunctionOnSet(f, S) = f[x] + SumFunctionOnSet(f, R)
  BY SumRemove
<1>3. \A z \in S : g[z] \in Int
  OBVIOUS
<1>4. SumFunctionOnSet(g, S) = g[x] + SumFunctionOnSet(g, R)
  BY <1>3, SumRemove
<1>5. SumFunctionOnSet(g, R) = SumFunctionOnSet(f, R)
  BY <1>1, SumSame
<1>6. SumFunctionOnSet(f, R) \in Int /\ f[x] \in Int
  BY <1>1, SumType
<1> QED
  BY <1>2, <1>4, <1>5, <1>6

\* One more element.
LEMMA SumAdd ==
    ASSUME NEW S, IsFiniteSet(S), NEW f, NEW x, x \notin S,
           \A z \in S \cup {x} : f[z] \in Int
    PROVE  SumFunctionOnSet(f, S \cup {x}) = SumFunctionOnSet(f, S) + f[x]
<1> DEFINE R == S \cup {x}
<1>1. IsFiniteSet(R)
  BY FS_AddElement
<1>2. R \ {x} = S /\ x \in R
  OBVIOUS
<1>3. SumFunctionOnSet(f, R) = f[x] + SumFunctionOnSet(f, R \ {x})
  <2> HIDE DEF R
  <2> QED
    BY <1>1, <1>2, SumRemove DEF R
<1>4. SumFunctionOnSet(f, S) \in Int /\ f[x] \in Int
  BY SumType
<1>5. SumFunctionOnSet(f, R \ {x}) = SumFunctionOnSet(f, S)
  BY <1>2
<1>6. SumFunctionOnSet(f, R) = SumFunctionOnSet(f, S) + f[x]
  <2> HIDE DEF R
  <2> QED
    BY <1>3, <1>4, <1>5
<1> QED
  BY <1>6

\* A sum over a sequence that has one more element.
LEMMA SumAppend ==
    ASSUME NEW n \in Nat, NEW f, NEW g, DOMAIN f = 1..n, DOMAIN g = 1..(n + 1),
           \A i \in 1..n : f[i] \in Nat /\ g[i] = f[i], g[n + 1] \in Nat
    PROVE  /\ SumFunction(g) = SumFunction(f) + g[n + 1]
           /\ SumFunction(f) \in Nat
<1>0. n + 1 \notin 1..n /\ 1..(n + 1) = (1..n) \cup {n + 1}
  OBVIOUS
<1>1. IsFiniteSet(1..n)
  BY FS_Interval
<1>2. \A i \in (1..n) \cup {n + 1} : g[i] \in Int
  OBVIOUS
<1>3. SumFunctionOnSet(g, 1..(n + 1)) = SumFunctionOnSet(g, 1..n) + g[n + 1]
  <2> DEFINE S == 1..n
             x == n + 1
  <2>a. IsFiniteSet(S)
    BY <1>1
  <2>b. x \notin S
    BY <1>0
  <2>1. \A z \in S \cup {x} : g[z] \in Int
    BY <1>2
  <2> HIDE DEF S, x
  <2>2. SumFunctionOnSet(g, S \cup {x}) = SumFunctionOnSet(g, S) + g[x]
    BY ONLY <2>a, <2>b, <2>1, SumAdd, Zenon
  <2> QED
    BY <1>0, <2>2 DEF S, x
<1>4. SumFunctionOnSet(g, 1..n) = SumFunctionOnSet(f, 1..n)
  BY <1>1, SumSame
<1>5. SumFunctionOnSet(f, 1..n) \in Nat
  BY <1>1, SumType
<1> QED
  BY <1>3, <1>4, <1>5 DEF SumFunction

\* A sum of sums, element by element.
LEMMA SumPlus ==
    ASSUME NEW S, IsFiniteSet(S), NEW f, NEW g, NEW h,
           \A z \in S : f[z] \in Int /\ g[z] \in Int /\ h[z] = f[z] + g[z]
    PROVE  SumFunctionOnSet(h, S) = SumFunctionOnSet(f, S) + SumFunctionOnSet(g, S)
<1> DEFINE Adds(s) ==
             SumFunctionOnSet(h, s) = SumFunctionOnSet(f, s) + SumFunctionOnSet(g, s)
           Bad == {s \in SUBSET S : ~Adds(s)}
<1>1. SUFFICES ASSUME Bad # {} PROVE FALSE
  OBVIOUS
<1>2. PICK s \in Bad : \A y \in Bad : y \subseteq s => y = s
  <2>1. Bad \subseteq SUBSET S
    OBVIOUS
  <2> HIDE DEF Bad
  <2> QED
    BY <1>1, <2>1, MinimalSubset
<1>3. s \subseteq S /\ IsFiniteSet(s) /\ ~Adds(s)
  BY FS_Subset
<1>4. s # {}
  <2>1. /\ SumFunctionOnSet(h, {}) = 0 /\ SumFunctionOnSet(f, {}) = 0
        /\ SumFunctionOnSet(g, {}) = 0
    BY SumEmpty
  <2> QED
    BY <1>3, <2>1
<1>5. PICK x : x \in s
  BY <1>4
<1> DEFINE t == s \ {x}
<1>6. t \subseteq S /\ IsFiniteSet(t) /\ Adds(t)
  <2>1. t \in SUBSET S /\ t \subseteq s /\ t # s
    BY <1>3, <1>5
  <2>2. Adds(t)
    BY <1>2, <2>1
  <2> QED
    BY <1>3, <2>1, <2>2, FS_Subset
<1>7. /\ \A z \in s : f[z] \in Int
      /\ \A z \in s : g[z] \in Int
      /\ \A z \in s : h[z] \in Int
  BY <1>3
<1> HIDE DEF t
<1>8. /\ SumFunctionOnSet(h, s) = h[x] + SumFunctionOnSet(h, t)
      /\ SumFunctionOnSet(f, s) = f[x] + SumFunctionOnSet(f, t)
      /\ SumFunctionOnSet(g, s) = g[x] + SumFunctionOnSet(g, t)
  BY <1>3, <1>5, <1>7, SumRemove DEF t
<1>9. /\ SumFunctionOnSet(f, t) \in Int /\ SumFunctionOnSet(g, t) \in Int
      /\ f[x] \in Int /\ g[x] \in Int /\ h[x] = f[x] + g[x]
  <2>1. (\A z \in t : f[z] \in Int) /\ (\A z \in t : g[z] \in Int)
    BY <1>6
  <2> QED
    BY <1>3, <1>5, <1>6, <2>1, SumType
<1> QED
  BY <1>3, <1>6, <1>8, <1>9

\* Ones, for the elements of a subset, add up to its size.
LEMMA SumOfOnes ==
    ASSUME NEW S, IsFiniteSet(S), NEW R, R \subseteq S, NEW f,
           \A z \in S : f[z] = IF z \in R THEN 1 ELSE 0
    PROVE  SumFunctionOnSet(f, S) = Cardinality(R)
<1> DEFINE Counts(s) == SumFunctionOnSet(f, s) = Cardinality(s \cap R)
           Bad == {s \in SUBSET S : ~Counts(s)}
<1>1. SUFFICES ASSUME Bad # {} PROVE FALSE
  <2>1. Counts(S)
    BY <1>1
  <2>2. S \cap R = R
    OBVIOUS
  <2> QED
    BY <2>1, <2>2
<1>2. PICK s \in Bad : \A y \in Bad : y \subseteq s => y = s
  <2>1. Bad \subseteq SUBSET S
    OBVIOUS
  <2> HIDE DEF Bad
  <2> QED
    BY <1>1, <2>1, MinimalSubset
<1>3. s \subseteq S /\ IsFiniteSet(s) /\ ~Counts(s)
  BY FS_Subset
<1>4. s # {}
  <2>1. SumFunctionOnSet(f, {}) = 0 /\ Cardinality({}) = 0 /\ {} \cap R = {}
    BY SumEmpty, FS_EmptySet
  <2> QED
    BY <1>3, <2>1
<1>5. PICK x : x \in s
  BY <1>4
<1> DEFINE t == s \ {x}
<1>6. t \subseteq S /\ IsFiniteSet(t) /\ Counts(t) /\ x \notin t /\ s = t \cup {x}
  <2>1. t \in SUBSET S /\ t \subseteq s /\ t # s
    BY <1>3, <1>5
  <2>2. Counts(t)
    BY <1>2, <2>1
  <2> QED
    BY <1>3, <1>5, <2>1, <2>2, FS_Subset
<1> HIDE DEF t
<1>7. SumFunctionOnSet(f, s) = SumFunctionOnSet(f, t) + f[x]
  <2>1. \A z \in t \cup {x} : f[z] \in Int
    BY <1>3, <1>6
  <2>2. IsFiniteSet(t)
    BY <1>6
  <2>3. x \notin t
    BY <1>6
  <2>4. SumFunctionOnSet(f, t \cup {x}) = SumFunctionOnSet(f, t) + f[x]
    BY ONLY <2>1, <2>2, <2>3, SumAdd, ZenonT(30)
  <2> QED
    BY <1>6, <2>4
<1> DEFINE v == t \cap R
<1>8. IsFiniteSet(v) /\ Cardinality(v) \in Nat /\ x \notin v
  BY <1>6, FS_Subset, FS_CardinalityType
<1>9. CASE x \in R
  <2>1. s \cap R = v \cup {x}
    BY <1>6, <1>9
  <2>2. Cardinality(v \cup {x}) = Cardinality(v) + 1
    BY <1>8, FS_AddElement
  <2>3. f[x] = 1
    BY <1>3, <1>5, <1>9
  <2> QED
    BY <1>3, <1>6, <1>7, <2>1, <2>2, <2>3
<1>10. CASE x \notin R
  <2>1. s \cap R = v
    BY <1>6, <1>10
  <2>2. f[x] = 0
    BY <1>3, <1>5, <1>10
  <2> QED
    BY <1>3, <1>6, <1>7, <1>8, <2>1, <2>2
<1> QED
  BY <1>9, <1>10

\* The elements of the sets F[i], counted set by set and element by element.
LEMMA DoubleCount ==
    ASSUME NEW D, IsFiniteSet(D), NEW C, IsFiniteSet(C), NEW F,
           \A i \in D : F[i] \subseteq C
    PROVE  SumFunctionOnSet([i \in D |-> Cardinality(F[i])], D)
             = SumFunctionOnSet([c \in C |-> Cardinality({i \in D : c \in F[i]})], C)
<1> DEFINE size == [i \in D |-> Cardinality(F[i])]
           Has(s, c) == {i \in s : c \in F[i]}
           having(s) == [c \in C |-> Cardinality(Has(s, c))]
           Same(s) == SumFunctionOnSet(size, s) = SumFunctionOnSet(having(s), C)
           Bad == {s \in SUBSET D : ~Same(s)}
<1>1. SUFFICES ASSUME Bad # {} PROVE FALSE
  OBVIOUS
<1>2. PICK s \in Bad : \A y \in Bad : y \subseteq s => y = s
  <2>1. Bad \subseteq SUBSET D
    OBVIOUS
  <2> HIDE DEF Bad
  <2> QED
    BY <1>1, <2>1, MinimalSubset
<1>3. s \subseteq D /\ IsFiniteSet(s) /\ ~Same(s)
  BY FS_Subset
<1>4. s # {}
  <2>1. Cardinality({}) = 0
    BY FS_EmptySet
  <2>2. \A c \in C : having({})[c] = IF c \in {} THEN 1 ELSE 0
    BY <2>1
  <2> HIDE DEF having
  <2>3. SumFunctionOnSet(having({}), C) = 0
    BY <2>1, <2>2, SumOfOnes
  <2>4. SumFunctionOnSet(size, {}) = 0
    BY SumEmpty
  <2> QED
    BY <1>3, <2>3, <2>4
<1>5. PICK x : x \in s
  BY <1>4
<1> DEFINE t == s \ {x}
           one == [c \in C |-> IF c \in F[x] THEN 1 ELSE 0]
<1>6. t \subseteq D /\ IsFiniteSet(t) /\ Same(t) /\ x \notin t /\ s = t \cup {x}
  <2>1. t \in SUBSET D /\ t \subseteq s /\ t # s
    BY <1>3, <1>5
  <2>2. Same(t)
    BY <1>2, <2>1
  <2> QED
    BY <1>3, <1>5, <2>1, <2>2, FS_Subset
<1> HIDE DEF t
<1>7. \A c \in C : /\ having(t)[c] \in Int /\ one[c] \in Int
                   /\ having(s)[c] = having(t)[c] + one[c]
  <2>1. SUFFICES ASSUME NEW c \in C
                 PROVE  /\ Cardinality(Has(t, c)) \in Int
                        /\ Cardinality(Has(s, c))
                             = Cardinality(Has(t, c)) + IF c \in F[x] THEN 1 ELSE 0
    OBVIOUS
  <2>2. /\ IsFiniteSet(Has(t, c)) /\ Cardinality(Has(t, c)) \in Nat
        /\ x \notin Has(t, c)
    <3>1. Has(t, c) \subseteq t
      OBVIOUS
    <3> QED
      BY <1>6, <3>1, FS_Subset, FS_CardinalityType
  <2>3. CASE c \in F[x]
    <3>1. Has(s, c) = Has(t, c) \cup {x}
      BY <1>6, <2>3
    <3>2. Cardinality(Has(t, c) \cup {x}) = Cardinality(Has(t, c)) + 1
      <4> HIDE DEF Has
      <4> QED
        BY <2>2, FS_AddElement
    <3> HIDE DEF Has
    <3> QED
      BY <2>2, <2>3, <3>1, <3>2
  <2>4. CASE c \notin F[x]
    <3>1. Has(s, c) = Has(t, c)
      BY <1>6, <2>4
    <3> HIDE DEF Has
    <3> QED
      BY <2>2, <2>4, <3>1
  <2> QED
    BY <2>3, <2>4
<1>8. SumFunctionOnSet(one, C) = Cardinality(F[x])
  <2>1. F[x] \subseteq C /\ \A c \in C : one[c] = IF c \in F[x] THEN 1 ELSE 0
    BY <1>3, <1>5
  <2> HIDE DEF one
  <2> QED
    BY <2>1, SumOfOnes
<1>9. SumFunctionOnSet(having(s), C)
        = SumFunctionOnSet(having(t), C) + SumFunctionOnSet(one, C)
  <2> HIDE DEF having, one
  <2> QED
    BY <1>7, SumPlus
<1>10. SumFunctionOnSet(size, s) = SumFunctionOnSet(size, t) + Cardinality(F[x])
  <2>1. /\ \A z \in t \cup {x} : size[z] \in Int
        /\ size[x] = Cardinality(F[x])
    <3>1. \A z \in D : IsFiniteSet(F[z]) /\ Cardinality(F[z]) \in Int
      BY FS_Subset, FS_CardinalityType
    <3> QED
      BY <1>3, <1>5, <1>6, <3>1
  <2> HIDE DEF size
  <2>2. IsFiniteSet(t)
    BY <1>6
  <2>3. x \notin t
    BY <1>6
  <2>4. \A z \in t \cup {x} : size[z] \in Int
    BY <2>1
  <2>5. SumFunctionOnSet(size, t \cup {x}) = SumFunctionOnSet(size, t) + size[x]
    BY ONLY <2>2, <2>3, <2>4, SumAdd, SMTT(30)
  <2> QED
    BY <1>6, <2>1, <2>5
<1> HIDE DEF having, size, one
<1> QED
  BY <1>3, <1>6, <1>8, <1>9, <1>10

-----------------------------------------------------------------------------
(* Flattened sequences *)

\* The recursion of FlattenSeq, on the first n elements.
FlatStep(s, n, g) == [i \in 1..n |-> IF i = 1 THEN s[i] ELSE g[i - 1] \o s[i]]
IsFlat(s, n, g) == g = FlatStep(s, n, g)

\* What satisfies it is what its recursion says.
LEMMA FlatIs ==
    ASSUME NEW n \in Nat, NEW s, NEW g, IsFlat(s, n, g), NEW i \in 1..n
    PROVE  g[i] = IF i = 1 THEN s[i] ELSE g[i - 1] \o s[i]
BY DEF IsFlat, FlatStep

\* Something satisfies it.
LEMMA FlatExists ==
    ASSUME NEW n \in Nat, NEW s
    PROVE  \E g : IsFlat(s, n, g)
<1> DEFINE Bad == {m \in 0..n : ~ \E g : IsFlat(s, m, g)}
<1>1. SUFFICES ASSUME Bad # {} PROVE FALSE
  OBVIOUS
<1>2. PICK m \in Bad : \A j \in Bad : m <= j
  <2>1. Bad \subseteq 0..n
    OBVIOUS
  <2> HIDE DEF Bad
  <2> QED
    BY <1>1, <2>1, Least
<1>3. m \in 0..n /\ ~ \E g : IsFlat(s, m, g)
  OBVIOUS
<1>4. CASE m = 0
  <2>1. FlatStep(s, 0, s) = FlatStep(s, 0, FlatStep(s, 0, s))
    BY DEF FlatStep
  <2> QED
    BY <1>3, <1>4, <2>1 DEF IsFlat
<1>5. CASE m # 0
  <2>1. m - 1 \in 0..n /\ m - 1 \notin Bad
    BY <1>2, <1>3, <1>5
  <2>2. PICK g : IsFlat(s, m - 1, g)
    BY <2>1
  <2> DEFINE last == IF m = 1 THEN s[m] ELSE g[m - 1] \o s[m]
             h == [i \in 1..m |-> IF i = m THEN last ELSE g[i]]
  <2>3. ASSUME NEW i \in 1..m
        PROVE  h[i] = IF i = 1 THEN s[i] ELSE h[i - 1] \o s[i]
    <3>1. CASE i = m
      BY <1>3, <3>1
    <3>2. CASE i # m
      <4>1. i \in 1..(m - 1) /\ m - 1 \in Nat
        BY <1>3, <3>2
      <4>2. g[i] = IF i = 1 THEN s[i] ELSE g[i - 1] \o s[i]
        BY <2>2, <4>1, FlatIs
      <4>3. h[i] = g[i]
        BY <3>2
      <4>4. ASSUME i # 1 PROVE h[i - 1] = g[i - 1]
        BY <1>3, <4>1, <4>4
      <4> QED
        BY <4>2, <4>3, <4>4
    <3> QED
      BY <3>1, <3>2
  <2>4. IsFlat(s, m, h)
    <3>1. DOMAIN h = 1..m /\ h = [i \in DOMAIN h |-> h[i]]
      OBVIOUS
    <3> HIDE DEF h
    <3> QED
      BY <2>3, <3>1 DEF IsFlat, FlatStep
  <2> QED
    BY <1>3, <2>4
<1> QED
  BY <1>4, <1>5

\* The recursion determines the elements as far as the sequences agree.
LEMMA FlatUnique ==
    ASSUME NEW n \in Nat, NEW m \in Nat, NEW s, NEW t,
           NEW g, IsFlat(s, n, g), NEW h, IsFlat(t, m, h),
           n <= m, \A i \in 1..n : s[i] = t[i]
    PROVE  \A i \in 1..n : g[i] = h[i]
<1> DEFINE Bad == {i \in 1..n : g[i] # h[i]}
<1>1. SUFFICES ASSUME Bad # {} PROVE FALSE
  OBVIOUS
<1>2. PICK i \in Bad : \A j \in Bad : i <= j
  <2>1. Bad \subseteq 0..n
    OBVIOUS
  <2> HIDE DEF Bad
  <2> QED
    BY <1>1, <2>1, Least
<1>3. i \in 1..n /\ i \in 1..m /\ g[i] # h[i] /\ s[i] = t[i]
  OBVIOUS
<1>4. /\ g[i] = IF i = 1 THEN s[i] ELSE g[i - 1] \o s[i]
      /\ h[i] = IF i = 1 THEN t[i] ELSE h[i - 1] \o t[i]
  BY <1>3, FlatIs
<1>5. i # 1 /\ g[i - 1] # h[i - 1]
  BY <1>3, <1>4
<1>6. i - 1 \in Bad
  BY <1>3, <1>5
<1> QED
  BY <1>2, <1>3, <1>6

\* Flattened, a sequence is the last of such elements.
LEMMA FlattenIs ==
    ASSUME NEW T, NEW s \in Seq(T), s # <<>>
    PROVE  \E g : IsFlat(s, Len(s), g) /\ FlattenSeq(s) = g[Len(s)]
<1> DEFINE h == CHOOSE g : IsFlat(s, Len(s), g)
<1>1. Len(s) \in Nat /\ Len(s) # 0
  OBVIOUS
<1>2. IsFlat(s, Len(s), h)
  BY <1>1, FlatExists
<1>3. FlattenSeq(s) = h[Len(s)]
  BY <1>1 DEF FlattenSeq, IsFlat, FlatStep
<1> QED
  BY <1>2, <1>3

\* What is flattened is of the elements of the parts.
LEMMA FlattenType ==
    ASSUME NEW T, NEW s \in Seq(Seq(T))
    PROVE  FlattenSeq(s) \in Seq(T)
<1>1. CASE s = <<>>
  BY <1>1 DEF FlattenSeq
<1>2. CASE s # <<>>
  <2> DEFINE n == Len(s)
  <2>1. n \in Nat /\ n \in 1..n /\ \A i \in 1..n : s[i] \in Seq(T)
    BY <1>2
  <2>2. PICK g : IsFlat(s, n, g) /\ FlattenSeq(s) = g[n]
    BY <1>2, FlattenIs
  <2> DEFINE Bad == {i \in 1..n : g[i] \notin Seq(T)}
  <2>3. ASSUME Bad # {} PROVE FALSE
    <3>1. PICK i \in Bad : \A j \in Bad : i <= j
      <4>1. Bad \subseteq 0..n
        OBVIOUS
      <4> HIDE DEF Bad, n
      <4> QED
        BY <2>1, <2>3, <4>1, Least
    <3>2. i \in 1..n /\ g[i] \notin Seq(T)
      OBVIOUS
    <3>3. g[i] = IF i = 1 THEN s[i] ELSE g[i - 1] \o s[i]
      BY <2>1, <2>2, FlatIs
    <3>4. s[i] \in Seq(T)
      BY <2>1
    <3>5. i # 1
      BY <3>2, <3>3, <3>4
    <3>6. i - 1 \in 1..n /\ i - 1 \notin Bad
      BY <2>1, <3>1, <3>2, <3>5
    <3>7. g[i - 1] \in Seq(T)
      BY <3>6
    <3>8. g[i - 1] \o s[i] \in Seq(T)
      BY <3>4, <3>7, ConcatProperties
    <3> QED
      BY <3>2, <3>3, <3>5, <3>8
  <2> QED
    BY <2>1, <2>2, <2>3
<1> QED
  BY <1>1, <1>2

\* Flattening goes on where it has stopped.
LEMMA FlattenAppend ==
    ASSUME NEW T, NEW s \in Seq(Seq(T)), NEW x \in Seq(T)
    PROVE  FlattenSeq(Append(s, x)) = FlattenSeq(s) \o x
<1> DEFINE n == Len(s)
           t == Append(s, x)
           m == n + 1
<1>1. /\ n \in Nat /\ t \in Seq(Seq(T)) /\ t # <<>> /\ Len(t) = m
      /\ m \in Nat /\ m \in 1..m
      /\ t[m] = x /\ \A i \in 1..n : t[i] = s[i]
  BY AppendProperties
<1> HIDE DEF t
<1>2. PICK h : IsFlat(t, m, h) /\ FlattenSeq(t) = h[m]
  BY <1>1, FlattenIs
<1>3. FlattenSeq(t) = IF m = 1 THEN t[m] ELSE h[m - 1] \o t[m]
  BY <1>1, <1>2, FlatIs
<1>4. CASE s = <<>>
  <2>1. n = 0 /\ FlattenSeq(s) = <<>>
    BY <1>4 DEF FlattenSeq
  <2>2. <<>> \o x = x
    BY ConcatEmptySeq
  <2> QED
    BY <1>1, <1>3, <2>1, <2>2 DEF t
<1>5. CASE s # <<>>
  <2>1. n # 0 /\ n \in 1..n
    BY <1>1, <1>5
  <2>2. PICK g : IsFlat(s, n, g) /\ FlattenSeq(s) = g[n]
    BY <1>5, FlattenIs
  <2>3. n <= m
    BY <1>1
  <2>4. \A i \in 1..n : s[i] = t[i]
    BY <1>1
  <2>5. \A i \in 1..n : g[i] = h[i]
    <3>1. n \in Nat /\ m \in Nat /\ IsFlat(s, n, g) /\ IsFlat(t, m, h)
      BY <1>1, <1>2, <2>2
    <3> HIDE DEF n, m
    <3> QED
      BY ONLY <2>3, <2>4, <3>1, FlatUnique
  <2>6. g[n] = h[m - 1] /\ m # 1
    BY <1>1, <2>1, <2>5
  <2>7. FlattenSeq(t) = FlattenSeq(s) \o x
    BY <1>1, <1>3, <2>2, <2>6
  <2> QED
    BY <2>7 DEF t
<1> QED
  BY <1>4, <1>5

\* Without its first k parts, the rest is the end of the whole.
LEMMA FlattenEnd ==
    ASSUME NEW T, NEW s \in Seq(Seq(T)), NEW k \in 0..Len(s)
    PROVE  \E u \in Seq(T) :
             FlattenSeq(s) = u \o FlattenSeq(SubSeq(s, k + 1, Len(s)))
<1> DEFINE n == Len(s)
           F(i) == FlattenSeq(SubSeq(s, 1, i))
           G(i) == FlattenSeq(SubSeq(s, k + 1, i))
           Bad == {i \in 0..n : i >= k /\ F(i) # F(k) \o G(i)}
<1>1. n \in Nat /\ k \in Nat /\ k <= n /\ \A i \in 1..n : s[i] \in Seq(T)
  OBVIOUS
<1>2. ASSUME NEW i \in 0..n
      PROVE  /\ SubSeq(s, 1, i) \in Seq(Seq(T)) /\ F(i) \in Seq(T)
             /\ SubSeq(s, k + 1, i) \in Seq(Seq(T)) /\ G(i) \in Seq(T)
  <2>1. SubSeq(s, 1, i) \in Seq(Seq(T))
    <3>1. 1 \in Int /\ i \in Int /\ \A j \in 1..i : s[j] \in Seq(T)
      BY <1>1
    <3> QED
      BY <3>1, SubSeqProperties
  <2>2. SubSeq(s, k + 1, i) \in Seq(Seq(T))
    <3>1. k + 1 \in Int /\ i \in Int /\ \A j \in (k + 1)..i : s[j] \in Seq(T)
      BY <1>1
    <3> HIDE DEF n
    <3> QED
      BY <3>1, SubSeqProperties
  <2> QED
    BY <2>1, <2>2, FlattenType
<1>3. ASSUME Bad # {} PROVE FALSE
  <2>1. PICK i \in Bad : \A j \in Bad : i <= j
    <3>1. Bad \subseteq 0..n
      OBVIOUS
    <3> HIDE DEF Bad, n
    <3> QED
      BY <1>1, <1>3, <3>1, Least
  <2>2. i \in 0..n /\ i >= k /\ F(i) # F(k) \o G(i)
    OBVIOUS
  <2>3. i # k
    <3>1. SubSeq(s, k + 1, k) = <<>>
      BY <1>1, SubSeqEmpty
    <3>2. G(k) = <<>>
      BY <3>1 DEF FlattenSeq
    <3>3. F(k) \in Seq(T)
      BY <1>1, <1>2
    <3>4. F(k) \o G(k) = F(k)
      BY <3>2, <3>3, ConcatEmptySeq
    <3> QED
      BY <2>2, <3>4
  <2>4. i - 1 \in 0..n /\ i - 1 >= k /\ i \in 1..n /\ i - 1 \notin Bad
    <3> HIDE DEF Bad, F, G, n
    <3>1. i - 1 \in 0..n /\ i - 1 >= k /\ i \in 1..n /\ ~(i <= i - 1)
      BY <1>1, <2>2, <2>3
    <3> QED
      BY <2>1, <3>1
  <2>5. F(i - 1) = F(k) \o G(i - 1)
    BY <2>4
  <2> DEFINE p == SubSeq(s, 1, i - 1)
             q == SubSeq(s, k + 1, i - 1)
             x == s[i]
  <2>6. p \in Seq(Seq(T)) /\ q \in Seq(Seq(T)) /\ x \in Seq(T)
    BY <1>1, <1>2, <2>4
  <2>7. SubSeq(s, 1, i) = Append(p, x)
    <3>1. SubSeq(s, 1, i) = p \o <<x>>
      <4>1. 1 \in 1..Len(s) /\ i \in 1..Len(s)
        BY <2>4
      <4> QED
        BY <4>1, SubSeqRecursiveSecond
    <3> HIDE DEF p, x
    <3> QED
      BY <2>6, <3>1, AppendIsConcat
  <2>8. SubSeq(s, k + 1, i) = Append(q, x)
    <3>1. SubSeq(s, k + 1, i) = q \o <<x>>
      <4>1. k + 1 \in 1..Len(s) /\ i \in (k + 1)..Len(s)
        BY <1>1, <2>2, <2>3, <2>4
      <4> QED
        BY <4>1, SubSeqRecursiveSecond
    <3> HIDE DEF q, x
    <3> QED
      BY <2>6, <3>1, AppendIsConcat
  <2>9. F(i) = F(i - 1) \o x /\ G(i) = G(i - 1) \o x
    <3> HIDE DEF p, q, x
    <3>1. FlattenSeq(Append(p, x)) = FlattenSeq(p) \o x
      BY <2>6, FlattenAppend
    <3>2. FlattenSeq(Append(q, x)) = FlattenSeq(q) \o x
      BY <2>6, FlattenAppend
    <3> QED
      BY <2>7, <2>8, <3>1, <3>2 DEF p, q
  <2>10. F(i) = F(k) \o G(i)
    <3> DEFINE f == F(k)
               g == G(i - 1)
    <3>1. f \in Seq(T) /\ g \in Seq(T) /\ x \in Seq(T)
      BY <1>1, <1>2, <2>4, <2>6
    <3> HIDE DEF f, g, x
    <3>2. (f \o g) \o x = f \o (g \o x)
      BY ONLY <3>1, ConcatAssociative, SMTT(30)
    <3> HIDE DEF F, G
    <3> QED
      BY <2>5, <2>9, <3>2 DEF f, g
  <2> QED
    BY <2>2, <2>10
<1>4. F(n) = F(k) \o G(n)
  BY <1>1, <1>3
<1>5. SubSeq(s, 1, n) = s
  BY SubSeqFull
<1>6. F(k) \in Seq(T)
  BY <1>1, <1>2
<1> QED
  BY <1>4, <1>5, <1>6

\* What comes before it does not keep a sequence from being a suffix.
LEMMA EndIsSuffix ==
    ASSUME NEW T, NEW u \in Seq(T), NEW v \in Seq(T)
    PROVE  IsSuffix(v, u \o v)
<1> DEFINE w == u \o v
           m == Len(u)
           n == Len(v)
<1>1. /\ w \in Seq(T) /\ Len(w) = m + n /\ m \in Nat /\ n \in Nat
      /\ \A i \in 1..(m + n) : w[i] = IF i <= m THEN u[i] ELSE v[i - m]
  BY ConcatProperties
<1> HIDE DEF w
<1>2. ASSUME NEW s \in Seq(T)
      PROVE  /\ Reverse(s) \in Seq(T) /\ Len(Reverse(s)) = Len(s)
             /\ \A i \in 1..Len(s) : Reverse(s)[i] = s[Len(s) - i + 1]
  <2>1. \A i \in 1..Len(s) : s[Len(s) - i + 1] \in T
    OBVIOUS
  <2> QED
    BY <2>1 DEF Reverse
<1> DEFINE a == Reverse(v)
           b == Reverse(w)
<1>3. /\ a \in Seq(T) /\ Len(a) = n /\ \A i \in 1..n : a[i] = v[n - i + 1]
      /\ b \in Seq(T) /\ Len(b) = m + n
      /\ \A i \in 1..(m + n) : b[i] = w[m + n - i + 1]
  BY <1>1, <1>2
<1> HIDE DEF a, b
<1>4. \A i \in 1..n : a[i] = b[i]
  <2> SUFFICES ASSUME NEW i \in 1..n PROVE a[i] = b[i]
    OBVIOUS
  <2> DEFINE j == m + n - i + 1
  <2>1. j \in 1..(m + n) /\ ~(j <= m) /\ j - m = n - i + 1 /\ i \in 1..(m + n)
    BY <1>1
  <2>2. b[i] = w[j] /\ a[i] = v[n - i + 1]
    BY <1>3, <2>1
  <2> HIDE DEF j
  <2>3. w[j] = v[j - m]
    BY <1>1, <2>1
  <2> QED
    BY <2>1, <2>2, <2>3
<1>5. SubSeq(a, 1, n) = SubSeq(b, 1, n)
  <2> DEFINE c == SubSeq(a, 1, n)
             d == SubSeq(b, 1, n)
  <2>1. 1 \in Int /\ n \in Int /\ (\A i \in 1..n : a[i] \in T) /\ (\A i \in 1..n : b[i] \in T)
    BY <1>1, <1>3
  <2>2. /\ c \in Seq(T) /\ Len(c) = IF 1 <= n THEN n - 1 + 1 ELSE 0
        /\ \A i \in 1..(n - 1 + 1) : c[i] = a[1 + i - 1]
    BY <2>1, SubSeqProperties
  <2>3. /\ d \in Seq(T) /\ Len(d) = IF 1 <= n THEN n - 1 + 1 ELSE 0
        /\ \A i \in 1..(n - 1 + 1) : d[i] = b[1 + i - 1]
    BY <2>1, SubSeqProperties
  <2> HIDE DEF c, d, n
  <2>4. Len(c) = Len(d) /\ \A i \in 1..Len(c) : c[i] = d[i]
    BY <1>1, <1>4, <2>2, <2>3
  <2>5. c = d
    BY <2>2, <2>3, <2>4, SeqEqual
  <2> QED
    BY <2>5 DEF c, d
<1>6. n <= m + n
  BY <1>1
<1> QED
  BY <1>3, <1>5, <1>6 DEF IsSuffix, IsPrefix, a, b, w
=============================================================================
