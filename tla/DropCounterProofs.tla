------------------------- MODULE DropCounterProofs -------------------------
(***************************************************************************)
(* The drop counter's log adds up, for any number of goroutines that       *)
(* increment it: theorems about DropCounter.                               *)
(***************************************************************************)
EXTENDS DropCounter, FiniteSetTheorems, TLAPS

\* The callers inside Increment are finitely many, and one more or one less
\* of them changes their number by one.
LEMMA HalfCounts ==
    ASSUME TypeOK
    PROVE  /\ Cardinality(half) \in Nat
           /\ \A c \in Callers \ half : Cardinality(half \cup {c}) = Cardinality(half) + 1
           /\ \A c \in half : /\ Cardinality(half \ {c}) \in Nat
                              /\ Cardinality(half \ {c}) = Cardinality(half) - 1
<1>1. IsFiniteSet(half)
  BY CallersAssumption, FS_Subset DEF TypeOK
<1>2. \A c \in half : IsFiniteSet(half \ {c})
  BY <1>1, FS_Subset
<1> QED
  BY <1>1, <1>2, FS_CardinalityType, FS_AddElement, FS_RemoveElement

\* Initially nothing is counted and nothing was logged.
LEMMA InitIInv == Init => IInv
<1> SUFFICES ASSUME Init PROVE IInv
  OBVIOUS
<1>1. Cardinality(half) = 0
  BY FS_EmptySet DEF Init
<1> QED
  BY <1>1, CallersAssumption
  DEF Init, IInv, TypeOK, Accounted, WarningsWithinTotal, StopFlushes

\* Every step keeps the inductive invariant.
LEMMA NextIInv == IInv /\ [Next]_vars => IInv'
<1> SUFFICES ASSUME IInv, [Next]_vars PROVE IInv'
  OBVIOUS
<1> USE CallersAssumption DEF IInv, TypeOK, Accounted, WarningsWithinTotal, StopFlushes
<1>0. /\ Cardinality(half) \in Nat
      /\ \A c \in Callers \ half : Cardinality(half \cup {c}) = Cardinality(half) + 1
      /\ \A c \in half : /\ Cardinality(half \ {c}) \in Nat
                         /\ Cardinality(half \ {c}) = Cardinality(half) - 1
  BY HalfCounts
<1>1. ASSUME NEW c \in Callers, AddTotal(c) PROVE IInv'
  <2>1. Cardinality(half') = Cardinality(half) + 1
    BY <1>0, <1>1 DEF AddTotal
  <2> QED
    BY <1>0, <1>1, <2>1 DEF AddTotal
<1>2. ASSUME NEW c \in Callers, AddInterval(c) PROVE IInv'
  <2>1. Cardinality(half') \in Nat /\ Cardinality(half') = Cardinality(half) - 1
    BY <1>0, <1>2 DEF AddInterval
  <2> QED
    BY <1>0, <1>2, <2>1 DEF AddInterval
<1>3. CASE PollerSwap
  BY <1>0, <1>3 DEF PollerSwap, Swap
<1>4. CASE PollerLoad
  BY <1>0, <1>4 DEF PollerLoad, LoadTotal
<1>5. CASE Cancel
  BY <1>0, <1>5 DEF Cancel
<1>6. CASE PollerReturns
  BY <1>0, <1>6 DEF PollerReturns
<1>7. CASE StopSwap
  BY <1>0, <1>7 DEF StopSwap, Swap
<1>8. CASE StopLoad
  BY <1>0, <1>8 DEF StopLoad, LoadTotal
<1>9. CASE UNCHANGED vars
  BY <1>9 DEF vars
<1> QED
  BY <1>1, <1>2, <1>3, <1>4, <1>5, <1>6, <1>7, <1>8, <1>9
  DEF Next, Increment, Poll, Stop, Terminating

\* The inductive invariant holds in every reachable state.
THEOREM Inductive == Spec => []IInv
  BY InitIInv, NextIInv, PTL DEF Spec

\* Every drop is, at any time, logged, being logged, waiting in Interval or
\* about to be added to it: Increment and Poll lose and double none.
THEOREM DropsAccounted == Spec => []Accounted
<1>1. IInv => Accounted
  BY DEF IInv
<1> QED
  BY <1>1, Inductive, PTL

\* The warnings logged so far never add up to more than the total they show.
THEOREM WarningsNeverOvercount == Spec => []WarningsWithinTotal
<1>1. IInv => WarningsWithinTotal
  BY DEF IInv
<1> QED
  BY <1>1, Inductive, PTL

\* What was counted when stop is called has been logged when it returns.
THEOREM StopReportsAll == Spec => []StopFlushes
<1>1. IInv => StopFlushes
  BY DEF IInv
<1> QED
  BY <1>1, Inductive, PTL
=============================================================================
