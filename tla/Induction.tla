------------------------------ MODULE Induction ------------------------------
(***************************************************************************)
(* Induction over numbers and over finite sets, for what is stated as      *)
(* membership of a set: P is the set of what the claim holds of.           *)
(***************************************************************************)
EXTENDS Naturals, FiniteSetTheorems, TLAPS

\* What holds of a number whenever it holds of all below it holds of every number.
LEMMA NumberInduction ==
  ASSUME NEW P, \A n \in Nat : (\A m \in 0 .. n - 1 : m \in P) => n \in P
  PROVE  Nat \subseteq P
<1> SUFFICES ASSUME NEW k \in Nat, k \notin P PROVE FALSE
  OBVIOUS
<1> DEFINE holds == {n \in 0 .. k : \A m \in 0 .. n : m \in P}
           next == [n \in holds |-> n + 1]
\* The numbers up to which it holds would be as many as their successors: 0 is none of
\* these.
<1>1. IsFiniteSet(0 .. k)
  BY FS_Interval
<1>2. IsFiniteSet(holds)
  BY <1>1, FS_Subset
<1>3. 0 \in holds
  <2>1. 0 \in P
    OBVIOUS
  <2> QED
    BY <2>1
<1>4. \A n \in holds : n + 1 \in holds \ {0}
  <2>1. TAKE n \in holds
  <2>2. n \in Nat /\ n <= k /\ \A m \in 0 .. n : m \in P
    OBVIOUS
  <2>3. n + 1 \in P /\ n # k
    BY <2>2
  <2> QED
    BY <2>2, <2>3
<1>5. next \in Injection(holds, holds \ {0})
  <2>1. next \in [holds -> holds \ {0}]
    BY <1>4
  <2>2. \A m, n \in holds : next[m] = next[n] => m = n
    OBVIOUS
  <2> QED
    BY <2>1, <2>2 DEF Injection, IsInjective
<1> HIDE DEF holds, next
<1>6. IsFiniteSet(holds \ {0}) /\ Cardinality(holds \ {0}) = Cardinality(holds) - 1
  BY <1>2, <1>3, FS_RemoveElement
<1>7. Cardinality(holds) <= Cardinality(holds \ {0}) /\ Cardinality(holds) \in Nat
  BY <1>2, <1>5, <1>6, FS_Injection, FS_CardinalityType
<1> QED
  BY <1>6, <1>7

\* A set of numbers has a least one.
LEMMA LeastNumber ==
  ASSUME NEW S, S \subseteq Nat, S # {}
  PROVE  \E n \in S : \A m \in S : n <= m
<1> DEFINE P == Nat \ S
<1>1. PICK k \in S : TRUE
  OBVIOUS
<1>2. ASSUME \A n \in S : \E m \in S : m < n PROVE \A n \in Nat : (\A m \in 0 .. n - 1 : m \in P) => n \in P
  BY <1>2
<1>3. ASSUME \A n \in S : \E m \in S : m < n PROVE FALSE
  <2>1. \A n \in Nat : (\A m \in 0 .. n - 1 : m \in P) => n \in P
    BY <1>2, <1>3
  <2> HIDE DEF P
  <2>2. Nat \subseteq P
    BY <2>1, NumberInduction
  <2> QED
    BY <1>1, <2>2 DEF P
<1> QED
  BY <1>3

\* What holds of a finite set whenever it holds of those with one element less holds of
\* every subset.
LEMMA SubsetInduction ==
  ASSUME NEW S, IsFiniteSet(S), NEW P,
         \A T \in SUBSET S : (\A x \in T : T \ {x} \in P) => T \in P
  PROVE  SUBSET S \subseteq P
<1> DEFINE Q == {n \in Nat : \A T \in SUBSET S : Cardinality(T) = n => T \in P}
<1>1. \A T \in SUBSET S : Cardinality(T) \in Nat /\ IsFiniteSet(T)
  BY FS_Subset, FS_CardinalityType
<1>2. ASSUME NEW n \in Nat, \A m \in 0 .. n - 1 : m \in Q PROVE n \in Q
  <2>1. SUFFICES ASSUME NEW T \in SUBSET S, Cardinality(T) = n PROVE T \in P
    OBVIOUS
  <2>2. ASSUME NEW x \in T PROVE T \ {x} \in P
    <3>1. Cardinality(T \ {x}) = n - 1 /\ n - 1 \in Nat
      BY <1>1, <2>1, FS_RemoveElement
    <3>2. n - 1 \in Q
      BY <1>2, <3>1
    <3> QED
      BY <3>1, <3>2
  <2> QED
    BY <2>2
<1> HIDE DEF Q
<1>3. Nat \subseteq Q
  BY <1>2, NumberInduction
<1> QED
  BY <1>1, <1>3 DEF Q
=============================================================================
