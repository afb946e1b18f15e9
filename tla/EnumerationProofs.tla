-------------------------- MODULE EnumerationProofs --------------------------
(***************************************************************************)
(* Lemmas on sets of numbers: the least one, induction stated as a set,    *)
(* and what the sequence of module Enumeration is.                         *)
(***************************************************************************)
EXTENDS Enumeration, FiniteSetTheorems, FunctionTheorems, WellFoundedInduction, TLAPS

-----------------------------------------------------------------------------
\* Numbers

\* A set of numbers that is not empty has a least one.
LEMMA LeastNumber ==
  ASSUME NEW T, T \subseteq Nat, T # {}
  PROVE  \E x \in T : \A y \in T : x <= y
<1> DEFINE R == OpToRel(<, Nat)
<1>1. IsWellFoundedOn(R, Nat)
  BY NatLessThanWellFounded
<1>2. \A x, y \in Nat : <<y, x>> \in R <=> y < x
  BY DEF OpToRel
<1> HIDE DEF R
<1>3. \E x \in T : \A y \in T : ~ (<<y, x>> \in R)
  BY <1>1, WFMin
<1>4. PICK x \in T : \A y \in T : ~ (<<y, x>> \in R)
  BY <1>3
<1>5. \A y \in T : ~(y < x)
  BY <1>2, <1>4
<1>6. \A y \in T : x <= y
  BY <1>5
<1> QED
  BY <1>6

\* Induction, over a set.
LEMMA Inductive ==
  ASSUME NEW S, 0 \in S, \A n \in Nat : n \in S => n + 1 \in S
  PROVE  Nat \subseteq S
<1> SUFFICES ASSUME Nat \ S # {} PROVE FALSE
  OBVIOUS
<1>1. PICK x \in Nat \ S : \A y \in Nat \ S : x <= y
  BY LeastNumber
<1>2. x - 1 \in Nat /\ (x - 1) + 1 = x
  BY <1>1
<1> QED
  BY <1>1, <1>2

\* The rank of a number among those of a finite set.
LEMMA Ranks ==
  ASSUME NEW S \in SUBSET Nat, IsFiniteSet(S)
  PROVE  /\ Cardinality(S) \in Nat
         /\ \A c \in S : Rank(S, c) \in 1 .. Cardinality(S)
         /\ \A c, d \in S : c < d => Rank(S, c) < Rank(S, d)
<1>1. Cardinality(S) \in Nat
  BY FS_CardinalityType
<1>2. ASSUME NEW c \in S
      PROVE  /\ IsFiniteSet({d \in S : d <= c}) /\ Rank(S, c) \in 1 .. Cardinality(S)
  <2> DEFINE T == {d \in S : d <= c}
  <2>1. IsFiniteSet(T) /\ Cardinality(T) <= Cardinality(S)
    BY FS_Subset
  <2>2. Cardinality(T) \in Nat /\ (Cardinality(T) = 0 <=> T = {})
    BY <2>1, FS_CardinalityType, FS_EmptySet
  <2>3. c \in T
    OBVIOUS
  <2>4. Cardinality(T) # 0
    BY <2>2, <2>3
  <2> QED
    BY <1>1, <2>1, <2>2, <2>4 DEF Rank
<1>3. ASSUME NEW c \in S, NEW d \in S, c < d
      PROVE  Rank(S, c) < Rank(S, d)
  <2> DEFINE T == {e \in S : e <= c}
             U == {e \in S : e <= d}
  <2>1. IsFiniteSet(T) /\ IsFiniteSet(U)
    BY <1>2
  <2>2. T \in SUBSET U /\ d \in U /\ d \notin T
    <3>1. c \in Nat /\ d \in Nat /\ ~(d <= c) /\ d <= d
      BY <1>3
    <3>2. \A e \in S : e <= c => e <= d
      BY <1>3
    <3> QED
      BY <3>1, <3>2
  <2>3. Cardinality(T) <= Cardinality(U) /\ Cardinality(T) # Cardinality(U)
    BY <2>1, <2>2, FS_Subset
  <2>4. Cardinality(T) \in Nat /\ Cardinality(U) \in Nat
    BY <2>1, FS_CardinalityType
  <2> QED
    BY <2>3, <2>4 DEF Rank
<1> QED
  BY <1>1, <1>2, <1>3

\* A finite set of numbers in ascending order.
LEMMA Ascends ==
  ASSUME NEW S \in SUBSET Nat, IsFiniteSet(S)
  PROVE  /\ Cardinality(S) \in Nat
         /\ \A i \in 1 .. Cardinality(S) :
              Ascending(S)[i] \in S /\ Rank(S, Ascending(S)[i]) = i
         /\ \A c \in S : \E i \in 1 .. Cardinality(S) : Ascending(S)[i] = c
<1> DEFINE n == Cardinality(S)
           f == [c \in S |-> Rank(S, c)]
<1>1. /\ n \in Nat /\ \A c \in S : Rank(S, c) \in 1 .. n
      /\ \A c, d \in S : c < d => Rank(S, c) < Rank(S, d)
  BY Ranks
<1>2. \A c, d \in S : Rank(S, c) = Rank(S, d) => c = d
  <2> SUFFICES ASSUME NEW c \in S, NEW d \in S, Rank(S, c) = Rank(S, d) PROVE c = d
    OBVIOUS
  <2>1. c \in Nat /\ d \in Nat /\ Rank(S, c) \in Nat
    BY <1>1
  <2> QED
    BY <1>1, <2>1
<1>3. f \in Injection(S, 1 .. n)
  BY <1>1, <1>2 DEF Injection, IsInjective
<1>4. IsFiniteSet(1 .. n) /\ Cardinality(1 .. n) = n
  <2>1. 1 \in Int /\ n \in Int
    BY <1>1
  <2> QED
    BY <1>1, <2>1, FS_Interval
<1>5. f \in Surjection(S, 1 .. n)
  BY <1>3, <1>4, FS_Injection
<1>6. \A i \in 1 .. n : \E c \in S : Rank(S, c) = i
  BY <1>5 DEF Surjection
<1>7. \A i \in 1 .. n : Ascending(S)[i] \in S /\ Rank(S, Ascending(S)[i]) = i
  BY <1>6 DEF Ascending, Rank
<1>8. ASSUME NEW c \in S PROVE \E i \in 1 .. n : Ascending(S)[i] = c
  <2>1. Rank(S, c) \in 1 .. n
    BY <1>1
  <2>2. Ascending(S)[Rank(S, c)] = c
    BY <1>2, <1>7, <2>1
  <2> QED
    BY <2>1, <2>2
<1> QED
  BY <1>1, <1>7, <1>8

\* It rises, and comes to a number of the set not before its place.
LEMMA AscendsInOrder ==
  ASSUME NEW n \in Nat, NEW S \in SUBSET (1 .. n)
  PROVE  /\ Cardinality(S) \in Nat /\ DOMAIN Ascending(S) = 1 .. Cardinality(S)
         /\ Ascending(S) \in Seq(S) /\ Len(Ascending(S)) = Cardinality(S)
         /\ \A i \in 1 .. Cardinality(S) : Ascending(S)[i] \in S /\ i <= Ascending(S)[i]
         /\ \A i, j \in 1 .. Cardinality(S) : i < j => Ascending(S)[i] < Ascending(S)[j]
<1>1. IsFiniteSet(1 .. n) /\ \A m \in Nat : IsFiniteSet(1 .. m) /\ Cardinality(1 .. m) = m
  <2>1. \A m \in Nat : 1 \in Int /\ m \in Int
    OBVIOUS
  <2> QED
    BY <2>1, FS_Interval
<1>2. IsFiniteSet(S) /\ S \in SUBSET Nat
  <2>1. 1 .. n \subseteq Nat
    OBVIOUS
  <2> QED
    BY <1>1, <2>1, FS_Subset
<1>3. /\ Cardinality(S) \in Nat
      /\ \A i \in 1 .. Cardinality(S) : Ascending(S)[i] \in S /\ Rank(S, Ascending(S)[i]) = i
  BY <1>2, Ascends
<1>4. DOMAIN Ascending(S) = 1 .. Cardinality(S)
  BY DEF Ascending
<1>5. Ascending(S) \in [1 .. Cardinality(S) -> S]
  BY <1>3, <1>4 DEF Ascending
<1>6. Ascending(S) \in Seq(S) /\ Len(Ascending(S)) = Cardinality(S)
  BY <1>3, <1>5
<1>7. ASSUME NEW c \in S PROVE Rank(S, c) \in Nat /\ Rank(S, c) <= c
  <2> DEFINE T == {d \in S : d <= c}
  <2>1. c \in Nat /\ T \subseteq 1 .. c
    <3>1. \A d \in S : d \in 1 .. n
      OBVIOUS
    <3>2. c \in Nat
      BY <3>1
    <3>3. \A d \in T : d \in 1 .. n /\ d <= c
      BY <3>1
    <3>4. \A d \in T : d \in 1 .. c
      BY <3>2, <3>3
    <3> QED
      BY <3>2, <3>4
  <2>2. IsFiniteSet(T) /\ Cardinality(T) <= Cardinality(1 .. c)
    BY <1>1, <2>1, FS_Subset
  <2>3. Cardinality(T) \in Nat /\ Cardinality(1 .. c) = c
    BY <1>1, <2>1, <2>2, FS_CardinalityType
  <2> QED
    BY <2>2, <2>3 DEF Rank
<1>8. ASSUME NEW i \in 1 .. Cardinality(S), NEW j \in 1 .. Cardinality(S), i < j
      PROVE  Ascending(S)[i] < Ascending(S)[j]
  <2> DEFINE c == Ascending(S)[i]
             d == Ascending(S)[j]
  <2>1. c \in Nat /\ d \in Nat /\ Rank(S, c) = i /\ Rank(S, d) = j /\ c \in S /\ d \in S
    BY <1>2, <1>3
  <2>2. d < c => Rank(S, d) < Rank(S, c)
    BY <1>2, <2>1, Ranks
  <2>3. ~(d < c) /\ c # d
    BY <1>3, <1>8, <2>1, <2>2
  <2> QED
    BY <2>1, <2>3
<1>9. \A i \in 1 .. Cardinality(S) : i <= Ascending(S)[i]
  BY <1>3, <1>7
<1> QED
  BY <1>3, <1>4, <1>6, <1>8, <1>9

\* All of an interval is enumerated as it is.
LEMMA AscendsAll ==
  ASSUME NEW n \in Nat
  PROVE  Cardinality(1 .. n) = n /\ \A i \in 1 .. n : Ascending(1 .. n)[i] = i
<1>1. \A m \in Nat : IsFiniteSet(1 .. m) /\ Cardinality(1 .. m) = m
  <2>1. \A m \in Nat : 1 \in Int /\ m \in Int
    OBVIOUS
  <2> QED
    BY <2>1, FS_Interval
<1>2. ASSUME NEW c \in 1 .. n PROVE Rank(1 .. n, c) = c
  <2>1. {d \in 1 .. n : d <= c} = 1 .. c
    OBVIOUS
  <2>2. c \in Nat
    OBVIOUS
  <2> QED
    BY <1>1, <2>1, <2>2 DEF Rank
<1>3. 1 .. n \in SUBSET Nat
  OBVIOUS
<1>4. \A i \in 1 .. n : Ascending(1 .. n)[i] \in 1 .. n /\ Rank(1 .. n, Ascending(1 .. n)[i]) = i
  BY <1>1, <1>3, Ascends
<1> QED
  BY <1>1, <1>2, <1>4
=============================================================================
