---------------------------- MODULE Enumeration ----------------------------
(***************************************************************************)
(* A finite set of numbers as a sequence. It is defined by rank and not    *)
(* with SelectSeq, so that the provers can reason about it.                *)
(***************************************************************************)
EXTENDS Naturals, Sequences, FiniteSets

Rank(S, c) == Cardinality({d \in S : d <= c})
Ascending(S) == [i \in 1 .. Cardinality(S) |-> CHOOSE c \in S : Rank(S, c) = i]
=============================================================================
