----------------------------- MODULE Subsequences -----------------------------
(***************************************************************************)
(* Some elements of a sequence, in its order.  SelectSeq is given a         *)
(* predicate and defined by recursion; Subsequence is given the indices,    *)
(* which makes it a definition that facts can be proved about.              *)
(***************************************************************************)
EXTENDS Naturals, Sequences, FiniteSets

\* How many of the indices are before i.
Rank(I, i) == Cardinality({j \in I : j < i})

Nth(I, k) == CHOOSE i \in I : Rank(I, i) = k - 1

\* The elements of s at the indices I.
Subsequence(s, I) == [k \in 1 .. Cardinality(I) |-> s[Nth(I, k)]]
=============================================================================
