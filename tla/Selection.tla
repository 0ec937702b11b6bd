----------------------------- MODULE Selection -----------------------------
(***************************************************************************)
(* Picking elements of a sequence in their order, by rank: what a loop over *)
(* a slice that skips some of it hands on.                                 *)
(***************************************************************************)
EXTENDS Naturals, Sequences, FiniteSets

\* How many members of a set of numbers are not above i.
Rank(S, i) == Cardinality({j \in S : j <= i})

\* The k-th smallest number of a set.
Nth(S, k) == CHOOSE i \in S : Rank(S, i) = k

\* The elements of s at the positions in keep.
Select(s, keep) == [k \in 1..Cardinality(keep) |-> s[Nth(keep, k)]]
=============================================================================
