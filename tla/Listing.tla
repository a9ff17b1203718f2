------------------------------ MODULE Listing ------------------------------
(***************************************************************************)
(* Sorted lists, as sorted() and ORDER BY return them, and lists of what a *)
(* filter keeps.                                                           *)
(***************************************************************************)
EXTENDS Naturals, Sequences, FiniteSets

\* The place of each element of S in the order R, a set of pairs.
Places(S, R) == [x \in S |-> 1 + Cardinality({y \in S : <<y, x>> \in R})]

\* SelectSeq, with the places to keep as a set.
Kept(seq, places) ==
  LET f[i \in 0 .. Len(seq)] ==
        IF i = 0 THEN << >>
        ELSE IF i \in places THEN Append(f[i - 1], seq[i]) ELSE f[i - 1]
  IN f[Len(seq)]

InOrder(S, R) == [n \in 1 .. Cardinality(S) |-> CHOOSE x \in S : Places(S, R)[x] = n]
=============================================================================
