------------------------------ MODULE Selection ------------------------------
(***************************************************************************)
(* The elements of a sequence at some of its positions, in their order: a  *)
(* SelectSeq of which the provers can say what it returns.                 *)
(***************************************************************************)
EXTENDS Naturals, Sequences, FiniteSets

\* The k-th of a finite set of positions.
Nth(positions, k) ==
  CHOOSE i \in positions : Cardinality({j \in positions : j < i}) = k - 1

\* A finite set of positions in ascending order.
Ascending(positions) ==
  [k \in 1 .. Cardinality(positions) |-> Nth(positions, k)]

Select(s, positions) ==
  [k \in 1 .. Cardinality(positions) |-> s[Nth(positions, k)]]
=============================================================================
