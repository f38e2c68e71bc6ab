------------------------------ MODULE StableSort ------------------------------
(***************************************************************************)
(* sort.SliceStable of the Go library, as its callers rely on it: the      *)
(* elements in the order of less, and equals in the order they had.  less  *)
(* is the set of the pairs <<i, j>> of positions for which the code's      *)
(* less function holds; it has to be a strict weak order.                  *)
(***************************************************************************)
EXTENDS Integers, Sequences, FiniteSets

\* The element at i ends up in front of the one at j.
InFront(less, i, j) == <<i, j>> \in less \/ (i < j /\ <<j, i>> \notin less)

\* Where the element at i of n ends up.
Place(less, n, i) == Cardinality({j \in 1..n : InFront(less, j, i)}) + 1

StableSort(s, less) ==
  [p \in 1..Len(s) |-> s[CHOOSE i \in 1..Len(s) : Place(less, Len(s), i) = p]]

StrictWeakOrder(less, n) ==
  /\ \A i, j \in 1..n : <<i, j>> \in less => <<j, i>> \notin less
  /\ \A i, j, k \in 1..n : <<i, j>> \in less => <<i, k>> \in less \/ <<k, j>> \in less
=============================================================================
