------------------------------ MODULE Positions ------------------------------
(***************************************************************************)
(* Parts of a sequence that are named by their positions: what a filter    *)
(* keeps, in the order in which it finds it.                               *)
(***************************************************************************)
EXTENDS Integers, FiniteSets

(* The positions in the finite set P, in ascending order.                  *)
InOrder(P) ==
  [k \in 1..Cardinality(P) |-> CHOOSE i \in P : Cardinality({j \in P : j <= i}) = k]

(* The elements of s at the positions in P, in the order of s.             *)
Select(s, P) == [k \in 1..Cardinality(P) |-> s[InOrder(P)[k]]]
=============================================================================
