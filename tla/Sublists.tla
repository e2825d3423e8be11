------------------------------ MODULE Sublists ------------------------------
(* The elements of a sequence at some of its positions, in their order: what *)
(* SelectSeq gives for a test, for a set of positions.                       *)
EXTENDS Naturals, FiniteSets

(* The n-th smallest of P. *)
Place(P, n) == CHOOSE p \in P : Cardinality({q \in P : q <= p}) = n

Sublist(s, P) == [n \in 1 .. Cardinality(P) |-> s[Place(P, n)]]
=============================================================================
