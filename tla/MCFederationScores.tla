------------------------- MODULE MCFederationScores -------------------------
(* Instances of FederationScores for TLC: a class that is reported on until *)
(* marks can overtake each other, and one that is bumped once.              *)
EXTENDS FederationScores, TLC

Reports == [c \in Classes |-> IF c \in Unroutable THEN 2 ELSE 4]
=============================================================================
