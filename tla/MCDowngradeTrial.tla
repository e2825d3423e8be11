-------------------------- MODULE MCDowngradeTrial --------------------------
(* Instances of DowngradeTrial for TLC: three models with three prices. *)
EXTENDS DowngradeTrial, TLC

CONSTANTS cheap, mid, dear

PriceList == [m \in Models |-> CASE m = dear -> 3 [] m = mid -> 2 [] OTHER -> 1]

Symmetry == Permutations(Handlers)
=============================================================================
