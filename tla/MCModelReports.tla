--------------------------- MODULE MCModelReports ---------------------------
(* An instance of ModelReports for TLC: a vendor that lists more than the   *)
(* limit, a relay with two models, and a provider without an API key; and   *)
(* two categories, one of which feeds two fields.                           *)
EXTENDS ModelReports, TLC

Listings == [p \in Providers |-> CASE p = "vendor" -> <<"v1", "v2">>
                                   [] p = "relay" -> <<"r1", "r2">>
                                   [] OTHER -> <<>>]
Lists == {{}, {"r1"}}
Feeds == [k \in Categories |-> IF k = "text" THEN {"text", "math"} ELSE {k}]
Symmetry == Permutations(Callers)
=============================================================================
