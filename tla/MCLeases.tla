------------------------------ MODULE MCLeases ------------------------------
(* Instances of Leases for TLC: proposals of "busy" may be redirected,      *)
(* those of "spare" have no alternative.                                    *)
EXTENDS Leases, TLC

FirstAlternatives == [m \in Models |-> {"spare"}]
=============================================================================
