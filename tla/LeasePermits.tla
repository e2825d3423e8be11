---------------------------- MODULE LeasePermits ----------------------------
(***************************************************************************)
(* What the federation server promises about leases, abstractly: at most   *)
(* Threshold calls at a time are told to run the model they proposed, and  *)
(* a lease that was given back, or that ran out, is not granted again.     *)
(***************************************************************************)
EXTENDS Naturals, FiniteSets

CONSTANTS Ids, Models, Threshold

VARIABLES
  permits,  \* permits[m]: the calls that may run m
  granted   \* the calls that have had a permit

Init == permits = [m \in Models |-> {}] /\ granted = {}

Take(m, i) ==
  /\ i \in Ids \ granted /\ Cardinality(permits[m]) < Threshold
  /\ permits' = [permits EXCEPT ![m] = @ \cup {i}]
  /\ granted' = granted \cup {i}

GiveBack(gone) ==
  /\ permits' = [m \in Models |-> permits[m] \ gone]
  /\ UNCHANGED granted

(* A call without a permit is over, and another may get its name. *)
Forget(i) ==
  /\ i \in granted /\ \A m \in Models : i \notin permits[m]
  /\ granted' = granted \ {i}
  /\ UNCHANGED permits

Next ==
  \/ \E m \in Models, i \in Ids : Take(m, i)
  \/ \E i \in Ids : Forget(i)
  \/ \E gone \in SUBSET Ids : GiveBack(gone)

Spec == Init /\ [][Next]_<<permits, granted>>
=============================================================================
