---------------------------- MODULE EventLedger ----------------------------
(***************************************************************************)
(* What the feedback log promises of one execution, identified by the      *)
(* request and the model that served it: each kind of outcome is taken at  *)
(* most once, is settled once, either by all of its effects or by their    *)
(* loss, and a rating is taken only after a success.                       *)
(***************************************************************************)
CONSTANTS Executions, ExecKinds, QualityKinds, Success

VARIABLE ledger   \* the fate of each execution's kinds of outcome

Kinds == ExecKinds \cup QualityKinds

Init == ledger = [e \in Executions |-> [k \in Kinds |-> "absent"]]

(* The outcome's fate moves on; all the others stay what they are. *)
Move(e, k, from, to) ==
  /\ ledger[e][k] = from
  /\ ledger' = [ledger EXCEPT ![e][k] = to]

TakeExecution(e, k) == k \in ExecKinds /\ Move(e, k, "absent", "taken")

TakeRating(e, k) ==
  /\ k \in QualityKinds
  /\ ledger[e][Success] # "absent"
  /\ Move(e, k, "absent", "taken")

Settle(e, k) == \E fate \in {"applied", "lost"} : Move(e, k, "taken", fate)

Next == \E e \in Executions, k \in Kinds :
          TakeExecution(e, k) \/ TakeRating(e, k) \/ Settle(e, k)

Spec == Init /\ [][Next]_ledger
=============================================================================
