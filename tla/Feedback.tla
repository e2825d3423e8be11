------------------------------ MODULE Feedback ------------------------------
(***************************************************************************)
(* The engine's feedback pipeline (router_engine/engine.py): every outcome *)
(* of an execution is recorded in the table feedback_events, whose UNIQUE  *)
(* key (request, model, kind) drops duplicates, and the report that was    *)
(* recorded first then applies the outcome's effects one await at a time.  *)
(*                                                                         *)
(* An Execution stands for a (request_id, model_id) pair.  A report is a   *)
(* coroutine; between two of its awaits any other report may run, and it   *)
(* may die: the process stops, or a storage call raises (SQLite locked).   *)
(* `applied' counts how often each effect of each outcome has happened;    *)
(* what the effects do is the subject of the modules about the components  *)
(* they call (Availability for "health").                                  *)
(***************************************************************************)
EXTENDS Naturals

CONSTANTS
  Executions,  \* (request_id, model_id) pairs
  Anonymous,   \* those whose request_id is None
  Reviewed,    \* those whose reports carry a record_id
  Handlers     \* slots for reports that are being handled at once

ASSUME SomeExecutions == Anonymous \subseteq Executions /\ Reviewed \subseteq Executions

VARIABLES
  events,   \* feedback_events: the kinds recorded for each execution
  applied,  \* history: how often each effect of each outcome happened
  task,     \* the report each handler slot is working on
  lost      \* history: recorded outcomes whose report died half way

vars == <<events, applied, task, lost>>

-----------------------------------------------------------------------------
ExecKinds == {"exec_success", "exec_fail"}
QualityKinds == {"quality_good", "quality_poor"}
Kinds == ExecKinds \cup QualityKinds

(* The awaits after the recording, in the order the code makes them:       *)
(* analysis record, health manager, class pool, success log, downgrade     *)
(* trial, its end or start, and the log entry about that.                  *)
Effects == {"review", "health", "pool", "log", "trial", "turn", "note"}

(* The effects every report of the kind has; a turn of the trial and its   *)
(* log entry happen only when the trial says so.                           *)
Due(e, k) ==
  (IF e \in Reviewed THEN {"review"} ELSE {}) \cup
  (IF k = "exec_success" THEN {"health"} ELSE {"health", "pool", "log", "trial"})

First(e) == IF e \in Reviewed THEN "review" ELSE "health"

(* Mutants of After: the log written after the trial was judged; a return  *)
(* that is not under `if completed'.                                       *)
AfterLogLast(k, s) ==
  CASE s = "review" -> {"health"}
    [] s = "health" -> IF k = "exec_success" THEN {"idle"} ELSE {"pool"}
    [] s = "pool"   -> {"trial"}
    [] s = "log"    -> {"idle"}
    [] s = "trial"  -> {"turn", "log"}
    [] s = "turn"   -> IF k = "quality_good" THEN {"note", "idle"} ELSE {"note"}
    [] OTHER        -> {"idle"}

AfterReturnsEarly(k, s) ==
  CASE s = "review" -> {"health"}
    [] s = "health" -> {"idle"}
    [] s = "pool"   -> {"log"}
    [] s = "log"    -> {"trial"}
    [] s = "trial"  -> {"turn", "idle"}
    [] s = "turn"   -> IF k = "quality_good" THEN {"note", "idle"} ELSE {"note"}
    [] OTHER        -> {"idle"}

(* Where a report may go on after an effect; "idle" is its return.         *)
After(k, s) ==
  CASE s = "review" -> {"health"}
    [] s = "health" -> IF k = "exec_success" THEN {"idle"} ELSE {"pool"}
    [] s = "pool"   -> {"log"}
    [] s = "log"    -> {"trial"}
    [] s = "trial"  -> {"turn", "idle"}
    [] s = "turn"   -> IF k = "quality_good" THEN {"note", "idle"} ELSE {"note"}
    [] OTHER        -> {"idle"}

Idle == [pc |-> "idle"]
Task == [pc : {"record"} \cup Effects, exec : Executions, kind : Kinds]

Step(pc, e, k) ==
  IF pc = "idle" THEN Idle ELSE [pc |-> pc, exec |-> e, kind |-> k]

TypeOK ==
  /\ events \in [Executions -> SUBSET Kinds]
  /\ applied \in [Executions -> [Kinds -> [Effects -> Nat]]]
  /\ task \in [Handlers -> {Idle} \cup Task]
  /\ lost \in [Executions -> SUBSET Kinds]

Init ==
  /\ events = [e \in Executions |-> {}]
  /\ applied = [e \in Executions |-> [k \in Kinds |-> [s \in Effects |-> 0]]]
  /\ task = [h \in Handlers |-> Idle]
  /\ lost = [e \in Executions |-> {}]

-----------------------------------------------------------------------------
(* INSERT OR IGNORE: a row that is there, or a NULL in a NOT NULL column,  *)
(* leaves the table alone and reports that nothing is new.                 *)
IsNew(e, k) == k \notin events[e] /\ e \notin Anonymous

TryRecord(h, e, k) ==
  IF IsNew(e, k)
  THEN /\ events' = [events EXCEPT ![e] = @ \cup {k}]
       /\ task' = [task EXCEPT ![h] = Step(First(e), e, k)]
  ELSE /\ UNCHANGED events
       /\ task' = [task EXCEPT ![h] = Idle]

(* report_execution_async up to its first await. *)
ReportExecution(h, e, k) ==
  /\ task[h] = Idle
  /\ TryRecord(h, e, k)
  /\ UNCHANGED <<applied, lost>>

(* Mutant: a rating needs no success before it. *)
ReportQualityUnchecked(h, e, k) ==
  /\ task[h] = Idle
  /\ "exec_fail" \notin events[e]
  /\ task' = [task EXCEPT ![h] = Step("record", e, k)]
  /\ UNCHANGED <<events, applied, lost>>

(* report_quality_async reads the execution's events, and returns unless   *)
(* they hold a success and no failure ...                                  *)
ReportQuality(h, e, k) ==
  /\ task[h] = Idle
  /\ "exec_fail" \notin events[e]
  /\ "exec_success" \in events[e]
  /\ task' = [task EXCEPT ![h] = Step("record", e, k)]
  /\ UNCHANGED <<events, applied, lost>>

(* ... and records the rating in a transaction of its own.                 *)
RecordQuality(h) ==
  /\ task[h].pc = "record"
  /\ TryRecord(h, task[h].exec, task[h].kind)
  /\ UNCHANGED <<applied, lost>>

(* One effect of a recorded outcome. *)
Apply(h) ==
  /\ task[h].pc \in Effects
  /\ LET e == task[h].exec
         k == task[h].kind
         s == task[h].pc
     IN /\ applied' = [applied EXCEPT ![e][k][s] = @ + 1]
        /\ \E next \in After(k, s) :
             task' = [task EXCEPT ![h] = Step(next, e, k)]
  /\ UNCHANGED <<events, lost>>

(* The report dies before its next await. *)
Die(h) ==
  /\ task[h] # Idle
  /\ task' = [task EXCEPT ![h] = Idle]
  /\ lost' = IF task[h].pc = "record" THEN lost
             ELSE [lost EXCEPT ![task[h].exec] = @ \cup {task[h].kind}]
  /\ UNCHANGED <<events, applied>>

Next ==
  \E h \in Handlers :
    \/ \E e \in Executions :
         \/ \E k \in ExecKinds : ReportExecution(h, e, k)
         \/ \E k \in QualityKinds : ReportQuality(h, e, k)
    \/ RecordQuality(h)
    \/ Apply(h)
    \/ Die(h)

Spec == Init /\ [][Next]_vars

(* A coroutine that was started is run by its event loop; nothing makes a  *)
(* client report an outcome.                                               *)
FairSpec ==
  /\ Spec
  /\ \A h \in Handlers : WF_vars(RecordQuality(h) \/ Apply(h))

-----------------------------------------------------------------------------
Complete(e, k) == \A s \in Due(e, k) : applied[e][k][s] > 0

(* However often an outcome is reported, by whichever reports at once, no  *)
(* counter behind the pipeline moves twice for it.                         *)
AtMostOnce ==
  \A e \in Executions, k \in Kinds, s \in Effects : applied[e][k][s] <= 1

(* What the trial and the log say about an outcome has the health and pool *)
(* updates of the same outcome behind it: record_downgrade_result reads    *)
(* the statistics that on_quality_* wrote.                                 *)
EffectsInOrder ==
  \A e \in Executions, k \in Kinds :
    /\ applied[e][k]["trial"] > 0 => Complete(e, k)
    /\ applied[e][k]["note"] > 0 => applied[e][k]["turn"] > 0
    /\ applied[e][k]["turn"] > 0 => applied[e][k]["trial"] > 0
    /\ applied[e][k]["pool"] > 0 => applied[e][k]["health"] > 0

(* A rating has effects only for an execution that succeeded. *)
RatedOnlyAfterSuccess ==
  \A e \in Executions, k \in QualityKinds :
    (\E s \in Effects : applied[e][k][s] > 0) => {"exec_success", k} \subseteq events[e]

(* An outcome that was recorded has all its effects, or a report is still  *)
(* at work on it, or its report died: the events table and the statistics  *)
(* part in no other way.                                                   *)
OnlyDeathLoses ==
  \A e \in Executions : \A k \in events[e] :
    \/ Complete(e, k)
    \/ k \in lost[e]
    \/ \E h \in Handlers : task[h] \in Task /\ task[h].exec = e /\ task[h].kind = k

(* The row comes before the effects, so a retry after a death is dropped   *)
(* as a duplicate: what the dead report left undone stays undone.          *)
RetryDoesNotRepair ==
  [][\A e \in Executions : \A k \in lost[e] : applied'[e][k] = applied[e][k]]_vars

(* A recorded outcome whose report does not die takes effect in the end. *)
RecordedTakesEffect ==
  \A e \in Executions, k \in Kinds :
    k \in events[e] ~> (Complete(e, k) \/ k \in lost[e])

-----------------------------------------------------------------------------
(* The fate of an outcome, as the ledger tells it. *)
Fate(e, k) ==
  IF k \notin events[e] THEN "absent"
  ELSE IF Complete(e, k) THEN "applied"
  ELSE IF k \in lost[e] THEN "lost"
  ELSE "taken"

LedgerView == [e \in Executions |-> [k \in Kinds |-> Fate(e, k)]]

Ledger == INSTANCE EventLedger WITH
  Success <- "exec_success", ledger <- LedgerView

(* The pipeline keeps the promise of the ledger. *)
KeepsLedger == Ledger!Spec
=============================================================================
