------------------------ MODULE DowngradeTrialProofs ------------------------
(***************************************************************************)
(* Downgrade trials for any models, prices, domains, thresholds and number *)
(* of concurrent reports: types, failed trials on their way out, a trial's *)
(* row belonging to it; and, for reports that come one at a time, the two  *)
(* properties that concurrent reports break.                               *)
(***************************************************************************)
EXTENDS DowngradeTrial, TLAPS

(* TypeOK lets `peer' be missing; from the selection to the start of a     *)
(* trial it is a model, or a row without a challenger could be inserted.   *)
Selected ==
  \A h \in Handlers :
    task[h].pc \in {"default", "cooldown", "start"} => task[h].peer \in Models

(* The row that a report is about to count on is active, unless it was     *)
(* closed after the report had read it.                                    *)
Counting ==
  \A h \in Handlers :
    (task[h].pc = "count" /\ stale[h] = NoTrial) => Active(task[h].domain)

IInv == TypeOK /\ Selected /\ Counting

-----------------------------------------------------------------------------
(* A slot that is at some step holds a report. *)
LEMMA Busy ==
  ASSUME TypeOK, NEW h \in Handlers, task[h].pc # "idle"
  PROVE  task[h] \in Task
BY DEF TypeOK, Idle

(* A report stays a report when it moves to another step. *)
LEMMA Moved ==
  ASSUME NEW t \in Task, NEW pc \in Steps
  PROVE  [t EXCEPT !.pc = pc] \in Task
BY Zenon DEF Task

(* Writing one slot keeps the types of all and touches no other. *)
LEMMA SlotWritten ==
  ASSUME TypeOK, NEW h \in Handlers, NEW t \in {Idle} \cup Task,
         task' = [task EXCEPT ![h] = t]
  PROVE  /\ task' \in [Handlers -> {Idle} \cup Task]
         /\ task'[h] = t
         /\ \A g \in Handlers \ {h} : task'[g] = task[g]
BY Zenon DEF TypeOK

(* Moving to another step writes a report again. *)
LEMMA GotoWrites ==
  ASSUME TypeOK, NEW h \in Handlers, task[h].pc # "idle",
         NEW pc \in Steps, Goto(h, pc)
  PROVE  /\ task' = [task EXCEPT ![h] = [task[h] EXCEPT !.pc = pc]]
         /\ [task[h] EXCEPT !.pc = pc] \in Task
<1>1. task[h] \in Task
  BY Busy
<1>2. [task[h] EXCEPT !.pc = pc] \in Task
  BY <1>1, Moved
<1> QED
  BY <1>2 DEF Goto

(* Going on after "continue": done, or on to the question of a new trial. *)
LEMMA ContinueWrites ==
  ASSUME NEW h \in Handlers, NEW t \in Task, Continue(h, t)
  PROVE  \E u \in {Idle} \cup Task :
           /\ task' = [task EXCEPT ![h] = u]
           /\ u = Idle \/ u = [t EXCEPT !.pc = "active"]
<1>1. [t EXCEPT !.pc = "active"] \in Task
  BY Moved, Zenon DEF Steps
<1> QED
  BY <1>1, Zenon DEF Continue

(* What Judge may write: the report goes on, is done, or promotes.         *)
LEMMA JudgeWrites ==
  ASSUME NEW h \in Handlers, task[h] \in Task, NEW current, Judge(h, current)
  PROVE  \E u \in {Idle} \cup Task :
           /\ task' = [task EXCEPT ![h] = u]
           /\ \/ u = Idle
              \/ u = [task[h] EXCEPT !.pc = "active"]
              \/ u = [task[h] EXCEPT !.pc = "finish", !.result = "promoted"]
<1>1. [task[h] EXCEPT !.pc = "finish", !.result = "promoted"] \in Task
  BY Zenon DEF Task, Steps, Results
<1>2. CASE Continue(h, task[h])
  BY <1>2, ContinueWrites
<1>3. CASE task' = [task EXCEPT ![h] =
             IF task[h].outcome = "quality_good"
             THEN [task[h] EXCEPT !.pc = "finish", !.result = "promoted"] ELSE Idle]
  BY <1>1, <1>3, Zenon
<1> QED
  BY <1>2, <1>3 DEF Judge

-----------------------------------------------------------------------------
(* A counted outcome keeps the trial's identity, only counts up, and fails *)
(* a trial only for an outcome that is a failure.                          *)
LEMMA CountedCounts ==
  ASSUME NEW t \in Trial, NEW outcome \in Outcomes
  PROVE  /\ Counted(t, outcome) \in Trial
         /\ Counted(t, outcome).challenger = t.challenger
         /\ Counted(t, outcome).incumbent = t.incumbent
         /\ Counted(t, outcome).sampled_requests >= t.sampled_requests
         /\ Counted(t, outcome).quality_fail >= t.quality_fail
         /\ Counted(t, outcome).exec_fail >= t.exec_fail
         /\ outcome = "quality_good" =>
              /\ Counted(t, outcome).quality_fail = t.quality_fail
              /\ Counted(t, outcome).exec_fail = t.exec_fail
<1> DEFINE s == UpTo(MinSamples, t.sampled_requests)
           q == IF outcome = "quality_fail" THEN UpTo(QualityFailLimit, t.quality_fail)
                ELSE t.quality_fail
           x == IF outcome = "exec_fail" THEN UpTo(ExecFailLimit, t.exec_fail)
                ELSE t.exec_fail
           row == [t EXCEPT !.sampled_requests = s, !.quality_fail = q, !.exec_fail = x]
<1>1. /\ t.sampled_requests \in 0 .. MinSamples
      /\ t.quality_fail \in 0 .. QualityFailLimit
      /\ t.exec_fail \in 0 .. ExecFailLimit
  BY DEF Trial
<1>2. /\ s \in 0 .. MinSamples /\ s >= t.sampled_requests
      /\ q \in 0 .. QualityFailLimit /\ q >= t.quality_fail
      /\ x \in 0 .. ExecFailLimit /\ x >= t.exec_fail
  BY <1>1, LimitsArePositive DEF UpTo
<1>3. outcome = "quality_good" => q = t.quality_fail /\ x = t.exec_fail
  BY DEF Outcomes
<1> HIDE DEF s, q, x
<1>4. row \in Trial
  BY <1>2, Zenon DEF Trial
<1>5. /\ row.challenger = t.challenger /\ row.incumbent = t.incumbent
      /\ row.sampled_requests = s /\ row.quality_fail = q /\ row.exec_fail = x
  BY DEF Trial
<1> HIDE DEF row
<1>6. Counted(t, outcome) = row
  BY Zenon DEF Counted, row, s, q, x
<1> QED
  BY <1>2, <1>3, <1>4, <1>5, <1>6

(* The report that an observation starts with is a report. *)
LEMMA Arrives ==
  ASSUME NEW d \in Domains, NEW m \in Models, NEW outcome \in Outcomes
  PROVE  [pc |-> "active", domain |-> d, model |-> m, outcome |-> outcome,
          peer |-> None, seen |-> None, result |-> "rolled_back"] \in Task
BY Zenon DEF Task, Steps, Results

(* A report that is about to start a trial has its challenger, one that    *)
(* just came to that point found it out of its cooldown, one that judged a *)
(* trial comes to close it as promoted, and none comes back to count.      *)
Sound(u) ==
  /\ u.pc # "count"
  /\ u.pc \in {"default", "cooldown", "start"} => u.peer \in Models
  /\ u.pc = "finish" => u.result = "promoted"
  /\ u.pc = "start" => <<u.domain, u.peer>> \notin cooling

Written(h) ==
  \E u \in {Idle} \cup Task : task' = [task EXCEPT ![h] = u] /\ Sound(u)

(* Each await of a report but the count writes its slot soundly. *)
LEMMA AdvanceWrites ==
  ASSUME IInv, NEW h \in Handlers, Advance(h), ~Count(h)
  PROVE  Written(h)
<1> USE DEF IInv
<1>1. task[h].pc # "idle" /\ task[h] \in Task
  BY Busy DEF Advance, ReadStats, ReadDefault, Promote, ReadBack, Finish,
     LookForActive, Select, CheckDefault, ClearDefault, CheckCooldown, Start
<1>2. ASSUME NEW pc \in Steps
      PROVE  /\ [task[h] EXCEPT !.pc = pc].pc = pc
             /\ [task[h] EXCEPT !.pc = pc].peer = task[h].peer
             /\ [task[h] EXCEPT !.pc = pc].domain = task[h].domain
  BY <1>1 DEF Task
<1>3. {"evaluate", "promote", "readback", "finish", "active", "select",
       "default", "clear", "cooldown", "start"} \subseteq Steps
  BY DEF Steps
<1>4. /\ Sound(Idle)
      /\ \A pc \in {"evaluate", "readback", "active", "select"} :
           Sound([task[h] EXCEPT !.pc = pc])
  BY <1>2, <1>3 DEF Sound, Idle
<1>5. ASSUME Continue(h, task[h]) \/ Return(h) PROVE Written(h)
  <2>1. CASE Continue(h, task[h])
    BY <1>1, <1>4, <2>1, ContinueWrites DEF Written
  <2>2. CASE Return(h)
    BY <1>4, <2>2, Zenon DEF Return, Written
  <2> QED
    BY <1>5, <2>1, <2>2
<1>6. ASSUME NEW pc \in Steps, Goto(h, pc), Sound([task[h] EXCEPT !.pc = pc])
      PROVE  Written(h)
  BY <1>1, <1>6, GotoWrites, Zenon DEF Written
<1>7. ASSUME NEW pc \in {"evaluate", "readback", "select"}, Goto(h, pc)
      PROVE  Written(h)
  BY <1>3, <1>4, <1>6, <1>7
<1>8. ASSUME NEW current, Judge(h, current) PROVE Written(h)
  <2>1. Sound([task[h] EXCEPT !.pc = "finish", !.result = "promoted"])
    BY <1>1 DEF Sound, Task
  <2> QED
    BY <1>1, <1>4, <1>8, <2>1, JudgeWrites DEF Written
<1>9. CASE ReadStats(h)
  BY <1>5, <1>7, <1>9 DEF ReadStats
<1>10. CASE ReadDefault(h)
  <2> DEFINE u == [task[h] EXCEPT !.pc = "promote", !.seen = default]
  <2>1. task' = [task EXCEPT ![h] = u]
    BY <1>10, Zenon DEF ReadDefault, TypeOK
  <2>2. u \in Task
    BY <1>1, <1>3, Zenon DEF Task, TypeOK
  <2>3. Sound(u)
    BY <1>1 DEF Sound, Task
  <2> QED
    BY <2>1, <2>2, <2>3 DEF Written
<1>11. CASE Promote(h)
  BY <1>7, <1>8, <1>11 DEF Promote
<1>12. CASE ReadBack(h)
  BY <1>8, <1>12 DEF ReadBack
<1>13. CASE Finish(h)
  BY <1>5, <1>13 DEF Finish
<1>14. CASE LookForActive(h)
  BY <1>5, <1>7, <1>14 DEF LookForActive
<1>15. CASE Select(h)
  <2>1. CASE Return(h)
    BY <1>5, <2>1
  <2>2. ASSUME NEW c \in Cheaper(task[h].model),
               task' = [task EXCEPT ![h].pc = "default", ![h].peer = c]
        PROVE  Written(h)
    <3> DEFINE u == [task[h] EXCEPT !.pc = "default", !.peer = c]
    <3>1. task' = [task EXCEPT ![h] = u]
      BY <2>2, Zenon DEF TypeOK
    <3>2. c \in Models
      BY <2>2 DEF Cheaper
    <3>3. u \in Task
      BY <1>1, <1>3, <3>2, Zenon DEF Task
    <3>4. Sound(u)
      BY <1>1, <3>2 DEF Sound, Task
    <3> QED
      BY <3>1, <3>3, <3>4 DEF Written
  <2> QED
    BY <1>15, <2>1, <2>2 DEF Select
<1>16. CASE CheckDefault(h)
  <2>1. task[h].peer \in Models
    BY <1>16 DEF CheckDefault, Selected
  <2>2. Sound([task[h] EXCEPT !.pc = "cooldown"]) /\ Sound([task[h] EXCEPT !.pc = "clear"])
    BY <1>2, <1>3, <2>1 DEF Sound
  <2> QED
    BY <1>3, <1>5, <1>6, <1>16, <2>2 DEF CheckDefault
<1>17. CASE CheckCooldown(h)
  <2>1. task[h].peer \in Models
    BY <1>17 DEF CheckCooldown, Selected
  <2>2. <<task[h].domain, task[h].peer>> \notin cooling
          => Sound([task[h] EXCEPT !.pc = "start"])
    BY <1>2, <1>3, <2>1 DEF Sound
  <2> QED
    BY <1>3, <1>5, <1>6, <1>17, <2>2 DEF CheckCooldown
<1>18. CASE Start(h)
  BY <1>5, <1>18 DEF Start
<1>19. CASE ClearDefault(h)
  BY <1>5, <1>19 DEF ClearDefault
<1> QED
  BY <1>9, <1>10, <1>11, <1>12, <1>13, <1>14, <1>15, <1>16, <1>17, <1>18, <1>19 DEF Advance

(* A trial is judged "rollback" exactly when it failed. *)
LEMMA VerdictIsFailure ==
  ASSUME NEW t \in Trial
  PROVE  /\ Verdict(t) = "rollback" => Failed(t)
         /\ Failed(t) => Verdict(t) = "rollback"
BY DEF Verdict, Failed

(* What a report does about a verdict: it comes to close the trial exactly *)
(* when the row it judges has failed and its own outcome is a failure.     *)
LEMMA ActOnWrites ==
  ASSUME NEW h \in Handlers, NEW t \in Task, NEW row \in Trial, ActOn(h, t, row)
  PROVE  \E u \in {Idle} \cup Task :
           /\ task' = [task EXCEPT ![h] = u]
           /\ u.pc \in {"idle", "active", "stats", "finish"}
           /\ u.pc = "finish" => Failed(row) /\ u.domain = t.domain
           /\ (Failed(row) /\ t.outcome # "quality_good") =>
                u.pc = "finish" /\ u.domain = t.domain /\ u.result = "rolled_back"
<1> DEFINE Outcome(u) ==
             /\ task' = [task EXCEPT ![h] = u]
             /\ u.pc \in {"idle", "active", "stats", "finish"}
             /\ u.pc = "finish" => Failed(row) /\ u.domain = t.domain
             /\ (Failed(row) /\ t.outcome # "quality_good") =>
                  u.pc = "finish" /\ u.domain = t.domain /\ u.result = "rolled_back"
<1>1. /\ Verdict(row) \in {"rollback", "continue", "judge"}
      /\ Verdict(row) = "rollback" <=> Failed(row)
  BY VerdictIsFailure DEF Verdict
<1>2. CASE Verdict(row) = "continue"
  <2>1. Continue(h, t)
    BY <1>2, Zenon DEF ActOn
  <2>2. PICK u \in {Idle} \cup Task :
          task' = [task EXCEPT ![h] = u] /\ (u = Idle \/ u = [t EXCEPT !.pc = "active"])
    BY <2>1, ContinueWrites
  <2>3. u.pc \in {"idle", "active"}
    BY <2>2 DEF Idle, Task
  <2>4. Outcome(u)
    BY <1>1, <1>2, <2>2, <2>3
  <2> QED
    BY <2>4
<1>3. CASE Verdict(row) = "judge"
  <2> DEFINE u == [t EXCEPT !.pc = "stats", !.peer = row.challenger]
  <2>1. task' = [task EXCEPT ![h] = u]
    BY <1>3, Zenon DEF ActOn
  <2>2. row.challenger \in Models
    BY DEF Trial
  <2>3. u \in Task
    BY <2>2, Zenon DEF Task, Steps
  <2>4. u.pc = "stats"
    BY DEF Task
  <2> HIDE DEF u
  <2>5. Outcome(u)
    BY <1>1, <1>3, <2>1, <2>4
  <2> QED
    BY <2>3, <2>5
<1>4. CASE Verdict(row) = "rollback"
  <2> DEFINE u == [t EXCEPT !.pc = "finish", !.result = "rolled_back"]
  <2>1. task' = [task EXCEPT ![h] = IF t.outcome = "quality_good" THEN Idle ELSE u]
    BY <1>4, Zenon DEF ActOn
  <2>2. u \in Task
    BY Zenon DEF Task, Steps, Results
  <2>3. u.pc = "finish" /\ u.domain = t.domain /\ u.result = "rolled_back"
    BY DEF Task
  <2>4. Idle.pc = "idle"
    BY DEF Idle
  <2> HIDE DEF u
  <2>5. CASE t.outcome = "quality_good"
    <3>1. Outcome(Idle)
      BY <2>1, <2>4, <2>5
    <3> QED
      BY <3>1
  <2>6. CASE t.outcome # "quality_good"
    <3>1. Outcome(u)
      BY <1>1, <1>4, <2>1, <2>3, <2>6
    <3> QED
      BY <2>2, <3>1
  <2> QED
    BY <2>5, <2>6
<1> QED
  BY <1>1, <1>2, <1>3, <1>4

(* The observation that opens a report reads the tables only; it comes to  *)
(* close a trial it finds failed, and to count on one it finds active.     *)
LEMMA ObserveWrites ==
  ASSUME IInv, NEW h \in Handlers, NEW d \in Domains, NEW m \in Models,
         NEW outcome \in Outcomes, Observe(h, d, m, outcome)
  PROVE  /\ task[h] = Idle
         /\ UNCHANGED <<trial, stale, cooling, default, closed, abandoned>>
         /\ \E u \in {Idle} \cup Task :
              /\ task' = [task EXCEPT ![h] = u]
              /\ u.pc \in {"idle", "active", "stats", "finish", "count"}
              /\ u.pc = "finish" => Failed(trial[d]) /\ u.domain = d
              /\ u.pc = "count" => Active(d) /\ u.domain = d
<1> DEFINE t == [pc |-> "active", domain |-> d, model |-> m, outcome |-> outcome,
                 peer |-> None, seen |-> None, result |-> "rolled_back"]
<1>1. t \in Task /\ t.domain = d
  BY Arrives
<1>2. /\ task[h] = Idle
      /\ UNCHANGED <<trial, stale, cooling, default, closed, abandoned>>
  BY DEF Observe
<1>3. CASE ~Active(d)
  <2>1. Continue(h, t)
    BY <1>3, Zenon DEF Observe
  <2> HIDE DEF t
  <2>2. PICK u \in {Idle} \cup Task :
          task' = [task EXCEPT ![h] = u] /\ (u = Idle \/ u = [t EXCEPT !.pc = "active"])
    BY <1>1, <2>1, ContinueWrites
  <2>3. u.pc \in {"idle", "active"}
    BY <1>1, <2>2 DEF Idle, Task
  <2> QED
    BY <1>2, <2>2, <2>3
<1>4. CASE Active(d) /\ m # trial[d].challenger
  <2>1. ActOn(h, t, trial[d])
    BY <1>4, Zenon DEF Observe
  <2>2. trial[d] \in Trial
    BY <1>4 DEF IInv, TypeOK, Active
  <2> HIDE DEF t
  <2> QED
    BY <1>1, <1>2, <2>1, <2>2, ActOnWrites
<1>5. CASE Active(d) /\ m = trial[d].challenger
  <2> DEFINE u == [t EXCEPT !.pc = "count"]
  <2>1. task' = [task EXCEPT ![h] = u]
    BY <1>5, Zenon DEF Observe
  <2>2. u \in Task
    BY <1>1, Moved, Zenon DEF Steps
  <2>3. u.pc = "count" /\ u.domain = d
    BY <1>1 DEF Task
  <2> HIDE DEF t, u
  <2> QED
    BY <1>2, <1>5, <2>1, <2>2, <2>3
<1> QED
  BY <1>3, <1>4, <1>5

(* The count writes its slot, and one row: the active one of its domain,   *)
(* or one that has been closed and that nothing but counts refers to.      *)
LEMMA CountWrites ==
  ASSUME IInv, NEW h \in Handlers, Count(h)
  PROVE  /\ task[h] \in Task
         /\ UNCHANGED <<cooling, default, closed, abandoned>>
         /\ \E u \in {Idle} \cup Task, row \in Trial :
              /\ task' = [task EXCEPT ![h] = u]
              /\ u.pc \in {"idle", "active", "stats", "finish"}
              /\ u.pc = "finish" => Failed(row) /\ u.domain = task[h].domain
              /\ (Failed(row) /\ task[h].outcome # "quality_good") =>
                   u.pc = "finish" /\ u.domain = task[h].domain /\ u.result = "rolled_back"
              /\ \/ /\ stale[h] = NoTrial
                    /\ trial[task[h].domain] \in Trial
                    /\ row = Counted(trial[task[h].domain], task[h].outcome)
                    /\ trial' = [trial EXCEPT ![task[h].domain] = row]
                    /\ stale' = stale
                 \/ /\ stale[h] # NoTrial
                    /\ trial' = trial
                    /\ stale' = [g \in Handlers |->
                         IF g = h THEN NoTrial
                         ELSE IF stale[g] = stale[h] /\ task[g].domain = task[h].domain THEN row
                         ELSE stale[g]]
<1> DEFINE d == task[h].domain
<1>1. task[h].pc = "count" /\ UNCHANGED <<cooling, default, closed, abandoned>>
  BY DEF Count
<1>2. task[h] \in Task /\ d \in Domains /\ task[h].outcome \in Outcomes
  BY <1>1, Busy DEF IInv, Task
<1>3. CASE stale[h] = NoTrial
  <2> DEFINE row == Counted(trial[d], task[h].outcome)
  <2>1. trial[d] \in Trial
    BY <1>1, <1>2, <1>3 DEF IInv, TypeOK, Counting, Active
  <2>2. row \in Trial
    BY <1>2, <2>1, CountedCounts
  <2>3. /\ trial' = [trial EXCEPT ![d] = row]
        /\ ActOn(h, task[h], row)
        /\ stale' = stale
    BY <1>3 DEF Count
  <2> HIDE DEF row
  <2>4. PICK u \in {Idle} \cup Task :
          /\ task' = [task EXCEPT ![h] = u]
          /\ u.pc \in {"idle", "active", "stats", "finish"}
          /\ u.pc = "finish" => Failed(row) /\ u.domain = d
          /\ (Failed(row) /\ task[h].outcome # "quality_good") =>
               u.pc = "finish" /\ u.domain = d /\ u.result = "rolled_back"
    BY <1>2, <2>2, <2>3, ActOnWrites
  <2>5. row = Counted(trial[d], task[h].outcome)
    BY DEF row
  <2> QED
    BY <1>1, <1>2, <1>3, <2>1, <2>2, <2>3, <2>4, <2>5
<1>4. CASE stale[h] # NoTrial
  <2> DEFINE row == Counted(stale[h], task[h].outcome)
  <2>1. row \in Trial
    BY <1>2, <1>4, CountedCounts DEF IInv, TypeOK
  <2>2. /\ stale' = [g \in Handlers |->
               IF g = h THEN NoTrial
               ELSE IF stale[g] = stale[h] /\ task[g].domain = d THEN row
               ELSE stale[g]]
        /\ ActOn(h, task[h], row)
        /\ trial' = trial
    BY <1>4 DEF Count
  <2> HIDE DEF row
  <2>3. PICK u \in {Idle} \cup Task :
          /\ task' = [task EXCEPT ![h] = u]
          /\ u.pc \in {"idle", "active", "stats", "finish"}
          /\ u.pc = "finish" => Failed(row) /\ u.domain = d
          /\ (Failed(row) /\ task[h].outcome # "quality_good") =>
               u.pc = "finish" /\ u.domain = d /\ u.result = "rolled_back"
    BY <1>2, <2>1, <2>2, ActOnWrites
  <2> QED
    BY <1>1, <1>2, <1>4, <2>1, <2>2, <2>3
<1> QED
  BY <1>3, <1>4

-----------------------------------------------------------------------------
(* Types that do not depend on the slots. *)
RowsTyped ==
  /\ trial \in [Domains -> {NoTrial} \cup Trial]
  /\ stale \in [Handlers -> {NoTrial} \cup Trial]
  /\ cooling \subseteq Domains \X Models
  /\ default \in Models \cup {None}
  /\ closed \in [Domains -> [result : Results \cup {None}, failed : BOOLEAN]]
  /\ abandoned \in SUBSET Domains

(* A step that writes one slot soundly keeps the types of all. *)
LEMMA SlotKeepsTypes ==
  ASSUME IInv, NEW h \in Handlers, NEW u \in {Idle} \cup Task,
         task' = [task EXCEPT ![h] = u],
         u.pc \in {"default", "cooldown", "start"} => u.peer \in Models,
         RowsTyped'
  PROVE  TypeOK' /\ Selected'
<1>1. /\ task' \in [Handlers -> {Idle} \cup Task]
      /\ task'[h] = u
      /\ \A g \in Handlers \ {h} : task'[g] = task[g]
  BY SlotWritten DEF IInv
<1>2. TypeOK'
  BY <1>1 DEF TypeOK, RowsTyped
<1>3. Selected'
  BY <1>1 DEF Selected, IInv
<1> QED
  BY <1>2, <1>3

(* The invariant types the tables. *)
LEMMA RowsAreTyped ==
  ASSUME IInv PROVE RowsTyped
BY DEF IInv, TypeOK, RowsTyped

(* Every step keeps the types. *)
LEMMA StepKeepsTypes ==
  ASSUME IInv, [Next]_vars PROVE TypeOK' /\ Selected'
<1> USE RowsAreTyped
<1>1. ASSUME NEW h \in Handlers, NEW d \in Domains, NEW m \in Models,
             NEW outcome \in Outcomes, Observe(h, d, m, outcome)
      PROVE  TypeOK' /\ Selected'
  <2>1. RowsTyped'
    BY <1>1, ObserveWrites DEF RowsTyped
  <2> QED
    BY <1>1, <2>1, ObserveWrites, SlotKeepsTypes
<1>2. ASSUME NEW h \in Handlers, Count(h)
      PROVE  TypeOK' /\ Selected'
  <2>1. PICK u \in {Idle} \cup Task, row \in Trial :
          /\ task' = [task EXCEPT ![h] = u]
          /\ u.pc \in {"idle", "active", "stats", "finish"}
          /\ \/ trial' = [trial EXCEPT ![task[h].domain] = row] /\ stale' = stale
             \/ /\ trial' = trial
                /\ stale' = [g \in Handlers |->
                     IF g = h THEN NoTrial
                     ELSE IF stale[g] = stale[h] /\ task[g].domain = task[h].domain THEN row
                     ELSE stale[g]]
    BY <1>2, CountWrites
  <2>2. UNCHANGED <<cooling, default, closed, abandoned>>
    BY <1>2, CountWrites
  <2>3. trial' \in [Domains -> {NoTrial} \cup Trial]
    BY <2>1 DEF RowsTyped
  <2>4. stale' \in [Handlers -> {NoTrial} \cup Trial]
    BY <2>1 DEF RowsTyped
  <2>5. RowsTyped'
    BY <2>2, <2>3, <2>4 DEF RowsTyped
  <2> QED
    BY <2>1, <2>5, SlotKeepsTypes
<1>3. ASSUME NEW h \in Handlers, Advance(h), ~Count(h) PROVE TypeOK' /\ Selected'
  <2>1. RowsTyped'
    <3>1. CASE ReadStats(h) \/ ReadDefault(h) \/ ReadBack(h) \/ LookForActive(h)
               \/ Select(h) \/ CheckDefault(h) \/ ClearDefault(h) \/ CheckCooldown(h)
      BY <3>1 DEF RowsTyped, ReadStats, ReadDefault, ReadBack, LookForActive,
         Select, CheckDefault, ClearDefault, CheckCooldown
    <3>2. CASE Promote(h)
      BY <3>2 DEF RowsTyped, Promote
    <3>3. CASE Finish(h)
      <4> DEFINE d == task[h].domain
                 result == task[h].result
      <4>1. d \in Domains /\ result \in Results
        BY <3>3, Busy DEF Finish, Task, IInv
      <4>2. [result |-> result, failed |-> Failed(trial[d])]
              \in [result : Results \cup {None}, failed : BOOLEAN]
        BY <4>1 DEF RowsTyped, Failed
      <4>3. CASE ~Active(d)
        BY <3>3, <4>3 DEF Finish, RowsTyped
      <4>4. CASE Active(d)
        <5>1. trial[d].challenger \in Models
          BY <4>1, <4>4 DEF RowsTyped, Active, Trial
        <5>2. /\ trial' = [trial EXCEPT ![d] = NoTrial]
              /\ cooling' = IF result = "rolled_back"
                            THEN cooling \cup {<<d, trial[d].challenger>>} ELSE cooling
              /\ closed' = [closed EXCEPT ![d] = [result |-> result, failed |-> Failed(trial[d])]]
              /\ stale' = Outlived(d)
              /\ UNCHANGED <<default, abandoned>>
          BY <3>3, <4>4 DEF Finish
        <5>3. Outlived(d) \in [Handlers -> {NoTrial} \cup Trial]
          BY <4>1 DEF RowsTyped, Outlived
        <5>4. closed' \in [Domains -> [result : Results \cup {None}, failed : BOOLEAN]]
          BY <4>2, <5>2, Zenon DEF RowsTyped
        <5> HIDE DEF d, result
        <5> QED
          BY <4>1, <5>1, <5>2, <5>3, <5>4 DEF RowsTyped
      <4> QED
        BY <4>3, <4>4
    <3>4. CASE Start(h)
      <4> DEFINE d == task[h].domain
                 row == [challenger |-> task[h].peer, incumbent |-> task[h].model,
                         sampled_requests |-> 0, quality_fail |-> 0, exec_fail |-> 0]
      <4>1. d \in Domains /\ task[h].model \in Models /\ task[h].peer \in Models
        BY <3>4, Busy DEF Start, Task, IInv, Selected
      <4>2. row \in Trial
        BY <4>1, LimitsArePositive DEF Trial
      <4>3. trial' = trial \/ trial' = [trial EXCEPT ![d] = row]
        BY <3>4 DEF Start
      <4> HIDE DEF row
      <4> QED
        BY <3>4, <4>1, <4>2, <4>3 DEF Start, RowsTyped
    <3> QED
      BY <1>3, <3>1, <3>2, <3>3, <3>4 DEF Advance
  <2> QED
    BY <1>3, <2>1, AdvanceWrites, SlotKeepsTypes DEF Written, Sound
<1>4. ASSUME NEW h \in Handlers, Die(h) PROVE TypeOK' /\ Selected'
  <2>1. task[h].domain \in Domains
    BY <1>4 DEF Die, IInv, TypeOK, Task
  <2>2. RowsTyped'
    BY <1>4, <2>1 DEF Die, RowsTyped
  <2>3. Idle.pc = "idle"
    BY DEF Idle
  <2> QED
    BY <1>4, <2>2, <2>3, SlotKeepsTypes, Zenon DEF Die, Return
<1>5. CASE DefaultChanges
  BY <1>5 DEF DefaultChanges, IInv, TypeOK, Selected
<1>6. ASSUME NEW d \in Domains, NEW m \in Models, CooldownExpires(d, m)
      PROVE  TypeOK' /\ Selected'
  BY <1>6 DEF CooldownExpires, IInv, TypeOK, Selected
<1>7. CASE UNCHANGED vars
  BY <1>7 DEF vars, IInv, TypeOK, Selected
<1> QED
  BY <1>1, <1>2, <1>3, <1>4, <1>5, <1>6, <1>7 DEF Next

(* A row of the table is no missing row. *)
LEMMA RowsAreTrials ==
  ASSUME NEW t \in Trial PROVE t # NoTrial
<1>1. "incumbent" \in DOMAIN t
  BY DEF Trial
<1>2. DOMAIN NoTrial = {"challenger"}
  BY DEF NoTrial
<1> QED
  BY <1>1, <1>2

(* What a report is about to count on stays what it is: steps of others    *)
(* that leave active trials active and closed rows closed disturb nobody.  *)
LEMMA OthersKeepCounting ==
  ASSUME IInv, NEW h \in Handlers, NEW u \in {Idle} \cup Task,
         task' = [task EXCEPT ![h] = u],
         u.pc = "count" => Active(u.domain)',
         \A g \in Handlers \ {h} : stale'[g] = NoTrial => stale[g] = NoTrial,
         \A c \in Domains : Active(c) => Active(c)'
  PROVE  Counting'
<1>1. task'[h] = u /\ \A g \in Handlers \ {h} : task'[g] = task[g]
  BY SlotWritten DEF IInv
<1>2. \A g \in Handlers : task[g].pc = "count" => task[g].domain \in Domains
  BY Busy DEF IInv, Task
<1> QED
  BY <1>1, <1>2 DEF Counting, IInv

(* Closing a trial leaves its row to those who are about to count on it.   *)
LEMMA StepKeepsCounting ==
  ASSUME IInv, [Next]_vars PROVE Counting'
<1>1. ASSUME NEW h \in Handlers, NEW d \in Domains, NEW m \in Models,
             NEW outcome \in Outcomes, Observe(h, d, m, outcome)
      PROVE  Counting'
  BY <1>1, ObserveWrites, OthersKeepCounting DEF Active
<1>2. ASSUME NEW h \in Handlers, Count(h) PROVE Counting'
  <2>1. PICK u \in {Idle} \cup Task, row \in Trial :
          /\ task' = [task EXCEPT ![h] = u]
          /\ u.pc \in {"idle", "active", "stats", "finish"}
          /\ \/ trial' = [trial EXCEPT ![task[h].domain] = row] /\ stale' = stale
             \/ /\ trial' = trial
                /\ stale' = [g \in Handlers |->
                     IF g = h THEN NoTrial
                     ELSE IF stale[g] = stale[h] /\ task[g].domain = task[h].domain THEN row
                     ELSE stale[g]]
    BY <1>2, CountWrites
  <2>2. row # NoTrial
    BY RowsAreTrials
  <2>3. \A c \in Domains : Active(c) => Active(c)'
    BY <2>1, <2>2 DEF Active, IInv, TypeOK
  <2>4. \A g \in Handlers \ {h} : stale'[g] = NoTrial => stale[g] = NoTrial
    BY <2>1, <2>2
  <2> QED
    BY <2>1, <2>3, <2>4, OthersKeepCounting
<1>3. ASSUME NEW h \in Handlers, Finish(h) PROVE Counting'
  <2> DEFINE d == task[h].domain
  <2>1. task' = [task EXCEPT ![h] = Idle] /\ Idle.pc = "idle" /\ d \in Domains
    BY <1>3, Busy DEF Finish, Return, Idle, IInv, Task
  <2>2. CASE ~Active(d)
    <3>1. UNCHANGED <<trial, stale>>
      BY <1>3, <2>2 DEF Finish
    <3> QED
      BY <2>1, <3>1, OthersKeepCounting DEF Active
  <2>3. CASE Active(d)
    <3>1. trial' = [trial EXCEPT ![d] = NoTrial] /\ stale' = Outlived(d)
      BY <1>3, <2>3 DEF Finish
    <3>2. ASSUME NEW g \in Handlers, task'[g].pc = "count", stale'[g] = NoTrial
          PROVE  trial'[task'[g].domain] # NoTrial
      <4>1. g # h /\ task'[g] = task[g]
        BY <2>1, <3>2 DEF IInv, TypeOK
      <4>2. stale[g] = NoTrial /\ task[g].domain # d
        BY <2>3, <3>1, <3>2, <4>1 DEF Outlived, Active
      <4>3. Active(task[g].domain) /\ task[g].domain \in Domains
        BY <3>2, <4>1, <4>2, Busy DEF IInv, Counting, Task
      <4> QED
        BY <3>1, <4>1, <4>2, <4>3 DEF Active, IInv, TypeOK
    <3> QED
      BY <3>2 DEF Counting, Active
  <2> QED
    BY <2>2, <2>3
<1>4. ASSUME NEW h \in Handlers, Start(h) PROVE Counting'
  <2> DEFINE row == [challenger |-> task[h].peer, incumbent |-> task[h].model,
                     sampled_requests |-> 0, quality_fail |-> 0, exec_fail |-> 0]
  <2>1. /\ task' = [task EXCEPT ![h] = Idle] /\ Idle.pc = "idle" /\ stale' = stale
        /\ IF Active(task[h].domain) THEN UNCHANGED trial
           ELSE trial' = [trial EXCEPT ![task[h].domain] = row]
    BY <1>4 DEF Start, Return, Idle
  <2> HIDE DEF row
  <2>2. \A c \in Domains : Active(c) => Active(c)'
    BY <2>1 DEF Active, IInv, TypeOK
  <2> QED
    BY <2>1, <2>2, OthersKeepCounting
<1>5. ASSUME NEW h \in Handlers, Advance(h), ~Count(h), ~Finish(h), ~Start(h)
      PROVE  Counting'
  <2>1. UNCHANGED <<trial, stale>>
    BY <1>5 DEF Advance, ReadStats, ReadDefault, Promote, ReadBack,
       LookForActive, Select, CheckDefault, ClearDefault, CheckCooldown
  <2>2. PICK u \in {Idle} \cup Task : task' = [task EXCEPT ![h] = u] /\ u.pc # "count"
    BY <1>5, AdvanceWrites DEF Written, Sound
  <2> QED
    BY <2>1, <2>2, OthersKeepCounting DEF Active
<1>6. ASSUME NEW h \in Handlers, Die(h) PROVE Counting'
  <2>1. /\ task' = [task EXCEPT ![h] = Idle] /\ Idle.pc = "idle" /\ trial' = trial
        /\ stale' = [stale EXCEPT ![h] = NoTrial]
    BY <1>6 DEF Die, Return, Idle
  <2> QED
    BY <2>1, OthersKeepCounting DEF Active, IInv, TypeOK
<1>7. CASE DefaultChanges
  BY <1>7 DEF DefaultChanges, IInv, Counting, Active
<1>8. ASSUME NEW d \in Domains, NEW m \in Models, CooldownExpires(d, m) PROVE Counting'
  BY <1>8 DEF CooldownExpires, IInv, Counting, Active
<1>9. CASE UNCHANGED vars
  BY <1>9 DEF vars, IInv, Counting, Active
<1> QED
  BY <1>1, <1>2, <1>3, <1>4, <1>5, <1>6, <1>7, <1>8, <1>9 DEF Next

(* Every step keeps the invariant. *)
LEMMA StepKeepsInvariant ==
  ASSUME IInv, [Next]_vars PROVE IInv'
BY StepKeepsTypes, StepKeepsCounting DEF IInv

(* Nothing is under way at first. *)
LEMMA InitHolds ==
  Init => IInv
BY DEF Init, IInv, TypeOK, Selected, Counting, Idle, NoTrial, None

(* Every table and slot keeps its type, a trial always has a challenger.   *)
THEOREM TypeCorrect == Spec => []TypeOK
<1>1. Spec => []IInv
  BY InitHolds, StepKeepsInvariant, PTL DEF Spec
<1>2. IInv => TypeOK
  BY DEF IInv
<1> QED
  BY <1>1, <1>2, PTL

-----------------------------------------------------------------------------
(* A report that is not about to close a trial takes no witness away.      *)
LEMMA WitnessesStay ==
  ASSUME FailedTrialIsClosing, NEW h \in Handlers, task[h].pc # "finish",
         \A g \in Handlers \ {h} : task'[g] = task[g], UNCHANGED <<trial, abandoned>>
  PROVE  FailedTrialIsClosing'
BY DEF FailedTrialIsClosing, Failed

(* A failed trial stays on its way out. *)
LEMMA StepKeepsClosing ==
  ASSUME IInv, FailedTrialIsClosing, [Next]_vars
  PROVE  FailedTrialIsClosing'
<1>1. ASSUME NEW h \in Handlers, NEW d \in Domains, NEW m \in Models,
             NEW outcome \in Outcomes, Observe(h, d, m, outcome)
      PROVE  FailedTrialIsClosing'
  <2>1. /\ task[h].pc # "finish" /\ UNCHANGED <<trial, abandoned>>
        /\ \A g \in Handlers \ {h} : task'[g] = task[g]
    BY <1>1, ObserveWrites, SlotWritten DEF Idle, IInv
  <2> QED
    BY <2>1, WitnessesStay
<1>2. ASSUME NEW h \in Handlers, Count(h) PROVE FailedTrialIsClosing'
  <2> DEFINE d == task[h].domain
  <2>1. PICK u \in {Idle} \cup Task, row \in Trial :
          /\ task' = [task EXCEPT ![h] = u]
          /\ (Failed(row) /\ task[h].outcome # "quality_good") =>
               u.pc = "finish" /\ u.domain = d /\ u.result = "rolled_back"
          /\ \/ /\ trial[d] \in Trial
                /\ row = Counted(trial[d], task[h].outcome)
                /\ trial' = [trial EXCEPT ![d] = row]
             \/ trial' = trial
    BY <1>2, CountWrites
  <2>2. task'[h] = u /\ \A g \in Handlers \ {h} : task'[g] = task[g]
    BY <2>1, SlotWritten DEF IInv
  <2>3. task[h].pc # "finish" /\ abandoned' = abandoned
    BY <1>2, CountWrites DEF Count
  <2>4. CASE trial' = trial
    BY <2>2, <2>3, <2>4, WitnessesStay
  <2>5. CASE /\ trial[d] \in Trial
             /\ row = Counted(trial[d], task[h].outcome)
             /\ trial' = [trial EXCEPT ![d] = row]
    <3> SUFFICES ASSUME NEW c \in Domains, Failed(trial'[c])
                 PROVE  \/ c \in abandoned'
                        \/ \E g \in Handlers : /\ task'[g].pc = "finish"
                                              /\ task'[g].domain = c
                                              /\ task'[g].result = "rolled_back"
      BY DEF FailedTrialIsClosing, Failed
    <3>1. CASE Failed(trial[c])
      BY <2>2, <2>3, <3>1 DEF FailedTrialIsClosing
    <3>2. CASE ~Failed(trial[c])
      <4>1. c = d /\ Failed(row)
        BY <2>5, <3>2 DEF IInv, TypeOK
      <4>2. task[h].outcome # "quality_good"
        <5>1. task[h].outcome \in Outcomes
          BY <1>2, CountWrites DEF Task
        <5>2. task[h].outcome = "quality_good" =>
                row.quality_fail = trial[d].quality_fail /\ row.exec_fail = trial[d].exec_fail
          BY <2>5, <5>1, CountedCounts
        <5>3. trial[d] # NoTrial
          BY <2>5, RowsAreTrials
        <5> QED
          BY <3>2, <4>1, <5>2, <5>3 DEF Failed
      <4> QED
        BY <2>1, <2>2, <4>1, <4>2
    <3> QED
      BY <3>1, <3>2
  <2> QED
    BY <2>1, <2>4, <2>5
<1>3. ASSUME NEW h \in Handlers, Advance(h), ~Count(h) PROVE FailedTrialIsClosing'
  <2>1. \A g \in Handlers \ {h} : task'[g] = task[g]
    BY <1>3, AdvanceWrites, SlotWritten DEF Written, IInv
  <2>2. CASE Finish(h)
    <3>1. trial' = trial \/ trial' = [trial EXCEPT ![task[h].domain] = NoTrial]
      BY <2>2 DEF Finish
    <3>2. ~Failed(NoTrial) /\ abandoned' = abandoned
      BY <2>2 DEF Failed, Finish
    <3>3. Active(task[h].domain) => trial' = [trial EXCEPT ![task[h].domain] = NoTrial]
      BY <2>2 DEF Finish
    <3>4. ~Active(task[h].domain) => trial' = trial
      BY <2>2 DEF Finish
    <3>5. \A c \in Domains : Failed(trial'[c]) => Failed(trial[c]) /\ c # task[h].domain
      BY <3>2, <3>3, <3>4 DEF IInv, TypeOK, Active, Failed
    <3> QED
      BY <2>1, <3>2, <3>5 DEF FailedTrialIsClosing, Failed
  <2>3. CASE Start(h)
    <3> DEFINE d == task[h].domain
               row == [challenger |-> task[h].peer, incumbent |-> task[h].model,
                       sampled_requests |-> 0, quality_fail |-> 0, exec_fail |-> 0]
    <3>1. ~Failed(row)
      BY LimitsArePositive DEF Failed
    <3>2. trial' = trial \/ trial' = [trial EXCEPT ![d] = row]
      BY <2>3 DEF Start
    <3> HIDE DEF row
    <3>3. \A c \in Domains : Failed(trial'[c]) => Failed(trial[c])
      BY <3>1, <3>2 DEF IInv, TypeOK
    <3>4. task[h].pc # "finish" /\ abandoned' = abandoned
      BY <2>3 DEF Start
    <3> QED
      BY <2>1, <3>3, <3>4 DEF FailedTrialIsClosing, Failed
  <2>4. CASE ~Finish(h) /\ ~Start(h)
    <3>1. task[h].pc # "finish" /\ UNCHANGED <<trial, abandoned>>
      BY <1>3, <2>4 DEF Advance, ReadStats, ReadDefault, Promote, ReadBack,
         LookForActive, Select, CheckDefault, ClearDefault, CheckCooldown
    <3> QED
      BY <2>1, <3>1, WitnessesStay
  <2> QED
    BY <2>2, <2>3, <2>4
<1>4. ASSUME NEW h \in Handlers, Die(h) PROVE FailedTrialIsClosing'
  <2>1. \A g \in Handlers \ {h} : task'[g] = task[g]
    BY <1>4, SlotWritten DEF Die, Return, IInv
  <2>2. CASE task[h].pc # "finish"
    BY <1>4, <2>1, <2>2, WitnessesStay DEF Die
  <2>3. CASE task[h].pc = "finish"
    <3>1. abandoned' = abandoned \cup {task[h].domain} /\ trial' = trial
      BY <1>4, <2>3 DEF Die
    <3> QED
      BY <2>1, <3>1 DEF FailedTrialIsClosing, Failed
  <2> QED
    BY <2>2, <2>3
<1>5. CASE DefaultChanges
  BY <1>5 DEF DefaultChanges, FailedTrialIsClosing, Failed
<1>6. ASSUME NEW d \in Domains, NEW m \in Models, CooldownExpires(d, m)
      PROVE  FailedTrialIsClosing'
  BY <1>6 DEF CooldownExpires, FailedTrialIsClosing, Failed
<1>7. CASE UNCHANGED vars
  BY <1>7 DEF vars, FailedTrialIsClosing, Failed
<1> QED
  BY <1>1, <1>2, <1>3, <1>4, <1>5, <1>6, <1>7 DEF Next

(* However many reports interleave, the report that saw a trial fail is    *)
(* still going to close it, or died on the way.                            *)
THEOREM FailedTrialsAreClosing == Spec => []FailedTrialIsClosing
<1>1. Init => FailedTrialIsClosing
  BY DEF Init, FailedTrialIsClosing, Failed
<1> QED
  BY <1>1, InitHolds, StepKeepsInvariant, StepKeepsClosing, PTL DEF Spec

-----------------------------------------------------------------------------
(* A row of downgrade_trials is one trial from its insertion to its end:   *)
(* no report replaces it, and its counts never go down.                    *)
THEOREM TrialsRunToTheirEnd == Spec => TrialRunsToItsEnd
<1> DEFINE Belongs(d) ==
      \/ closed'[d].failed = Failed(trial[d]) /\ trial'[d] = NoTrial
      \/ /\ trial'[d].challenger = trial[d].challenger
         /\ trial'[d].incumbent = trial[d].incumbent
         /\ trial'[d].sampled_requests >= trial[d].sampled_requests
         /\ trial'[d].quality_fail >= trial[d].quality_fail
         /\ trial'[d].exec_fail >= trial[d].exec_fail
<1>1. ASSUME IInv, [Next]_vars, NEW d \in Domains, Active(d) PROVE Belongs(d)
  <2>1. trial[d] \in Trial
    BY <1>1 DEF IInv, TypeOK, Active
  <2>2. ASSUME trial'[d] = trial[d] PROVE Belongs(d)
    BY <2>1, <2>2, LimitsArePositive DEF Trial
  <2>3. ASSUME NEW h \in Handlers, Count(h) PROVE Belongs(d)
    <3>1. /\ task[h].outcome \in Outcomes
          /\ \/ trial' = trial
             \/ trial' = [trial EXCEPT ![task[h].domain] =
                           Counted(trial[task[h].domain], task[h].outcome)]
      BY <1>1, <2>3, CountWrites DEF Task
    <3>2. trial'[d] = trial[d] \/ trial'[d] = Counted(trial[d], task[h].outcome)
      BY <1>1, <3>1 DEF IInv, TypeOK
    <3> QED
      BY <2>1, <2>2, <3>1, <3>2, CountedCounts
  <2>4. ASSUME NEW h \in Handlers, Finish(h) PROVE Belongs(d)
    <3>1. CASE task[h].domain = d
      <4>1. /\ trial' = [trial EXCEPT ![d] = NoTrial]
            /\ closed' = [closed EXCEPT ![d] =
                            [result |-> task[h].result, failed |-> Failed(trial[d])]]
        BY <1>1, <2>4, <3>1 DEF Finish
      <4> HIDE DEF Failed
      <4> QED
        BY <1>1, <4>1 DEF IInv, TypeOK
    <3>2. CASE task[h].domain # d
      <4>1. trial'[d] = trial[d]
        BY <1>1, <2>4, <3>2 DEF Finish, IInv, TypeOK
      <4> QED
        BY <2>2, <4>1
    <3> QED
      BY <3>1, <3>2
  <2>5. ASSUME NEW h \in Handlers, Start(h) PROVE Belongs(d)
    <3> DEFINE row == [challenger |-> task[h].peer, incumbent |-> task[h].model,
                       sampled_requests |-> 0, quality_fail |-> 0, exec_fail |-> 0]
    <3>1. IF Active(task[h].domain) THEN UNCHANGED trial
          ELSE trial' = [trial EXCEPT ![task[h].domain] = row]
      BY <2>5 DEF Start
    <3> HIDE DEF row
    <3>2. trial'[d] = trial[d]
      BY <1>1, <3>1 DEF IInv, TypeOK
    <3> QED
      BY <2>2, <3>2
  <2>6. ASSUME NEW h \in Handlers, Advance(h), ~Count(h), ~Finish(h), ~Start(h)
        PROVE  Belongs(d)
    BY <2>2, <2>6 DEF Advance, ReadStats, ReadDefault, Promote, ReadBack,
       LookForActive, Select, CheckDefault, ClearDefault, CheckCooldown
  <2>7. ASSUME NEW h \in Handlers, Die(h) PROVE Belongs(d)
    BY <2>2, <2>7 DEF Die
  <2>8. CASE DefaultChanges
    BY <2>2, <2>8 DEF DefaultChanges
  <2>9. ASSUME NEW c \in Domains, NEW m \in Models, CooldownExpires(c, m) PROVE Belongs(d)
    BY <2>2, <2>9 DEF CooldownExpires
  <2>10. CASE UNCHANGED vars
    BY <2>2, <2>10 DEF vars
  <2>11. ASSUME NEW h \in Handlers, NEW c \in Domains, NEW m \in Models,
                NEW outcome \in Outcomes, Observe(h, c, m, outcome)
         PROVE  Belongs(d)
    BY <2>2, <2>11 DEF Observe
  <2> HIDE DEF Belongs
  <2> QED
    BY <1>1, <2>3, <2>4, <2>5, <2>6, <2>7, <2>8, <2>9, <2>10, <2>11 DEF Next
<1>2. IInv /\ [Next]_vars => [\A d \in Domains : Active(d) => Belongs(d)]_vars
  BY <1>1
<1> QED
  BY <1>2, InitHolds, StepKeepsInvariant, PTL DEF Spec, TrialRunsToItsEnd

-----------------------------------------------------------------------------
(* Two reports of one domain may overlap: one judges a trial that the      *)
(* other closes, and closes the next one.  Nothing in the engine excludes  *)
(* that, so it is a hypothesis about the behaviour, of awaits only: a      *)
(* report that is done with its observation (Observe leaves the slot idle) *)
(* may come at any time, as may reports of other domains, changes of the   *)
(* default, deaths and ends of cooldowns.                                  *)
OneReportPerDomain ==
  \A g, h \in Handlers :
    (/\ task[g] # Idle /\ task[h] # Idle
     /\ task[g].domain = task[h].domain) => g = h

(* What a report has seen is so when it acts on it, and the row it is      *)
(* about to count on has not been closed.                                  *)
Seen ==
  \A h \in Handlers :
    /\ stale[h] = NoTrial
    /\ (task[h].pc = "finish" /\ task[h].result = "rolled_back") =>
         Failed(trial[task[h].domain])
    /\ task[h].pc = "start" => <<task[h].domain, task[h].peer>> \notin cooling

(* What one step may do to a report that stands aside. *)
Aside(g) ==
  /\ task'[g] = task[g]
  /\ stale[g] = NoTrial => stale'[g] = NoTrial
  /\ (task[g].pc = "finish" /\ Failed(trial[task[g].domain])) =>
       Failed(trial'[task[g].domain])
  /\ (task[g].pc = "start" /\ <<task[g].domain, task[g].peer>> \notin cooling) =>
       <<task[g].domain, task[g].peer>> \notin cooling'

(* Whoever stands aside keeps what it has seen. *)
LEMMA ObserveLeavesAside ==
  ASSUME IInv, NEW h \in Handlers, NEW d \in Domains, NEW m \in Models,
         NEW outcome \in Outcomes, Observe(h, d, m, outcome),
         NEW g \in Handlers \ {h}
  PROVE  Aside(g)
<1>1. task'[g] = task[g]
  BY ObserveWrites, SlotWritten DEF IInv
<1>2. UNCHANGED <<trial, stale, cooling>>
  BY DEF Observe
<1> QED
  BY <1>1, <1>2 DEF Aside, Failed

(* Only the report that closes a trial leaves its row to another one.      *)
LEMMA StaleStays ==
  ASSUME IInv, NEW h \in Handlers, Advance(h), NEW g \in Handlers \ {h},
         task[g].pc = "idle" \/ task[g].domain # task[h].domain,
         stale[g] = NoTrial
  PROVE  stale'[g] = NoTrial
<1>1. CASE Count(h)
  BY <1>1, CountWrites
<1>2. CASE Finish(h)
  BY <1>2 DEF Finish, Outlived
<1>3. CASE ~Count(h) /\ ~Finish(h)
  BY <1>3 DEF Advance, ReadStats, ReadDefault, Promote, ReadBack,
     LookForActive, Select, CheckDefault, ClearDefault, CheckCooldown, Start
<1> QED
  BY <1>1, <1>2, <1>3

LEMMA AdvanceLeavesAside ==
  ASSUME OneReportPerDomain, IInv, NEW h \in Handlers, Advance(h),
         NEW g \in Handlers \ {h}
  PROVE  Aside(g)
<1>1. task'[g] = task[g]
  <2>1. CASE Count(h)
    BY <2>1, CountWrites, SlotWritten DEF IInv
  <2>2. CASE ~Count(h)
    BY <2>2, AdvanceWrites, SlotWritten DEF Written, IInv
  <2> QED
    BY <2>1, <2>2
<1>2. task[h].pc # "idle" /\ task[h] \in Task
  BY Busy DEF IInv, Advance, Count, ReadStats, ReadDefault, Promote, ReadBack, Finish,
     LookForActive, Select, CheckDefault, ClearDefault, CheckCooldown, Start
<1>3. CASE task[g].pc = "idle"
  <2>1. stale[g] = NoTrial => stale'[g] = NoTrial
    BY <1>2, <1>3, StaleStays
  <2> QED
    BY <1>1, <1>3, <2>1 DEF Aside
<1>4. CASE task[g].pc # "idle"
  <2>1. task[g].domain \in Domains /\ task[h].domain \in Domains
    BY <1>2, <1>4, Busy DEF IInv, Task
  <2>2. task[g].domain # task[h].domain
    BY <1>2, <1>4 DEF OneReportPerDomain, Idle
  <2>3. trial'[task[g].domain] = trial[task[g].domain]
    BY <2>1, <2>2 DEF Advance, Count, ReadStats, ReadDefault, Promote, ReadBack, Finish,
       LookForActive, Select, CheckDefault, ClearDefault, CheckCooldown, Start, IInv, TypeOK
  <2>4. \A m : <<task[g].domain, m>> \in cooling' => <<task[g].domain, m>> \in cooling
    BY <2>1, <2>2 DEF Advance, Count, ReadStats, ReadDefault, Promote, ReadBack, Finish,
       LookForActive, Select, CheckDefault, ClearDefault, CheckCooldown, Start
  <2>5. stale[g] = NoTrial => stale'[g] = NoTrial
    BY <2>2, StaleStays
  <2> QED
    BY <1>1, <2>3, <2>4, <2>5 DEF Aside, Failed
<1> QED
  BY <1>3, <1>4

(* Every step keeps what reports have seen, as long as no two of a domain  *)
(* overlap.                                                                *)
LEMMA StepKeepsSeen ==
  ASSUME OneReportPerDomain, IInv, Seen, [Next]_vars
  PROVE  Seen'
<1> DEFINE Sees(g) ==
      /\ stale[g] = NoTrial
      /\ (task[g].pc = "finish" /\ task[g].result = "rolled_back") =>
           Failed(trial[task[g].domain])
      /\ task[g].pc = "start" => <<task[g].domain, task[g].peer>> \notin cooling
<1>0. ASSUME NEW g \in Handlers, Aside(g) PROVE Sees(g)'
  BY <1>0 DEF Aside, Seen
<1>1. ASSUME NEW h \in Handlers, NEW d \in Domains, NEW m \in Models,
             NEW outcome \in Outcomes, Observe(h, d, m, outcome)
      PROVE  Seen'
  <2>1. PICK u \in {Idle} \cup Task :
          /\ task' = [task EXCEPT ![h] = u]
          /\ u.pc # "start"
          /\ u.pc = "finish" => Failed(trial[d]) /\ u.domain = d
    BY <1>1, ObserveWrites
  <2>2. task'[h] = u
    BY <2>1, SlotWritten DEF IInv
  <2>3. stale'[h] = NoTrial /\ trial' = trial
    BY <1>1, ObserveWrites DEF Seen
  <2>4. Sees(h)'
    BY <2>1, <2>2, <2>3 DEF Failed
  <2>5. \A g \in Handlers \ {h} : Sees(g)'
    BY <1>0, <1>1, ObserveLeavesAside
  <2> QED
    BY <2>4, <2>5 DEF Seen
<1>2. ASSUME NEW h \in Handlers, Count(h) PROVE Seen'
  <2> DEFINE d == task[h].domain
  <2>1. PICK u \in {Idle} \cup Task, row \in Trial :
          /\ task' = [task EXCEPT ![h] = u]
          /\ u.pc # "start"
          /\ u.pc = "finish" => Failed(row) /\ u.domain = d
          /\ \/ stale[h] = NoTrial /\ trial' = [trial EXCEPT ![d] = row] /\ stale' = stale
             \/ stale[h] # NoTrial
    BY <1>2, CountWrites
  <2>2. task'[h] = u /\ d \in Domains
    BY <1>2, <2>1, CountWrites, SlotWritten DEF IInv, Task
  <2>3. stale'[h] = NoTrial /\ trial'[d] = row
    BY <2>1, <2>2 DEF Seen, IInv, TypeOK
  <2>4. Sees(h)'
    BY <2>1, <2>2, <2>3 DEF Failed
  <2>5. \A g \in Handlers \ {h} : Sees(g)'
    BY <1>0, <1>2, AdvanceLeavesAside DEF Advance
  <2> QED
    BY <2>4, <2>5 DEF Seen
<1>3. ASSUME NEW h \in Handlers, Advance(h), ~Count(h) PROVE Seen'
  <2>1. PICK u \in {Idle} \cup Task : task' = [task EXCEPT ![h] = u] /\ Sound(u)
    BY <1>3, AdvanceWrites DEF Written
  <2>2. task'[h] = u
    BY <2>1, SlotWritten DEF IInv
  <2>3. stale'[h] = NoTrial
    <3>1. stale[h] = NoTrial
      BY DEF Seen
    <3> QED
      BY <1>3, <3>1 DEF Advance, ReadStats, ReadDefault, Promote, ReadBack, Finish, Outlived,
         LookForActive, Select, CheckDefault, ClearDefault, CheckCooldown, Start
  <2>4. Sees(h)'
    <3>1. CASE Finish(h)
      <4>1. u = Idle
        BY <2>2, <3>1 DEF Finish, Return, IInv, TypeOK
      <4> QED
        BY <2>2, <2>3, <4>1 DEF Idle
    <3>2. CASE ~Finish(h)
      <4>1. UNCHANGED cooling
        BY <1>3, <3>2 DEF Advance, ReadStats, ReadDefault, Promote, ReadBack,
           LookForActive, Select, CheckDefault, ClearDefault, CheckCooldown, Start
      <4> QED
        BY <2>1, <2>2, <2>3, <4>1 DEF Sound
    <3> QED
      BY <3>1, <3>2
  <2>5. \A g \in Handlers \ {h} : Sees(g)'
    BY <1>0, <1>3, AdvanceLeavesAside
  <2> QED
    BY <2>4, <2>5 DEF Seen
<1>4. ASSUME NEW h \in Handlers, Die(h) PROVE Seen'
  <2>1. task'[h] = Idle /\ \A g \in Handlers \ {h} : task'[g] = task[g]
    BY <1>4 DEF Die, Return, IInv, TypeOK
  <2>2. stale' = [stale EXCEPT ![h] = NoTrial]
    BY <1>4 DEF Die
  <2>3. \A g \in Handlers : stale'[g] = NoTrial
    BY <2>2 DEF Seen, IInv, TypeOK
  <2> QED
    BY <1>4, <2>1, <2>3 DEF Die, Seen, Idle, Failed
<1>5. CASE DefaultChanges
  BY <1>5 DEF DefaultChanges, Seen, Failed
<1>6. ASSUME NEW d \in Domains, NEW m \in Models, CooldownExpires(d, m) PROVE Seen'
  BY <1>6 DEF CooldownExpires, Seen, Failed
<1>7. CASE UNCHANGED vars
  BY <1>7 DEF vars, Seen, Failed
<1> QED
  BY <1>1, <1>2, <1>3, <1>4, <1>5, <1>6, <1>7 DEF Next

LEMMA SeenHolds == Spec /\ []OneReportPerDomain => [](IInv /\ Seen)
<1>1. Init => Seen
  BY DEF Init, Seen, Idle
<1>2. OneReportPerDomain /\ IInv /\ Seen /\ [Next]_vars => Seen'
  BY StepKeepsSeen
<1> QED
  BY <1>1, <1>2, InitHolds, StepKeepsInvariant, PTL DEF Spec

(* When the reports of a domain do not overlap, a trial is rolled back     *)
(* only for failures it had itself.                                        *)
THEOREM LoneRollbacksAreDeserved ==
  Spec /\ []OneReportPerDomain => []RollbackIsDeserved
<1>1. Init => RollbackIsDeserved
  BY DEF Init, RollbackIsDeserved, None
<1>2. IInv /\ Seen /\ RollbackIsDeserved /\ [Next]_vars => RollbackIsDeserved'
  <2> SUFFICES ASSUME IInv, Seen, RollbackIsDeserved, [Next]_vars
               PROVE  RollbackIsDeserved'
    OBVIOUS
  <2>1. CASE UNCHANGED closed
    BY <2>1 DEF RollbackIsDeserved
  <2>2. ASSUME NEW h \in Handlers, Finish(h), Active(task[h].domain)
        PROVE  RollbackIsDeserved'
    <3> DEFINE d == task[h].domain
    <3>1. d \in Domains
      BY <2>2, Busy DEF Finish, Task, IInv
    <3>2. closed' = [closed EXCEPT ![d] =
                       [result |-> task[h].result, failed |-> Failed(trial[d])]]
      BY <2>2 DEF Finish
    <3>3. task[h].result = "rolled_back" => Failed(trial[d])
      BY <2>2 DEF Finish, Seen
    <3> QED
      BY <3>1, <3>2, <3>3 DEF RollbackIsDeserved, IInv, TypeOK
  <2>3. UNCHANGED closed \/ \E h \in Handlers : Finish(h)
    <3>1. ASSUME NEW h \in Handlers, NEW d \in Domains, NEW m \in Models,
                 NEW outcome \in Outcomes, Observe(h, d, m, outcome)
          PROVE  UNCHANGED closed
      BY <3>1 DEF Observe
    <3>2. ASSUME NEW h \in Handlers, Advance(h), ~Finish(h) PROVE UNCHANGED closed
      BY <3>2 DEF Advance, Count, ReadStats, ReadDefault, Promote, ReadBack,
         LookForActive, Select, CheckDefault, ClearDefault, CheckCooldown, Start
    <3>3. \A h \in Handlers : Die(h) => UNCHANGED closed
      BY DEF Die
    <3>4. DefaultChanges => UNCHANGED closed
      BY DEF DefaultChanges
    <3>5. \A d \in Domains, m \in Models : CooldownExpires(d, m) => UNCHANGED closed
      BY DEF CooldownExpires
    <3> QED
      BY <3>1, <3>2, <3>3, <3>4, <3>5 DEF Next, vars
  <2>4. \A h \in Handlers : Finish(h) => UNCHANGED closed \/ Active(task[h].domain)
    BY DEF Finish
  <2> QED
    BY <2>1, <2>2, <2>3, <2>4
<1> QED
  BY <1>1, <1>2, SeenHolds, PTL DEF Spec

(* Likewise, no trial starts with a challenger in its cooldown.            *)
THEOREM LoneStartsKeepCooldown ==
  Spec /\ []OneReportPerDomain => CooldownKept
<1> DEFINE Kept(d) ==
      (~Active(d) /\ trial'[d] # NoTrial) => <<d, trial'[d].challenger>> \notin cooling
<1>1. ASSUME IInv, Seen, [Next]_vars, NEW d \in Domains PROVE Kept(d)
  <2>1. CASE trial'[d] = trial[d]
    BY <2>1 DEF Active
  <2>2. ASSUME NEW h \in Handlers, Start(h) PROVE Kept(d)
    <3> DEFINE row == [challenger |-> task[h].peer, incumbent |-> task[h].model,
                       sampled_requests |-> 0, quality_fail |-> 0, exec_fail |-> 0]
    <3>1. <<task[h].domain, task[h].peer>> \notin cooling
      BY <1>1, <2>2 DEF Start, Seen
    <3>2. trial' = trial \/ trial' = [trial EXCEPT ![task[h].domain] = row]
      BY <2>2 DEF Start
    <3>3. row.challenger = task[h].peer
      OBVIOUS
    <3> HIDE DEF row
    <3>4. trial'[d] = trial[d] \/ (d = task[h].domain /\ trial'[d] = row)
      BY <1>1, <3>2 DEF IInv, TypeOK
    <3> QED
      BY <3>1, <3>3, <3>4 DEF Active
  <2>3. ASSUME NEW h \in Handlers, Finish(h) PROVE Kept(d)
    <3>1. trial'[d] = trial[d] \/ trial'[d] = NoTrial
      BY <1>1, <2>3 DEF Finish, IInv, TypeOK
    <3> QED
      BY <3>1 DEF Active
  <2>4. ASSUME NEW h \in Handlers, Count(h) PROVE Kept(d)
    <3>1. \/ UNCHANGED trial
          \/ /\ trial[task[h].domain] \in Trial
             /\ \A c \in Domains \ {task[h].domain} : trial'[c] = trial[c]
      BY <1>1, <2>4, CountWrites DEF IInv, TypeOK
    <3> QED
      BY <3>1, RowsAreTrials DEF Active
  <2>5. CASE UNCHANGED trial
    BY <2>5 DEF Active
  <2>6. \/ UNCHANGED trial
        \/ \E h \in Handlers : Start(h) \/ Finish(h) \/ Count(h)
    BY <1>1 DEF Next, vars, Observe, Advance, ReadStats, ReadDefault, Promote, ReadBack,
       LookForActive, Select, CheckDefault, ClearDefault, CheckCooldown, Die, DefaultChanges,
       CooldownExpires
  <2> HIDE DEF Kept
  <2> QED
    BY <2>2, <2>3, <2>4, <2>5, <2>6
<1>2. IInv /\ Seen /\ [Next]_vars => [\A d \in Domains : Kept(d)]_vars
  BY <1>1
<1> QED
  BY <1>2, SeenHolds, PTL DEF Spec, CooldownKept
=============================================================================
