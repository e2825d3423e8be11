--------------------------- MODULE DowngradeTrial ---------------------------
(***************************************************************************)
(* Downgrade trials of one agent class (router_engine/downgrade.py and the *)
(* table downgrade_trials): a default that succeeds for long is tried      *)
(* against a cheaper challenger, which is promoted or rolled back by the   *)
(* reports about it.                                                       *)
(*                                                                         *)
(* A report reads and writes the tables in one transaction per await (an   *)
(* observation in two), and other reports run in between.  Statistics,     *)
(* prices within "cheaper", rate limits and Wilson scores decide only      *)
(* which way a read turns out, so those reads are choices.                 *)
(***************************************************************************)
EXTENDS Naturals

CONSTANTS
  Models,
  Price,           \* price of each model, as _price_per_1m_from_metadata reads it
  Domains,         \* the domain strings that reports carry
  GlobalDomain,    \* DEFAULT_DOMAIN_KEY, the only domain that routing looks up
  Handlers,        \* slots for reports that are being handled at once
  MinSamples,      \* DOWNGRADE_TRIAL_MIN_SAMPLES (5)
  QualityFailLimit, \* DOWNGRADE_ROLLBACK_QUALITY_FAIL (2)
  ExecFailLimit    \* DOWNGRADE_ROLLBACK_EXEC_FAIL (1)

ASSUME LimitsArePositive ==
  /\ MinSamples \in Nat \ {0}
  /\ QualityFailLimit \in Nat \ {0}
  /\ ExecFailLimit \in Nat \ {0}

ASSUME ModelsHavePrices == Price \in [Models -> Nat]

VARIABLES
  trial,      \* the active row of downgrade_trials for each domain
  stale,      \* the row a slot is about to count on, when it has been closed since
  cooling,    \* rolled-back challengers whose cooldown_until is ahead
  default,    \* the class's row of class_pool_defaults
  task,       \* the report each handler slot is working on
  closed,     \* history: how the last trial of each domain ended, failed or not
  abandoned   \* history: domains where a report died instead of closing

vars == <<trial, stale, cooling, default, task, closed, abandoned>>

-----------------------------------------------------------------------------
None == "none"
Outcomes == {"quality_good", "quality_fail", "exec_fail"}
Results == {"promoted", "rolled_back"}

(* Counters are compared with one threshold each, so they stop there. *)
UpTo(cap, n) == IF n < cap THEN n + 1 ELSE cap

NoTrial == [challenger |-> None]
Trial == [ challenger       : Models,
           incumbent        : Models,
           sampled_requests : 0 .. MinSamples,
           quality_fail     : 0 .. QualityFailLimit,
           exec_fail        : 0 .. ExecFailLimit ]

Active(d) == trial[d] # NoTrial

Failed(t) ==
  t # NoTrial /\ (t.quality_fail >= QualityFailLimit \/ t.exec_fail >= ExecFailLimit)

Cheaper(m) == {c \in Models : Price[c] < Price[m]}

Steps == {"count", "stats", "evaluate", "promote", "readback", "finish",
          "active", "select", "default", "clear", "cooldown", "start"}

Idle == [pc |-> "idle"]

(* `peer' is the challenger the report is about, or has selected; `seen'   *)
(* the default it has read; `result' what it will close the trial with.    *)
Task == [ pc      : Steps,
          domain  : Domains,
          model   : Models,
          outcome : Outcomes,
          peer    : Models \cup {None},
          seen    : Models \cup {None},
          result  : Results ]

TypeOK ==
  /\ trial \in [Domains -> {NoTrial} \cup Trial]
  /\ stale \in [Handlers -> {NoTrial} \cup Trial]
  /\ cooling \subseteq Domains \X Models
  /\ default \in Models \cup {None}
  /\ task \in [Handlers -> {Idle} \cup Task]
  /\ closed \in [Domains -> [result : Results \cup {None}, failed : BOOLEAN]]
  /\ abandoned \in SUBSET Domains

Init ==
  /\ trial = [d \in Domains |-> NoTrial]
  /\ stale = [h \in Handlers |-> NoTrial]
  /\ cooling = {}
  /\ default = None
  /\ task = [h \in Handlers |-> Idle]
  /\ closed = [d \in Domains |-> [result |-> None, failed |-> FALSE]]
  /\ abandoned = {}

-----------------------------------------------------------------------------
Goto(h, pc) == task' = [task EXCEPT ![h].pc = pc]
Return(h) == task' = [task EXCEPT ![h] = Idle]

(* What the engine does with "continue": a good rating goes on to ask      *)
(* whether a trial should start, a failure is done.                        *)
Continue(h, t) ==
  task' = [task EXCEPT ![h] =
    IF t.outcome = "quality_good" THEN [t EXCEPT !.pc = "active"] ELSE Idle]

(* The row of a trial after an outcome of its challenger. *)
Counted(t, outcome) ==
  [t EXCEPT !.sampled_requests = UpTo(MinSamples, @),
            !.quality_fail = IF outcome = "quality_fail" THEN UpTo(QualityFailLimit, @) ELSE @,
            !.exec_fail = IF outcome = "exec_fail" THEN UpTo(ExecFailLimit, @) ELSE @]

(* record_downgrade_result_async on the row it got back. *)
Verdict(t) ==
  IF Failed(t) THEN "rollback"
  ELSE IF t.sampled_requests < MinSamples THEN "continue" ELSE "judge"

(* What a report does about the verdict on a row.  The engine ignores a    *)
(* "rollback" that comes back for a good rating.                           *)
ActOn(h, t, row) ==
  CASE Verdict(row) = "continue" -> Continue(h, t)
    [] Verdict(row) = "judge" ->
         task' = [task EXCEPT ![h] = [t EXCEPT !.pc = "stats", !.peer = row.challenger]]
    [] OTHER ->
         task' = [task EXCEPT ![h] =
           IF t.outcome = "quality_good" THEN Idle
           ELSE [t EXCEPT !.pc = "finish", !.result = "rolled_back"]]

(* record_downgrade_trial_observation reads the active row.  The SELECT    *)
(* opens no transaction, so an outcome of the challenger is counted later. *)
Observe(h, d, m, outcome) ==
  /\ task[h] = Idle
  /\ LET t == [pc |-> "active", domain |-> d, model |-> m, outcome |-> outcome,
               peer |-> None, seen |-> None, result |-> "rolled_back"]
     IN CASE ~Active(d) -> Continue(h, t)
          [] Active(d) /\ m # trial[d].challenger -> ActOn(h, t, trial[d])
          [] OTHER -> task' = [task EXCEPT ![h] = [t EXCEPT !.pc = "count"]]
  /\ UNCHANGED <<trial, stale, cooling, default, closed, abandoned>>

(* The UPDATE goes by the id of the row that was read, closed or not, adds *)
(* to what the row holds now, and the verdict is on the row it leaves.     *)
Count(h) ==
  /\ task[h].pc = "count"
  /\ LET d == task[h].domain
     IN IF stale[h] = NoTrial
        THEN LET row == Counted(trial[d], task[h].outcome)
             IN /\ trial' = [trial EXCEPT ![d] = row]
                /\ ActOn(h, task[h], row)
                /\ UNCHANGED stale
        ELSE LET row == Counted(stale[h], task[h].outcome)
             IN /\ stale' = [g \in Handlers |->
                     IF g = h THEN NoTrial
                     ELSE IF stale[g] = stale[h] /\ task[g].domain = d THEN row
                     ELSE stale[g]]
                /\ ActOn(h, task[h], row)
                /\ UNCHANGED trial
  /\ UNCHANGED <<cooling, default, closed, abandoned>>

(* The challenger's successes are enough for a promotion, or not. *)
ReadStats(h) ==
  /\ task[h].pc = "stats"
  /\ Goto(h, "evaluate") \/ Continue(h, task[h])
  /\ UNCHANGED <<trial, stale, cooling, default, closed, abandoned>>

(* evaluate_and_promote_default_async reads the default first ...          *)
ReadDefault(h) ==
  /\ task[h].pc = "evaluate"
  /\ task' = [task EXCEPT ![h].pc = "promote", ![h].seen = default]
  /\ UNCHANGED <<trial, stale, cooling, default, closed, abandoned>>

(* The trial ends well only when the default that came back is the         *)
(* challenger; failing outcomes are not acted on here.                     *)
Judge(h, current) ==
  IF current # task[h].peer THEN Continue(h, task[h])
  ELSE task' = [task EXCEPT ![h] =
         IF task[h].outcome = "quality_good"
         THEN [task[h] EXCEPT !.pc = "finish", !.result = "promoted"] ELSE Idle]

(* ... and then keeps it (locked, or no candidate leads) or writes the     *)
(* best candidate over whatever the default is by now.                     *)
Promote(h) ==
  /\ task[h].pc = "promote"
  /\ \/ /\ Judge(h, task[h].seen)
        /\ UNCHANGED default
     \/ /\ default' \in Models \ {task[h].seen}
        /\ Goto(h, "readback")
  /\ UNCHANGED <<trial, stale, cooling, closed, abandoned>>

ReadBack(h) ==
  /\ task[h].pc = "readback"
  /\ Judge(h, default)
  /\ UNCHANGED <<trial, stale, cooling, default, closed, abandoned>>

(* Reports that are about to count on the active row of d will count on it *)
(* when it is closed.                                                      *)
Outlived(d) ==
  [g \in Handlers |->
     IF task[g].pc = "count" /\ task[g].domain = d /\ stale[g] = NoTrial
     THEN trial[d] ELSE stale[g]]

(* Mutant: only a promotion closes the row. *)
FinishPromotedOnly(h) ==
  /\ task[h].pc = "finish"
  /\ LET d == task[h].domain
         result == task[h].result
     IN IF Active(d) /\ result = "promoted"
        THEN /\ trial' = [trial EXCEPT ![d] = NoTrial]
             /\ stale' = Outlived(d)
             /\ closed' = [closed EXCEPT ![d] = [result |-> result, failed |-> Failed(trial[d])]]
        ELSE UNCHANGED <<trial, stale, closed>>
  /\ Return(h)
  /\ UNCHANGED <<cooling, default, abandoned>>

(* finish_downgrade_trial closes the row that is active now, by class and  *)
(* domain and not by the row's id.                                         *)
Finish(h) ==
  /\ task[h].pc = "finish"
  /\ LET d == task[h].domain
         result == task[h].result
     IN IF Active(d)
        THEN /\ trial' = [trial EXCEPT ![d] = NoTrial]
             /\ stale' = Outlived(d)
             /\ cooling' = IF result = "rolled_back"
                           THEN cooling \cup {<<d, trial[d].challenger>>} ELSE cooling
             /\ closed' = [closed EXCEPT ![d] = [result |-> result, failed |-> Failed(trial[d])]]
        ELSE UNCHANGED <<trial, stale, cooling, closed>>
  /\ Return(h)
  /\ UNCHANGED <<default, abandoned>>

-----------------------------------------------------------------------------
(* maybe_start_downgrade_trial_async, one await at a time. *)
LookForActive(h) ==
  /\ task[h].pc = "active"
  /\ IF Active(task[h].domain) THEN Return(h) ELSE Goto(h, "select")
  /\ UNCHANGED <<trial, stale, cooling, default, closed, abandoned>>

(* A cheaper candidate with the savings and the streak the rule asks for,  *)
(* or none.                                                                *)
Select(h) ==
  /\ task[h].pc = "select"
  /\ \/ Return(h)
     \/ \E c \in Cheaper(task[h].model) :
          task' = [task EXCEPT ![h].pc = "default", ![h].peer = c]
  /\ UNCHANGED <<trial, stale, cooling, default, closed, abandoned>>

(* The reported model has to be the default; the other reasons not to try  *)
(* are a score gap and a rate limit.  A default that has left the registry *)
(* is also revoked on the way.                                             *)
CheckDefault(h) ==
  /\ task[h].pc = "default"
  /\ \/ default = task[h].model /\ Goto(h, "cooldown")
     \/ default # None /\ Goto(h, "clear")
     \/ Return(h)
  /\ UNCHANGED <<trial, stale, cooling, default, closed, abandoned>>

(* get_default looks the default up in the one row that domains share, but *)
(* clears the row of the domain as the report spells it.                   *)
ClearDefault(h) ==
  /\ task[h].pc = "clear"
  /\ default' = IF task[h].domain = GlobalDomain THEN None ELSE default
  /\ Return(h)
  /\ UNCHANGED <<trial, stale, cooling, closed, abandoned>>

CheckCooldown(h) ==
  /\ task[h].pc = "cooldown"
  /\ IF <<task[h].domain, task[h].peer>> \in cooling THEN Return(h) ELSE Goto(h, "start")
  /\ UNCHANGED <<trial, stale, cooling, default, closed, abandoned>>

(* Mutant: an insert that replaces the active row. *)
StartReplaces(h) ==
  /\ task[h].pc = "start"
  /\ trial' = [trial EXCEPT ![task[h].domain] =
          [challenger |-> task[h].peer, incumbent |-> task[h].model,
           sampled_requests |-> 0, quality_fail |-> 0, exec_fail |-> 0]]
  /\ Return(h)
  /\ UNCHANGED <<stale, cooling, default, closed, abandoned>>

(* start_downgrade_trial: the unique index on active rows refuses a second *)
(* one, and the IntegrityError is a "not started".                         *)
Start(h) ==
  /\ task[h].pc = "start"
  /\ LET d == task[h].domain
     IN IF Active(d) THEN UNCHANGED trial
        ELSE trial' = [trial EXCEPT ![d] =
               [challenger |-> task[h].peer, incumbent |-> task[h].model,
                sampled_requests |-> 0, quality_fail |-> 0, exec_fail |-> 0]]
  /\ Return(h)
  /\ UNCHANGED <<stale, cooling, default, closed, abandoned>>

-----------------------------------------------------------------------------
(* The report dies before its next await. *)
Die(h) ==
  /\ task[h] # Idle
  /\ Return(h)
  /\ abandoned' = IF task[h].pc = "finish" THEN abandoned \cup {task[h].domain} ELSE abandoned
  /\ stale' = [stale EXCEPT ![h] = NoTrial]
  /\ UNCHANGED <<trial, cooling, default, closed>>

(* An operator's override, another report's promotion, a revocation.       *)
DefaultChanges ==
  /\ default' \in (Models \cup {None}) \ {default}
  /\ UNCHANGED <<trial, stale, cooling, task, closed, abandoned>>

CooldownExpires(d, m) ==
  /\ <<d, m>> \in cooling
  /\ cooling' = cooling \ {<<d, m>>}
  /\ UNCHANGED <<trial, stale, default, task, closed, abandoned>>

(* The next await of a report. *)
Advance(h) ==
  \/ Count(h) \/ ReadStats(h) \/ ReadDefault(h) \/ Promote(h) \/ ReadBack(h) \/ Finish(h)
  \/ LookForActive(h) \/ Select(h) \/ CheckDefault(h) \/ ClearDefault(h)
  \/ CheckCooldown(h) \/ Start(h)

Next ==
  \/ \E h \in Handlers :
       \/ \E d \in Domains, m \in Models, outcome \in Outcomes : Observe(h, d, m, outcome)
       \/ Advance(h)
       \/ Die(h)
  \/ DefaultChanges
  \/ \E d \in Domains, m \in Models : CooldownExpires(d, m)

Spec == Init /\ [][Next]_vars

(* A report that was started is run by its event loop. *)
FairSpec == Spec /\ \A h \in Handlers : WF_vars(Advance(h))

-----------------------------------------------------------------------------
(* A challenger that failed its trial is on its way out: some report will  *)
(* close the trial, unless the report that was to do so died.              *)
FailedTrialIsClosing ==
  \A d \in Domains :
    Failed(trial[d]) =>
      \/ d \in abandoned
      \/ \E h \in Handlers : /\ task[h].pc = "finish"
                             /\ task[h].domain = d
                             /\ task[h].result = "rolled_back"

(* A failed trial ends, and if one runs again it is a new one.             *)
FailedTrialEnds ==
  \A d \in Domains : Failed(trial[d]) ~> (~Failed(trial[d]) \/ d \in abandoned)

(* The row of a running trial belongs to it: it ends with the failures it  *)
(* had, is never replaced, and its counts never go down.                   *)
TrialRunsToItsEnd ==
  [][\A d \in Domains : Active(d) =>
       \/ closed'[d].failed = Failed(trial[d]) /\ trial'[d] = NoTrial
       \/ /\ trial'[d].challenger = trial[d].challenger
          /\ trial'[d].incumbent = trial[d].incumbent
          /\ trial'[d].sampled_requests >= trial[d].sampled_requests
          /\ trial'[d].quality_fail >= trial[d].quality_fail
          /\ trial'[d].exec_fail >= trial[d].exec_fail]_vars

(* A trial is rolled back for failures of its own. *)
RollbackIsDeserved ==
  \A d \in Domains : closed[d].result = "rolled_back" => closed[d].failed

(* No trial starts with a challenger that has just been rolled back.       *)
CooldownKept ==
  [][\A d \in Domains : (~Active(d) /\ trial'[d] # NoTrial) =>
       <<d, trial'[d].challenger>> \notin cooling]_vars
=============================================================================
