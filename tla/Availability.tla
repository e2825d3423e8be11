---------------------------- MODULE Availability ----------------------------
(***************************************************************************)
(* The health of a model: the model_availability row kept for it, the      *)
(* per-class failure streaks that degrade it, and the handlers that move   *)
(* both.  HealthManager (router_engine/health.py) runs each report as a    *)
(* coroutine that awaits one storage call after another; a storage call is *)
(* one SQLite transaction (RouterStorage), so an action of this module is  *)
(* one storage call and other handlers run between two of them.            *)
(*                                                                         *)
(* A model without a row behaves as one whose row is fresh: available,     *)
(* with no counter and no timestamp.                                       *)
(*                                                                         *)
(* Time is kept as what the code compares it with: "cooling" is younger    *)
(* than DEGRADED_COOLDOWN_S (of degraded_since) or PROBE_COOLDOWN_S (of    *)
(* last_probe_at), "due" is at least UNABLE_PROBE_INTERVAL_S old.          *)
(***************************************************************************)
EXTENDS Naturals

CONSTANTS
  Models,               \* the registry's model ids
  Classes,              \* agent classes: the streaks are per class and model
  Handlers,             \* slots for reports that are being handled at once
  ExecFailThreshold,    \* EXEC_FAIL_UNABLE_THRESHOLD (3)
  QualityFailThreshold, \* QUALITY_FAIL_DEGRADED_THRESHOLD (5)
  FailResetStreak,      \* successes in a row that clear consecutive_fail (2)
  ProbeGood,            \* PROBE_GOOD_FEEDBACK_THRESHOLD (2)
  ProbeStreak,          \* PROBE_CONSECUTIVE_SUCCESS_THRESHOLD (10)
  ProbeConfigured,      \* HealthManager was given a probe_callback
  MaxCrashes            \* handlers that may die half way (a bound)

ASSUME ThresholdsArePositive ==
  /\ ExecFailThreshold \in Nat \ {0}
  /\ QualityFailThreshold \in Nat \ {0}
  /\ FailResetStreak \in Nat \ {0}
  /\ ProbeGood \in Nat \ {0}
  /\ ProbeStreak \in Nat \ {0}

ASSUME GoodFeedbackDecidesFirst == ProbeGood <= ProbeStreak

ASSUME SwitchesAreWellTyped ==
  /\ ProbeConfigured \in BOOLEAN
  /\ MaxCrashes \in Nat

VARIABLES
  avail,       \* the model_availability row of each model
  stats,       \* class_model_stats: the two streaks of each class and model
  pooled,      \* class_pool: the classes whose pool holds the model
  task,        \* the report each handler slot is working on
  probeQueue,  \* models the probe loop has listed and not yet called
  probing,     \* the probe whose result is still to be written
  reachable,   \* whether a probe of the model would succeed (environment)
  crashes      \* handlers that died so far

vars == <<avail, stats, pooled, task, probeQueue, probing, reachable, crashes>>

-----------------------------------------------------------------------------
(* Counters are compared with one threshold each, so they stop there. *)
UpTo(cap, n) == IF n < cap THEN n + 1 ELSE cap

Status == {"available", "degraded", "unable"}

Row == [ status                    : Status,
         degraded_since            : {"none", "cooling", "elapsed"},
         unable_since              : BOOLEAN,
         consecutive_exec_fail     : 0 .. ExecFailThreshold,
         probe_good_feedback       : 0 .. ProbeGood,
         probe_consecutive_success : 0 .. ProbeStreak,
         last_probe_at             : {"never", "cooling", "resting", "due"},
         last_probe_success        : BOOLEAN ]

FreshRow == [ status |-> "available", degraded_since |-> "none",
              unable_since |-> FALSE, consecutive_exec_fail |-> 0,
              probe_good_feedback |-> 0, probe_consecutive_success |-> 0,
              last_probe_at |-> "never", last_probe_success |-> FALSE ]

Streaks == [ consecutive_success : 0 .. FailResetStreak,
             consecutive_fail    : 0 .. QualityFailThreshold ]

GoodSteps == {"good_read", "good_probe", "good_mark"}
FailSteps == {"fail_read", "fail_probe", "fail_mark"}
ExecSteps == {"exec_mark", "exec_count"}

Idle == [pc |-> "idle"]
Task == [ pc    : GoodSteps \cup FailSteps \cup ExecSteps,
          model : Models,
          trip  : BOOLEAN ]  \* the class streak had reached its threshold
Probe == [model : Models, success : BOOLEAN]

TypeOK ==
  /\ avail \in [Models -> Row]
  /\ stats \in [Classes -> [Models -> Streaks]]
  /\ pooled \in [Models -> SUBSET Classes]
  /\ task \in [Handlers -> {Idle} \cup Task]
  /\ probeQueue \subseteq Models
  /\ probing \subseteq Probe
  /\ reachable \in [Models -> BOOLEAN]
  /\ crashes \in 0 .. MaxCrashes

Init ==
  /\ avail = [m \in Models |-> FreshRow]
  /\ stats = [c \in Classes |-> [m \in Models |->
                [consecutive_success |-> 0, consecutive_fail |-> 0]]]
  /\ pooled = [m \in Models |-> {}]
  /\ task = [h \in Handlers |-> Idle]
  /\ probeQueue = {}
  /\ probing = {}
  /\ reachable \in [Models -> BOOLEAN]
  /\ crashes = 0

-----------------------------------------------------------------------------
(* RouterStorage: what each transaction does to one row.                   *)

MarkUnable(row) ==
  [row EXCEPT !.status = "unable", !.unable_since = TRUE]

(* Mutant of MarkAvailable: recovery that forgets one of the columns. *)
MarkAvailableKeepsExecFail(row) ==
  [row EXCEPT !.status = "available",
              !.degraded_since = "none",
              !.unable_since = FALSE,
              !.probe_good_feedback = 0,
              !.probe_consecutive_success = 0]

MarkAvailable(row) ==
  [row EXCEPT !.status = "available",
              !.degraded_since = "none",
              !.unable_since = FALSE,
              !.consecutive_exec_fail = 0,
              !.probe_good_feedback = 0,
              !.probe_consecutive_success = 0]

ReportExecFailureTransition(row) ==
  LET n == UpTo(ExecFailThreshold, row.consecutive_exec_fail)
  IN  IF n >= ExecFailThreshold /\ row.status # "unable"
      THEN [row EXCEPT !.status = "unable",
                       !.unable_since = TRUE,
                       !.consecutive_exec_fail = 0,
                       !.probe_good_feedback = 0,
                       !.probe_consecutive_success = 0]
      ELSE [row EXCEPT !.consecutive_exec_fail = n]

ResetExecFailCounter(row) == [row EXCEPT !.consecutive_exec_fail = 0]

(* Mutants: degradation that overrides an outage, or starts no cooldown. *)
MarkDegradedOverUnable(row) ==
  [row EXCEPT !.status = "degraded",
              !.degraded_since = "cooling",
              !.probe_good_feedback = 0,
              !.probe_consecutive_success = 0]
MarkDegradedWithoutCooldown(row) ==
  [row EXCEPT !.status = IF @ = "unable" THEN @ ELSE "degraded",
              !.probe_good_feedback = 0,
              !.probe_consecutive_success = 0]

MarkDegradedByQuality(row) ==
  [row EXCEPT !.status = IF @ = "unable" THEN @ ELSE "degraded",
              !.degraded_since = IF row.status = "unable" THEN @ ELSE "cooling",
              !.probe_good_feedback = 0,
              !.probe_consecutive_success = 0]

(* update_probe_testing_feedback changes only a row that is degraded now. *)
GoodProbeFeedback(row) ==
  IF row.status = "degraded"
  THEN [row EXCEPT !.probe_good_feedback = UpTo(ProbeGood, @),
                   !.probe_consecutive_success = UpTo(ProbeStreak, @)]
  ELSE row

(* Mutant: a bad rating that leaves the streak of probes alone. *)
BadProbeFeedbackKeepsStreak(row) ==
  IF row.status = "degraded"
  THEN [row EXCEPT !.degraded_since = "cooling", !.probe_good_feedback = 0]
  ELSE row

BadProbeFeedback(row) ==
  IF row.status = "degraded"
  THEN [row EXCEPT !.degraded_since = "cooling",
                   !.probe_good_feedback = 0,
                   !.probe_consecutive_success = 0]
  ELSE row

UpdateProbeResult(row, success) ==
  LET probed == [row EXCEPT !.last_probe_at = "cooling",
                            !.last_probe_success = success]
  IN  IF success THEN MarkAvailable(probed)
                 ELSE [probed EXCEPT !.status = "unable"]

IncrementSuccess(s) ==
  [ consecutive_success |-> UpTo(FailResetStreak, s.consecutive_success),
    consecutive_fail    |-> IF s.consecutive_success + 1 >= FailResetStreak
                            THEN 0 ELSE s.consecutive_fail ]

IncrementFail(s) ==
  [ consecutive_success |-> 0,
    consecutive_fail    |-> UpTo(QualityFailThreshold, s.consecutive_fail) ]

-----------------------------------------------------------------------------
(* What the selector asks of a model before it routes to it.               *)

Selectable(m) == avail[m].status # "unable"

(* Mutant: any degraded model counts as being probe-tested. *)
CooldownIgnored(row) == row.status = "degraded"

CooldownElapsed(row) ==
  row.status = "degraded" /\ row.degraded_since = "elapsed"

-----------------------------------------------------------------------------
(* Handlers.                                                               *)

Begin(h, pc, m, trip) ==
  /\ task[h].pc = "idle"
  /\ task' = [task EXCEPT ![h] = [pc |-> pc, model |-> m, trip |-> trip]]

Continue(h, pc) ==
  task' = [task EXCEPT ![h] = [pc |-> pc, model |-> task[h].model,
                               trip |-> task[h].trip]]

Finish(h) == task' = [task EXCEPT ![h] = Idle]

Keep == UNCHANGED <<probeQueue, probing, reachable, crashes>>

(* on_quality_good_async: the streak first ... *)
QualityGood(h, c, m) ==
  /\ Begin(h, "good_read", m, FALSE)
  /\ stats' = [stats EXCEPT ![c][m] = IncrementSuccess(@)]
  /\ UNCHANGED <<avail, pooled>> /\ Keep

(* ... then a read that decides whether the model is being probe-tested ... *)
GoodRead(h) ==
  /\ task[h].pc = "good_read"
  /\ IF CooldownElapsed(avail[task[h].model])
     THEN Continue(h, "good_probe") ELSE Finish(h)
  /\ UNCHANGED <<avail, stats, pooled>> /\ Keep

(* ... then the probe counters, which answer with their new values ... *)
GoodProbe(h) ==
  /\ task[h].pc = "good_probe"
  /\ LET m == task[h].model
         row == GoodProbeFeedback(avail[m])
     IN  /\ avail' = [avail EXCEPT ![m] = row]
         /\ IF /\ row.status = "degraded"
               /\ \/ row.probe_good_feedback >= ProbeGood
                  \/ row.probe_consecutive_success >= ProbeStreak
            THEN Continue(h, "good_mark") ELSE Finish(h)
  /\ UNCHANGED <<stats, pooled>> /\ Keep

(* ... and recovery, whatever has become of the row meanwhile. *)
GoodMark(h) ==
  /\ task[h].pc = "good_mark"
  /\ avail' = [avail EXCEPT ![task[h].model] = MarkAvailable(@)]
  /\ Finish(h)
  /\ UNCHANGED <<stats, pooled>> /\ Keep

(* on_quality_fail_async: the new streak decides later whether to degrade. *)
QualityFail(h, c, m) ==
  LET s == IncrementFail(stats[c][m])
  IN  /\ Begin(h, "fail_read", m, s.consecutive_fail >= QualityFailThreshold)
      /\ stats' = [stats EXCEPT ![c][m] = s]
      /\ UNCHANGED <<avail, pooled>> /\ Keep

FailRead(h) ==
  /\ task[h].pc = "fail_read"
  /\ IF CooldownElapsed(avail[task[h].model]) THEN Continue(h, "fail_probe")
     ELSE IF task[h].trip THEN Continue(h, "fail_mark")
     ELSE Finish(h)
  /\ UNCHANGED <<avail, stats, pooled>> /\ Keep

FailProbe(h) ==
  /\ task[h].pc = "fail_probe"
  /\ avail' = [avail EXCEPT ![task[h].model] = BadProbeFeedback(@)]
  /\ Finish(h)
  /\ UNCHANGED <<stats, pooled>> /\ Keep

FailMark(h) ==
  /\ task[h].pc = "fail_mark"
  /\ avail' = [avail EXCEPT ![task[h].model] = MarkDegradedByQuality(@)]
  /\ Finish(h)
  /\ UNCHANGED <<stats, pooled>> /\ Keep

(* _handle_exec_failure_async: with a callback, and a model of the same    *)
(* provider to call, an unreachable provider takes the model down at once. *)
ExecFail(h, m) ==
  /\ \/ ProbeConfigured /\ ~reachable[m] /\ Begin(h, "exec_mark", m, FALSE)
     \/ Begin(h, "exec_count", m, FALSE)
  /\ UNCHANGED <<avail, stats, pooled>> /\ Keep

ExecMark(h) ==
  /\ task[h].pc = "exec_mark"
  /\ avail' = [avail EXCEPT ![task[h].model] = MarkUnable(@)]
  /\ Finish(h)
  /\ UNCHANGED <<stats, pooled>> /\ Keep

(* The transaction also empties the pools of a model that is now unable. *)
ExecCount(h) ==
  /\ task[h].pc = "exec_count"
  /\ LET m == task[h].model
         row == ReportExecFailureTransition(avail[m])
     IN  /\ avail' = [avail EXCEPT ![m] = row]
         /\ pooled' = IF row.status = "unable"
                      THEN [pooled EXCEPT ![m] = {}] ELSE pooled
  /\ Finish(h)
  /\ UNCHANGED stats /\ Keep

(* report_exec_success_async is a single storage call. *)
ExecSuccess(m) ==
  /\ avail' = [avail EXCEPT ![m] = ResetExecFailCounter(@)]
  /\ UNCHANGED <<stats, pooled, task>> /\ Keep

(* A handler dies: its process stops, or a storage call raises. *)
Abandon(h) ==
  /\ task[h].pc # "idle"
  /\ crashes < MaxCrashes
  /\ crashes' = crashes + 1
  /\ Finish(h)
  /\ UNCHANGED <<avail, stats, pooled, probeQueue, probing, reachable>>

(* The pool manager inserts the model in the pool of a class. *)
JoinPool(c, m) ==
  /\ pooled' = [pooled EXCEPT ![m] = @ \cup {c}]
  /\ UNCHANGED <<avail, stats, task>> /\ Keep

-----------------------------------------------------------------------------
(* probe_unable_models_async, run once an hour by probe_loop_async.        *)

(* Mutant: a model that was probed once is never listed again. *)
DueForProbeOnce ==
  {m \in Models : avail[m].status = "unable" /\ avail[m].last_probe_at = "never"}

(* Mutant: every model that was not probed lately, whatever its status. *)
DueForProbeAnyStatus ==
  {m \in Models : avail[m].last_probe_at \in {"never", "due"}}

DueForProbe ==
  {m \in Models : /\ avail[m].status = "unable"
                  /\ avail[m].last_probe_at \in {"never", "due"}}

ProbeList ==
  /\ ProbeConfigured
  /\ probeQueue = {} /\ probing = {}
  /\ DueForProbe # {}
  /\ probeQueue' = DueForProbe
  /\ UNCHANGED <<avail, stats, pooled, task, probing, reachable, crashes>>

ProbeCall(m) ==
  /\ m \in probeQueue /\ probing = {}
  /\ probing' = {[model |-> m, success |-> reachable[m]]}
  /\ probeQueue' = probeQueue \ {m}
  /\ UNCHANGED <<avail, stats, pooled, task, reachable, crashes>>

ProbeWrite ==
  /\ \E p \in probing :
       avail' = [avail EXCEPT ![p.model] = UpdateProbeResult(@, p.success)]
  /\ probing' = {}
  /\ UNCHANGED <<stats, pooled, task, probeQueue, reachable, crashes>>

-----------------------------------------------------------------------------
(* The clock and the providers.                                            *)

DegradedCooldownPasses(m) ==
  /\ avail[m].degraded_since = "cooling"
  /\ avail' = [avail EXCEPT ![m].degraded_since = "elapsed"]
  /\ UNCHANGED <<stats, pooled, task>> /\ Keep

ProbeAges(m) ==
  /\ avail[m].last_probe_at \in {"cooling", "resting"}
  /\ avail' = [avail EXCEPT ![m].last_probe_at =
                              IF @ = "cooling" THEN "resting" ELSE "due"]
  /\ UNCHANGED <<stats, pooled, task>> /\ Keep

ProviderChanges(m) ==
  /\ reachable' = [reachable EXCEPT ![m] = ~@]
  /\ UNCHANGED <<avail, stats, pooled, task, probeQueue, probing, crashes>>

-----------------------------------------------------------------------------
HandlerStep(h) ==
  \/ GoodRead(h) \/ GoodProbe(h) \/ GoodMark(h)
  \/ FailRead(h) \/ FailProbe(h) \/ FailMark(h)
  \/ ExecMark(h) \/ ExecCount(h)

Report(h) ==
  \E m \in Models :
    \/ \E c \in Classes : QualityGood(h, c, m) \/ QualityFail(h, c, m)
    \/ ExecFail(h, m)

Next ==
  \/ \E h \in Handlers : Report(h) \/ HandlerStep(h) \/ Abandon(h)
  \/ \E m \in Models :
       \/ ExecSuccess(m) \/ ProbeCall(m)
       \/ DegradedCooldownPasses(m) \/ ProbeAges(m) \/ ProviderChanges(m)
       \/ \E c \in Classes : JoinPool(c, m)
  \/ ProbeList
  \/ ProbeWrite

Spec == Init /\ [][Next]_vars

(* Coroutines are resumed, the probe loop survives its exceptions and time *)
(* passes; reports, providers and crashes owe nothing.                     *)
Fairness ==
  /\ \A h \in Handlers : WF_vars(HandlerStep(h))
  /\ WF_vars(ProbeList) /\ WF_vars(ProbeWrite)
  /\ \A m \in Models : /\ WF_vars(ProbeCall(m))
                       /\ WF_vars(ProbeAges(m))
                       /\ WF_vars(DegradedCooldownPasses(m))

FairSpec == Spec /\ Fairness

-----------------------------------------------------------------------------
(* The two counters of a probe-testing model are meant to trip at two      *)
(* different thresholds; no order of reports, probes and crashes lets the  *)
(* longer streak be reached before the good feedback has been counted.     *)
ProbeCountersInStep ==
  \A m \in Models :
    avail[m].probe_good_feedback =
      IF avail[m].probe_consecutive_success < ProbeGood
      THEN avail[m].probe_consecutive_success ELSE ProbeGood

(* A model the selector may route to has fewer failed executions in a row  *)
(* than take a model down, however it came to be selectable.               *)
SelectableBelowThreshold ==
  \A m \in Models :
    Selectable(m) => avail[m].consecutive_exec_fail < ExecFailThreshold

(* A model that is available carries nothing over from an earlier          *)
(* degradation or outage, and a degraded one always has a cooldown to end. *)
NoResidue ==
  \A m \in Models :
    /\ avail[m].status = "available" =>
         /\ avail[m].degraded_since = "none"
         /\ ~avail[m].unable_since
         /\ avail[m].probe_good_feedback = 0
         /\ avail[m].probe_consecutive_success = 0
    /\ avail[m].status = "degraded" => avail[m].degraded_since # "none"

(* A degraded model becomes available only when its cooldown has elapsed   *)
(* and the good feedback counted since then reaches the threshold          *)
(* (health.py:60-73, and the reset of health.py:83-91).                    *)
RecoveryIsEarned ==
  [][\A m \in Models :
       (avail[m].status = "degraded" /\ avail'[m].status = "available") =>
         /\ avail[m].degraded_since = "elapsed"
         /\ avail[m].probe_good_feedback >= ProbeGood]_vars

(* A model that is unable stays so until a probe of it succeeds.           *)
UnableLeftOnlyByProbe ==
  [][\A m \in Models :
       (avail[m].status = "unable" /\ avail'[m].status # "unable") =>
         [model |-> m, success |-> TRUE] \in probing \ probing']_vars

(* A probe only ever repairs: its result never takes down a model that is  *)
(* up.                                                                     *)
ProbeNeverTakesDown ==
  [][\A m \in Models :
       (avail[m].status # "unable" /\ avail'[m].status = "unable") =>
         probing' = probing]_vars

(* A model that becomes unable is in no class pool from that step on.      *)
UnableLeavesPools ==
  [][\A m \in Models :
       (avail[m].status # "unable" /\ avail'[m].status = "unable") =>
         pooled'[m] = {}]_vars

(* An unable model whose provider answers is brought back.                 *)
UnableRecovers ==
  \A m \in Models : []<>(avail[m].status # "unable" \/ ~reachable[m])

GoodReportOn(m) ==
  \E h \in Handlers : task[h].pc = "good_read" /\ task[h].model = m

FailureReportOn(m) ==
  \E h \in Handlers : /\ task[h].pc \in FailSteps \cup ExecSteps
                      /\ task[h].model = m

(* A degraded model that keeps receiving good feedback, and eventually no  *)
(* bad one, does not stay degraded.                                        *)
GoodFeedbackRestores ==
  \A m \in Models :
    ([]<>GoodReportOn(m) /\ <>[]~FailureReportOn(m))
      => []<>(avail[m].status # "degraded")
=============================================================================
