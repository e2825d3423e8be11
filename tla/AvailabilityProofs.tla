------------------------- MODULE AvailabilityProofs -------------------------
(***************************************************************************)
(* Availability: type correctness and the three invariants of a model's    *)
(* row, for any sets of models, classes and handlers and any thresholds.   *)
(*                                                                         *)
(* Every action rewrites at most one row, by one of the row operators, so  *)
(* the proof is in two layers: each operator maps a sound row to a sound   *)
(* row, and each action is an instance of one operator or leaves the rows  *)
(* alone.                                                                  *)
(***************************************************************************)
EXTENDS Availability, TLAPS

(* The three invariants, row by row. *)
SoundRow(row) ==
  /\ row \in Row
  /\ row.probe_good_feedback =
       IF row.probe_consecutive_success < ProbeGood
       THEN row.probe_consecutive_success ELSE ProbeGood
  /\ row.status # "unable" => row.consecutive_exec_fail < ExecFailThreshold
  /\ row.status = "available" =>
       /\ row.degraded_since = "none"
       /\ row.unable_since = FALSE
       /\ row.probe_good_feedback = 0
       /\ row.probe_consecutive_success = 0
  /\ row.status = "degraded" => row.degraded_since # "none"

IInv ==
  /\ TypeOK
  /\ \A m \in Models : SoundRow(avail[m])

-----------------------------------------------------------------------------
(* A row that was never written is sound. *)
LEMMA FreshRowSound == SoundRow(FreshRow)
BY ThresholdsArePositive, GoodFeedbackDecidesFirst
DEF SoundRow, FreshRow, Row, Status

(* Zero is a value of every counter, and a counter stays within its cap. *)
LEMMA Counters ==
  /\ 0 \in 0 .. ExecFailThreshold
  /\ 0 \in 0 .. ProbeGood
  /\ 0 \in 0 .. ProbeStreak
  /\ \A n \in 0 .. ExecFailThreshold :
       UpTo(ExecFailThreshold, n) \in 0 .. ExecFailThreshold
  /\ \A n \in 0 .. ProbeGood : UpTo(ProbeGood, n) \in 0 .. ProbeGood
  /\ \A n \in 0 .. ProbeStreak : UpTo(ProbeStreak, n) \in 0 .. ProbeStreak
BY ThresholdsArePositive DEF UpTo

(* Each storage transaction maps a sound row to a sound row: first to a    *)
(* row at all, then to a sound one.                                        *)
LEMMA MarkUnableSound ==
  ASSUME NEW row, SoundRow(row)
  PROVE  SoundRow(MarkUnable(row))
<1>1. MarkUnable(row) \in Row
  BY Counters, Zenon DEF SoundRow, MarkUnable, Row, Status
<1> QED
  BY <1>1, ThresholdsArePositive, GoodFeedbackDecidesFirst
  DEF SoundRow, MarkUnable, Row, Status

(* Recovery clears every column that a sound row ties to being up. *)
LEMMA MarkAvailableSound ==
  ASSUME NEW row, SoundRow(row)
  PROVE  SoundRow(MarkAvailable(row))
<1>1. MarkAvailable(row) \in Row
  BY Counters, Zenon DEF SoundRow, MarkAvailable, Row, Status
<1> QED
  BY <1>1, ThresholdsArePositive, GoodFeedbackDecidesFirst
  DEF SoundRow, MarkAvailable, Row, Status

(* Counting a failure stops below the threshold, or takes the model down. *)
LEMMA ReportExecFailureTransitionSound ==
  ASSUME NEW row, SoundRow(row)
  PROVE  SoundRow(ReportExecFailureTransition(row))
<1>1. ReportExecFailureTransition(row) \in Row
  BY Counters, Zenon DEF SoundRow, ReportExecFailureTransition, Row, Status
<1> QED
  BY <1>1, ThresholdsArePositive, GoodFeedbackDecidesFirst
  DEF SoundRow, ReportExecFailureTransition, Row, Status, UpTo

(* A success only lowers a counter. *)
LEMMA ResetExecFailCounterSound ==
  ASSUME NEW row, SoundRow(row)
  PROVE  SoundRow(ResetExecFailCounter(row))
<1>1. ResetExecFailCounter(row) \in Row
  BY Counters, Zenon DEF SoundRow, ResetExecFailCounter, Row, Status
<1> QED
  BY <1>1, ThresholdsArePositive, GoodFeedbackDecidesFirst
  DEF SoundRow, ResetExecFailCounter, Row, Status

(* Degradation clears the credit, and starts a cooldown unless unable. *)
LEMMA MarkDegradedByQualitySound ==
  ASSUME NEW row, SoundRow(row)
  PROVE  SoundRow(MarkDegradedByQuality(row))
<1>1. MarkDegradedByQuality(row) \in Row
  BY Counters, Zenon DEF SoundRow, MarkDegradedByQuality, Row, Status
<1> QED
  BY <1>1, ThresholdsArePositive, GoodFeedbackDecidesFirst
  DEF SoundRow, MarkDegradedByQuality, Row, Status

(* The two probe counters move together. *)
LEMMA GoodProbeFeedbackSound ==
  ASSUME NEW row, SoundRow(row)
  PROVE  SoundRow(GoodProbeFeedback(row))
<1>1. GoodProbeFeedback(row) \in Row
  BY Counters, Zenon DEF SoundRow, GoodProbeFeedback, Row, Status
<1> QED
  BY <1>1, ThresholdsArePositive, GoodFeedbackDecidesFirst
  DEF SoundRow, GoodProbeFeedback, Row, Status, UpTo

(* The two probe counters are cleared together. *)
LEMMA BadProbeFeedbackSound ==
  ASSUME NEW row, SoundRow(row)
  PROVE  SoundRow(BadProbeFeedback(row))
<1>1. BadProbeFeedback(row) \in Row
  BY Counters, Zenon DEF SoundRow, BadProbeFeedback, Row, Status
<1> QED
  BY <1>1, ThresholdsArePositive, GoodFeedbackDecidesFirst
  DEF SoundRow, BadProbeFeedback, Row, Status

(* A probe recovers the row, or marks it unable as it stands. *)
LEMMA UpdateProbeResultSound ==
  ASSUME NEW row, SoundRow(row), NEW success \in BOOLEAN
  PROVE  SoundRow(UpdateProbeResult(row, success))
<1>1. UpdateProbeResult(row, success) \in Row
  BY Counters, Zenon DEF SoundRow, UpdateProbeResult, Row, Status, MarkAvailable
<1> QED
  BY <1>1, ThresholdsArePositive, GoodFeedbackDecidesFirst
  DEF SoundRow, UpdateProbeResult, Row, Status, MarkAvailable

(* So does time. *)
LEMMA ClockSound ==
  ASSUME NEW row, SoundRow(row)
  PROVE  /\ row.degraded_since = "cooling" =>
              SoundRow([row EXCEPT !.degraded_since = "elapsed"])
         /\ SoundRow([row EXCEPT !.last_probe_at =
                        IF @ = "cooling" THEN "resting" ELSE "due"])
BY DEF SoundRow, Row, Status

(* The class streaks stay within their caps. *)
LEMMA StreaksTyped ==
  ASSUME NEW s \in Streaks
  PROVE  IncrementSuccess(s) \in Streaks /\ IncrementFail(s) \in Streaks
BY ThresholdsArePositive DEF Streaks, IncrementSuccess, IncrementFail, UpTo

(* Rewriting one row soundly keeps all rows sound. *)
LEMMA RowwiseSound ==
  ASSUME avail \in [Models -> Row], \A m \in Models : SoundRow(avail[m]),
         NEW m \in Models, NEW row, SoundRow(row)
  PROVE  LET a == [avail EXCEPT ![m] = row]
         IN  a \in [Models -> Row] /\ \A k \in Models : SoundRow(a[k])
BY DEF SoundRow

(* What a busy slot holds, and what a handler step leaves in it. *)
LEMMA TaskTyped ==
  ASSUME task \in [Handlers -> {Idle} \cup Task],
         NEW h \in Handlers, task[h].pc # "idle"
  PROVE  /\ task[h] \in Task
         /\ task[h].model \in Models
         /\ Finish(h) => task' \in [Handlers -> {Idle} \cup Task]
         /\ \A pc \in GoodSteps \cup FailSteps \cup ExecSteps :
              Continue(h, pc) => task' \in [Handlers -> {Idle} \cup Task]
BY DEF Idle, Task, Finish, Continue

(* A report that arrives has the type of one. *)
LEMMA BeginTyped ==
  ASSUME task \in [Handlers -> {Idle} \cup Task],
         NEW h \in Handlers, NEW m \in Models, NEW trip \in BOOLEAN,
         NEW pc \in GoodSteps \cup FailSteps \cup ExecSteps,
         Begin(h, pc, m, trip)
  PROVE  task' \in [Handlers -> {Idle} \cup Task]
BY DEF Begin, Task

-----------------------------------------------------------------------------
(* The inductive invariant. *)
LEMMA IInvInit == Init => IInv
<1> SUFFICES ASSUME Init PROVE IInv
  OBVIOUS
<1>1. \A m \in Models : SoundRow(avail[m])
  BY FreshRowSound DEF Init
<1>2. TypeOK
  BY <1>1, ThresholdsArePositive, SwitchesAreWellTyped
  DEF Init, TypeOK, SoundRow, Streaks
<1> QED
  BY <1>1, <1>2 DEF IInv

(* A report that arrives touches no row. *)
LEMMA ReportKeepsIInv ==
  ASSUME IInv, NEW h \in Handlers, Report(h) PROVE IInv'
<1> PICK m \in Models :
      \/ \E c \in Classes : QualityGood(h, c, m) \/ QualityFail(h, c, m)
      \/ ExecFail(h, m)
  BY DEF Report
<1>1. ASSUME NEW c \in Classes, QualityGood(h, c, m) PROVE IInv'
  <2>1. stats' \in [Classes -> [Models -> Streaks]]
    BY <1>1, StreaksTyped DEF IInv, TypeOK, QualityGood
  <2>2. task' \in [Handlers -> {Idle} \cup Task]
    BY <1>1, BeginTyped DEF IInv, TypeOK, QualityGood, GoodSteps
  <2> QED
    BY <1>1, <2>1, <2>2 DEF IInv, TypeOK, QualityGood, Keep
<1>2. ASSUME NEW c \in Classes, QualityFail(h, c, m) PROVE IInv'
  <2> DEFINE trip == IncrementFail(stats[c][m]).consecutive_fail
                       >= QualityFailThreshold
  <2>1. stats' \in [Classes -> [Models -> Streaks]]
    BY <1>2, StreaksTyped DEF IInv, TypeOK, QualityFail
  <2>2. trip \in BOOLEAN /\ Begin(h, "fail_read", m, trip)
    BY <1>2 DEF QualityFail
  <2> HIDE DEF trip
  <2>3. task' \in [Handlers -> {Idle} \cup Task]
    BY <2>2, BeginTyped DEF IInv, TypeOK, FailSteps
  <2> QED
    BY <1>2, <2>1, <2>3 DEF IInv, TypeOK, QualityFail, Keep
<1>3. CASE ExecFail(h, m)
  <2>1. task' \in [Handlers -> {Idle} \cup Task]
    BY <1>3, BeginTyped DEF IInv, TypeOK, ExecFail, ExecSteps
  <2> QED
    BY <1>3, <2>1 DEF IInv, TypeOK, ExecFail, Keep
<1> QED
  BY <1>1, <1>2, <1>3

(* Every await of a report writes a sound row. *)
LEMMA HandlerStepKeepsIInv ==
  ASSUME IInv, NEW h \in Handlers, HandlerStep(h) PROVE IInv'
<1> DEFINE m == task[h].model
<1>1. task[h].pc # "idle"
  BY DEF HandlerStep, GoodRead, GoodProbe, GoodMark, FailRead, FailProbe,
         FailMark, ExecMark, ExecCount
<1>2. m \in Models /\ SoundRow(avail[m])
  BY <1>1, TaskTyped DEF IInv, TypeOK
<1>3. ASSUME task' \in [Handlers -> {Idle} \cup Task], NEW row, SoundRow(row),
             avail' = [avail EXCEPT ![m] = row],
             pooled' \in [Models -> SUBSET Classes], UNCHANGED stats, Keep
      PROVE  IInv'
  BY <1>2, <1>3, RowwiseSound DEF IInv, TypeOK, Keep
<1>4. Finish(h) => task' \in [Handlers -> {Idle} \cup Task]
  BY <1>1, TaskTyped DEF IInv, TypeOK
<1>5. \A pc \in GoodSteps \cup FailSteps \cup ExecSteps :
        Continue(h, pc) => task' \in [Handlers -> {Idle} \cup Task]
  BY <1>1, TaskTyped DEF IInv, TypeOK
<1>6. CASE GoodRead(h)
  BY <1>6, <1>4, <1>5 DEF GoodRead, IInv, TypeOK, Keep, GoodSteps
<1>7. CASE GoodProbe(h)
  <2>1. SoundRow(GoodProbeFeedback(avail[m]))
    BY <1>2, GoodProbeFeedbackSound
  <2>2. task' \in [Handlers -> {Idle} \cup Task]
    BY <1>7, <1>4, <1>5 DEF GoodProbe, GoodSteps
  <2> QED
    BY <1>7, <1>3, <2>1, <2>2 DEF GoodProbe, IInv, TypeOK
<1>8. CASE GoodMark(h)
  <2>1. SoundRow(MarkAvailable(avail[m]))
    BY <1>2, MarkAvailableSound
  <2> QED
    BY <1>8, <1>3, <1>4, <2>1 DEF GoodMark, IInv, TypeOK
<1>9. CASE FailRead(h)
  BY <1>9, <1>4, <1>5 DEF FailRead, IInv, TypeOK, Keep, FailSteps
<1>10. CASE FailProbe(h)
  <2>1. SoundRow(BadProbeFeedback(avail[m]))
    BY <1>2, BadProbeFeedbackSound
  <2> QED
    BY <1>10, <1>3, <1>4, <2>1 DEF FailProbe, IInv, TypeOK
<1>11. CASE FailMark(h)
  <2>1. SoundRow(MarkDegradedByQuality(avail[m]))
    BY <1>2, MarkDegradedByQualitySound
  <2> QED
    BY <1>11, <1>3, <1>4, <2>1 DEF FailMark, IInv, TypeOK
<1>12. CASE ExecMark(h)
  <2>1. SoundRow(MarkUnable(avail[m]))
    BY <1>2, MarkUnableSound
  <2> QED
    BY <1>12, <1>3, <1>4, <2>1 DEF ExecMark, IInv, TypeOK
<1>13. CASE ExecCount(h)
  <2>1. SoundRow(ReportExecFailureTransition(avail[m]))
    BY <1>2, ReportExecFailureTransitionSound
  <2>2. pooled' \in [Models -> SUBSET Classes]
    BY <1>13 DEF ExecCount, IInv, TypeOK
  <2> QED
    BY <1>13, <1>3, <1>4, <2>1, <2>2 DEF ExecCount
<1> QED
  BY <1>6, <1>7, <1>8, <1>9, <1>10, <1>11, <1>12, <1>13 DEF HandlerStep

(* So do successes and the clock. *)
LEMMA EnvironmentKeepsIInv ==
  ASSUME IInv, NEW m \in Models,
         \/ ExecSuccess(m) \/ DegradedCooldownPasses(m) \/ ProbeAges(m)
  PROVE  IInv'
<1>1. SoundRow(avail[m])
  BY DEF IInv
<1>2. ASSUME NEW row, SoundRow(row), avail' = [avail EXCEPT ![m] = row],
             UNCHANGED <<stats, pooled, task>>, Keep
      PROVE  IInv'
  BY <1>2, RowwiseSound DEF IInv, TypeOK, Keep
<1>3. CASE ExecSuccess(m)
  BY <1>1, <1>2, <1>3, ResetExecFailCounterSound DEF ExecSuccess
<1>4. CASE DegradedCooldownPasses(m)
  BY <1>1, <1>2, <1>4, ClockSound DEF DegradedCooldownPasses
<1>5. CASE ProbeAges(m)
  BY <1>1, <1>2, <1>5, ClockSound DEF ProbeAges
<1> QED
  BY <1>3, <1>4, <1>5

(* So does the result of a probe. *)
LEMMA ProbeWriteKeepsIInv == IInv /\ ProbeWrite => IInv'
<1> SUFFICES ASSUME IInv, ProbeWrite PROVE IInv'
  OBVIOUS
<1> PICK p \in probing :
      avail' = [avail EXCEPT ![p.model] = UpdateProbeResult(@, p.success)]
  BY DEF ProbeWrite
<1>1. p.model \in Models /\ p.success \in BOOLEAN /\ SoundRow(avail[p.model])
  BY DEF IInv, TypeOK, Probe
<1>2. SoundRow(UpdateProbeResult(avail[p.model], p.success))
  BY <1>1, UpdateProbeResultSound
<1>3. avail' = [avail EXCEPT ![p.model] =
                  UpdateProbeResult(avail[p.model], p.success)]
  BY <1>1 DEF IInv, TypeOK
<1>4. avail' \in [Models -> Row] /\ \A k \in Models : SoundRow(avail'[k])
  BY <1>1, <1>2, <1>3, RowwiseSound DEF IInv, TypeOK
<1> QED
  BY <1>4 DEF IInv, TypeOK, ProbeWrite

(* Every step keeps every row sound. *)
LEMMA IInvNext == IInv /\ [Next]_vars => IInv'
<1> SUFFICES ASSUME IInv, [Next]_vars PROVE IInv'
  OBVIOUS
<1>1. CASE UNCHANGED vars
  BY <1>1 DEF IInv, TypeOK, vars
<1>2. ASSUME NEW h \in Handlers, Abandon(h) PROVE IInv'
  <2>1. task' \in [Handlers -> {Idle} \cup Task]
    BY <1>2, TaskTyped DEF IInv, TypeOK, Abandon
  <2>2. crashes' \in 0 .. MaxCrashes
    BY <1>2, SwitchesAreWellTyped DEF IInv, TypeOK, Abandon
  <2> QED
    BY <1>2, <2>1, <2>2 DEF IInv, TypeOK, Abandon
<1>3. ASSUME NEW m \in Models, ProbeCall(m) PROVE IInv'
  BY <1>3 DEF IInv, TypeOK, ProbeCall, Probe
<1>4. ASSUME NEW m \in Models, ProviderChanges(m) PROVE IInv'
  BY <1>4 DEF IInv, TypeOK, ProviderChanges
<1>5. ASSUME NEW m \in Models, NEW c \in Classes, JoinPool(c, m) PROVE IInv'
  BY <1>5 DEF IInv, TypeOK, JoinPool, Keep
<1>6. CASE ProbeList
  BY <1>6 DEF IInv, TypeOK, ProbeList, DueForProbe
<1> QED
  BY <1>1, <1>2, <1>3, <1>4, <1>5, <1>6, ReportKeepsIInv,
     HandlerStepKeepsIInv, EnvironmentKeepsIInv, ProbeWriteKeepsIInv DEF Next

(* The rows stay sound under every interleaving of reports, probes, clock  *)
(* and crashes.                                                            *)
THEOREM RowsStaySound == Spec => []IInv
BY IInvInit, IInvNext, PTL DEF Spec

-----------------------------------------------------------------------------
(* Every variable keeps its type, for all constants. *)
THEOREM TypeCorrect == Spec => []TypeOK
BY RowsStaySound, PTL DEF IInv

(* The longer probe-testing streak never decides a recovery: whenever it   *)
(* could, the good feedback has already reached its threshold.             *)
THEOREM CountersInStep == Spec => []ProbeCountersInStep
<1>1. IInv => ProbeCountersInStep
  BY DEF IInv, SoundRow, ProbeCountersInStep
<1> QED
  BY <1>1, RowsStaySound, PTL

(* No handler order makes a model selectable with the failures that take   *)
(* it down still on its account.                                           *)
THEOREM SelectableModelsAreBelowThreshold ==
  Spec => []SelectableBelowThreshold
<1>1. IInv => SelectableBelowThreshold
  BY DEF IInv, SoundRow, SelectableBelowThreshold, Selectable
<1> QED
  BY <1>1, RowsStaySound, PTL

(* Available models carry no residue, degraded ones have a cooldown. *)
THEOREM AvailableModelsAreClean == Spec => []NoResidue
<1>1. IInv => NoResidue
  BY DEF IInv, SoundRow, NoResidue
<1> QED
  BY <1>1, RowsStaySound, PTL
-----------------------------------------------------------------------------
(* Without a probe callback nothing is ever probed, so the only way down   *)
(* is the transition that also empties the pools.                          *)
NothingProbed ==
  /\ probeQueue = {} /\ probing = {}
  /\ \A h \in Handlers : task[h].pc # "exec_mark"

(* Without a callback nothing is ever probed or marked unreachable. *)
LEMMA NothingProbedInvariant ==
  ASSUME ~ProbeConfigured PROVE Spec => []NothingProbed
<1>1. Init => NothingProbed
  BY DEF Init, NothingProbed, Idle
<1>2. TypeOK /\ NothingProbed /\ [Next]_vars => NothingProbed'
  <2> SUFFICES ASSUME TypeOK, NothingProbed, [Next]_vars PROVE NothingProbed'
    OBVIOUS
  <2>1. ASSUME NEW h \in Handlers, Report(h) PROVE NothingProbed'
    BY <2>1 DEF TypeOK, NothingProbed, Report, QualityGood, QualityFail,
                ExecFail, Begin, Keep
  <2>2. ASSUME NEW h \in Handlers, HandlerStep(h) PROVE NothingProbed'
    BY <2>2 DEF TypeOK, NothingProbed, HandlerStep, GoodRead, GoodProbe,
                GoodMark, FailRead, FailProbe, FailMark, ExecMark, ExecCount,
                Continue, Finish, Idle, Keep
  <2>3. ASSUME NEW h \in Handlers, Abandon(h) PROVE NothingProbed'
    BY <2>3 DEF TypeOK, NothingProbed, Abandon, Finish, Idle
  <2>4. ASSUME NEW m \in Models,
               \/ ExecSuccess(m) \/ ProbeCall(m) \/ DegradedCooldownPasses(m)
               \/ ProbeAges(m) \/ ProviderChanges(m)
               \/ \E c \in Classes : JoinPool(c, m)
        PROVE  NothingProbed'
    BY <2>4 DEF NothingProbed, ExecSuccess, ProbeCall, DegradedCooldownPasses,
                ProbeAges, ProviderChanges, JoinPool, Keep
  <2>5. CASE ProbeList \/ ProbeWrite
    BY <2>5 DEF NothingProbed, ProbeList, ProbeWrite
  <2>6. CASE UNCHANGED vars
    BY <2>6 DEF NothingProbed, vars
  <2> QED
    BY <2>1, <2>2, <2>3, <2>4, <2>5, <2>6 DEF Next
<1> QED
  BY <1>1, <1>2, TypeCorrect, PTL DEF Spec

(* What each row operator does to the status. *)
LEMMA StatusChanges ==
  ASSUME NEW row \in Row
  PROVE  /\ MarkAvailable(row).status = "available"
         /\ row.status # "unable" => MarkDegradedByQuality(row).status # "unable"
         /\ GoodProbeFeedback(row).status = row.status
         /\ BadProbeFeedback(row).status = row.status
         /\ ResetExecFailCounter(row).status = row.status
         /\ [row EXCEPT !.degraded_since = "elapsed"].status = row.status
         /\ [row EXCEPT !.last_probe_at = IF @ = "cooling" THEN "resting"
                                          ELSE "due"].status = row.status
BY DEF Row, MarkAvailable, MarkDegradedByQuality, GoodProbeFeedback,
       BadProbeFeedback, ResetExecFailCounter

(* In the engine's own wiring a model that becomes unable leaves all pools *)
(* in the same step.                                                       *)
THEOREM UnableModelsLeavePools ==
  ASSUME ~ProbeConfigured PROVE Spec => UnableLeavesPools
<1> DEFINE WentDown(m) ==
      avail[m].status # "unable" /\ avail'[m].status = "unable"
<1>1. TypeOK /\ NothingProbed /\ [Next]_vars =>
        [\A m \in Models : WentDown(m) => pooled'[m] = {}]_vars
  <2> SUFFICES ASSUME TypeOK, NothingProbed, [Next]_vars,
                      NEW m \in Models, WentDown(m)
               PROVE  pooled'[m] = {}
    OBVIOUS
  <2>1. \A k \in Models : avail[k] \in Row
    BY DEF TypeOK
  <2>2. ASSUME NEW h \in Handlers, HandlerStep(h) PROVE pooled'[m] = {}
    <3>1. task[h].model \in Models
      BY <2>2, TaskTyped DEF TypeOK, HandlerStep, GoodRead, GoodProbe,
         GoodMark, FailRead, FailProbe, FailMark, ExecMark, ExecCount
    <3>2. CASE GoodRead(h) \/ FailRead(h)
      BY <3>2 DEF GoodRead, FailRead
    <3>3. CASE GoodProbe(h)
      BY <3>1, <3>3, <2>1, StatusChanges DEF GoodProbe, TypeOK
    <3>4. CASE GoodMark(h)
      BY <3>1, <3>4, <2>1, StatusChanges DEF GoodMark, TypeOK
    <3>5. CASE FailProbe(h)
      BY <3>1, <3>5, <2>1, StatusChanges DEF FailProbe, TypeOK
    <3>6. CASE FailMark(h)
      BY <3>1, <3>6, <2>1, StatusChanges DEF FailMark, TypeOK
    <3>7. CASE ExecMark(h)
      BY <3>7 DEF ExecMark, NothingProbed
    <3>8. CASE ExecCount(h)
      BY <3>1, <3>8 DEF ExecCount, TypeOK
    <3> QED
      BY <2>2, <3>2, <3>3, <3>4, <3>5, <3>6, <3>7, <3>8 DEF HandlerStep
  <2>3. ASSUME NEW k \in Models,
               ExecSuccess(k) \/ DegradedCooldownPasses(k) \/ ProbeAges(k)
        PROVE  pooled'[m] = {}
    <3>1. CASE ExecSuccess(k)
      BY <3>1, <2>1, StatusChanges DEF TypeOK, ExecSuccess
    <3>2. CASE DegradedCooldownPasses(k)
      <4>1. avail' = [avail EXCEPT ![k] =
                        [avail[k] EXCEPT !.degraded_since = "elapsed"]]
        BY <3>2 DEF DegradedCooldownPasses
      <4> QED
        BY <4>1, <2>1, StatusChanges DEF TypeOK
    <3>3. CASE ProbeAges(k)
      <4>1. avail' = [avail EXCEPT ![k] = [avail[k] EXCEPT !.last_probe_at =
                        IF @ = "cooling" THEN "resting" ELSE "due"]]
        BY <3>3 DEF ProbeAges
      <4> QED
        BY <4>1, <2>1, StatusChanges DEF TypeOK
    <3> QED
      BY <2>3, <3>1, <3>2, <3>3
  <2>4. ASSUME UNCHANGED avail PROVE pooled'[m] = {}
    BY <2>4
  <2> QED
    BY <2>2, <2>3, <2>4 DEF Next, vars, Report, QualityGood, QualityFail,
       ExecFail, Abandon, ProbeCall, ProviderChanges, JoinPool, ProbeList,
       ProbeWrite, NothingProbed
<1> QED
  BY <1>1, NothingProbedInvariant, TypeCorrect, PTL DEF Spec, UnableLeavesPools

-----------------------------------------------------------------------------
(* Two reports on one model may interleave and break what follows: a       *)
(* recovery is decided before an outage and written after it.  Nothing in  *)
(* HealthManager excludes that, so it is a hypothesis about the behaviour: *)
(* reports may overlap, but not two of them on the same model.  The probe  *)
(* loop, the clock, the providers, crashes and the reports that are single *)
(* transactions stay free to run between any two steps.                    *)
OneReportPerModel ==
  \A g, h \in Handlers :
    (/\ task[g].pc # "idle" /\ task[h].pc # "idle"
     /\ task[g].model = task[h].model) => g = h

(* What a pending recovery relies on, and what the probe loop relies on.   *)
SerialInv ==
  /\ \A m \in probeQueue : avail[m].status = "unable"
  /\ \A p \in probing : /\ avail[p.model].status = "unable"
                        /\ p.model \notin probeQueue
  /\ \A h \in Handlers :
       /\ task[h].pc \in {"good_probe", "good_mark", "fail_probe"} =>
            CooldownElapsed(avail[task[h].model])
       /\ task[h].pc = "good_mark" =>
            avail[task[h].model].probe_good_feedback >= ProbeGood

(* Only recovery and a probe that succeeds lift an outage.                 *)
LEMMA OutageStays ==
  ASSUME NEW row \in Row, row.status = "unable"
  PROVE  /\ MarkUnable(row).status = "unable"
         /\ ReportExecFailureTransition(row).status = "unable"
         /\ ResetExecFailCounter(row).status = "unable"
         /\ MarkDegradedByQuality(row).status = "unable"
         /\ GoodProbeFeedback(row).status = "unable"
         /\ BadProbeFeedback(row).status = "unable"
         /\ UpdateProbeResult(row, FALSE).status = "unable"
         /\ [row EXCEPT !.degraded_since = "elapsed"].status = "unable"
         /\ \A v : [row EXCEPT !.last_probe_at = v].status = "unable"
BY DEF Row, MarkUnable, ReportExecFailureTransition, ResetExecFailCounter,
       MarkDegradedByQuality, GoodProbeFeedback, BadProbeFeedback,
       UpdateProbeResult

(* What runs beside a report leaves a probe-tested model's cooldown and    *)
(* good feedback as they are.                                              *)
LEMMA ProbeTestingStays ==
  ASSUME NEW row \in Row, CooldownElapsed(row)
  PROVE  /\ CooldownElapsed(ResetExecFailCounter(row))
         /\ ResetExecFailCounter(row).probe_good_feedback
              = row.probe_good_feedback
         /\ \A v : LET aged == [row EXCEPT !.last_probe_at = v]
                   IN  /\ CooldownElapsed(aged)
                       /\ aged.probe_good_feedback = row.probe_good_feedback
BY DEF Row, CooldownElapsed, ResetExecFailCounter

(* Good feedback on a probe-tested model keeps it one; when either counter *)
(* trips, it is the good feedback that has reached its threshold.          *)
LEMMA GoodFeedbackCounts ==
  ASSUME NEW row, SoundRow(row), CooldownElapsed(row),
         NEW new, new = GoodProbeFeedback(row)
  PROVE  /\ CooldownElapsed(new)
         /\ (\/ new.probe_good_feedback >= ProbeGood
             \/ new.probe_consecutive_success >= ProbeStreak)
              => new.probe_good_feedback >= ProbeGood
<1>1. SoundRow(new)
  BY GoodProbeFeedbackSound
<1>2. CooldownElapsed(new)
  BY DEF SoundRow, Row, CooldownElapsed, GoodProbeFeedback
<1> QED
  BY <1>1, <1>2, ThresholdsArePositive, GoodFeedbackDecidesFirst
  DEF SoundRow, Row

(* A rewritten row, seen from any model. *)
LEMMA RowOf ==
  ASSUME avail \in [Models -> Row], NEW m \in Models, NEW row,
         avail' = [avail EXCEPT ![m] = row]
  PROVE  /\ avail'[m] = row
         /\ \A k \in Models : k # m => avail'[k] = avail[k]
OBVIOUS

(* A report that has just arrived is not yet about a probe. *)
LEMMA ReportKeepsSerialInv ==
  ASSUME IInv, SerialInv, NEW h \in Handlers, Report(h) PROVE SerialInv'
<1>1. UNCHANGED <<avail, probeQueue, probing>>
  BY DEF Report, QualityGood, QualityFail, ExecFail, Keep
<1> DEFINE Started(pc) == /\ task'[h].pc = pc
                          /\ \A g \in Handlers : g # h => task'[g] = task[g]
<1>2. ASSUME NEW pc, NEW m, NEW trip, Begin(h, pc, m, trip) PROVE Started(pc)
  BY <1>2 DEF Begin, IInv, TypeOK
<1>3. \/ Started("good_read") \/ Started("fail_read")
      \/ Started("exec_mark") \/ Started("exec_count")
  <2>1. ASSUME NEW m \in Models, NEW c \in Classes,
               QualityGood(h, c, m) \/ QualityFail(h, c, m)
        PROVE  Started("good_read") \/ Started("fail_read")
    BY <1>2, <2>1 DEF QualityGood, QualityFail
  <2>2. ASSUME NEW m \in Models, ExecFail(h, m)
        PROVE  Started("exec_mark") \/ Started("exec_count")
    BY <1>2, <2>2 DEF ExecFail
  <2> QED
    BY <2>1, <2>2 DEF Report
<1> QED
  BY <1>1, <1>3 DEF SerialInv, CooldownElapsed

(* A report moves on: it never lifts the outage of a model that is   *)
(* queued for a probe.                                                     *)
LEMMA HandlerStepKeepsSerialInv ==
  ASSUME OneReportPerModel, IInv, SerialInv, NEW h \in Handlers,
         HandlerStep(h)
  PROVE  SerialInv'
<1>1. UNCHANGED <<probeQueue, probing>>
  BY DEF HandlerStep, GoodRead, GoodProbe, GoodMark, FailRead, FailProbe,
         FailMark, ExecMark, ExecCount, Keep
<1> DEFINE m == task[h].model
<1>2. /\ task \in [Handlers -> {Idle} \cup Task]
      /\ avail \in [Models -> Row]
      /\ \A p \in probing : p.model \in Models
      /\ probeQueue \subseteq Models
  BY DEF IInv, TypeOK, Probe
<1>3. task[h].pc # "idle"
  BY DEF HandlerStep, GoodRead, GoodProbe, GoodMark, FailRead, FailProbe,
         FailMark, ExecMark, ExecCount
<1>4. m \in Models /\ SoundRow(avail[m]) /\ avail[m] \in Row
  BY <1>2, <1>3, TaskTyped DEF IInv
<1>5. \A k \in Models : k # m => avail'[k] = avail[k]
  BY <1>2, <1>4 DEF HandlerStep, GoodRead, GoodProbe, GoodMark, FailRead,
     FailProbe, FailMark, ExecMark, ExecCount
<1> DEFINE Aside(g) == /\ task'[g] = task[g]
                       /\ task[g].pc # "idle" =>
                            avail'[task[g].model] = avail[task[g].model]
<1>6. \A g \in Handlers : g # h => Aside(g)
  <2> SUFFICES ASSUME NEW g \in Handlers, g # h PROVE Aside(g)
    OBVIOUS
  <2>1. task'[g] = task[g]
    BY <1>2 DEF HandlerStep, GoodRead, GoodProbe, GoodMark, FailRead,
       FailProbe, FailMark, ExecMark, ExecCount, Continue, Finish
  <2>2. ASSUME task[g].pc # "idle" PROVE task[g].model \in Models \ {m}
    BY <1>2, <1>3, <2>2, TaskTyped DEF OneReportPerModel
  <2> QED
    BY <1>5, <2>1, <2>2
<1>7. ASSUME Finish(h), NEW row, avail' = [avail EXCEPT ![m] = row],
             avail[m].status = "unable" => row.status = "unable"
      PROVE  SerialInv'
  <2>1. task'[h].pc = "idle"
    BY <1>2, <1>7 DEF Finish, Idle
  <2>2. \A k \in Models :
          avail[k].status = "unable" => avail'[k].status = "unable"
    BY <1>2, <1>4, <1>7, RowOf
  <2> QED
    BY <1>1, <1>2, <1>6, <2>1, <2>2 DEF SerialInv, CooldownElapsed
<1>8. CASE GoodRead(h)
  BY <1>1, <1>2, <1>8
  DEF GoodRead, Continue, Finish, Idle, SerialInv, CooldownElapsed
<1>9. CASE FailRead(h)
  BY <1>1, <1>2, <1>9
  DEF FailRead, Continue, Finish, Idle, SerialInv, CooldownElapsed
<1>10. CASE GoodProbe(h)
  <2> DEFINE row == GoodProbeFeedback(avail[m])
  <2>1. CooldownElapsed(avail[m])
    BY <1>10 DEF GoodProbe, SerialInv
  <2>2. /\ CooldownElapsed(row)
        /\ (\/ row.probe_good_feedback >= ProbeGood
            \/ row.probe_consecutive_success >= ProbeStreak)
             => row.probe_good_feedback >= ProbeGood
    BY <1>4, <2>1, GoodFeedbackCounts
  <2>3. /\ avail' = [avail EXCEPT ![m] = row]
        /\ IF /\ row.status = "degraded"
              /\ \/ row.probe_good_feedback >= ProbeGood
                 \/ row.probe_consecutive_success >= ProbeStreak
           THEN Continue(h, "good_mark") ELSE Finish(h)
    BY <1>10 DEF GoodProbe
  <2>4. CASE Finish(h)
    BY <1>7, <2>1, <2>3, <2>4 DEF CooldownElapsed
  <2>5. CASE Continue(h, "good_mark") /\ row.probe_good_feedback >= ProbeGood
    <3>1. task'[h].pc = "good_mark" /\ task'[h].model = m
      BY <1>2, <2>5 DEF Continue
    <3>2. avail'[m] = row /\ \A k \in Models : k # m => avail'[k] = avail[k]
      BY <1>2, <1>4, <2>3, RowOf
    <3>3. \A k \in Models :
            avail[k].status = "unable" => avail'[k].status = "unable"
      BY <2>1, <3>2 DEF CooldownElapsed
    <3> HIDE DEF row
    <3>4. /\ CooldownElapsed(avail'[task'[h].model])
          /\ avail'[task'[h].model].probe_good_feedback >= ProbeGood
      BY <2>2, <2>5, <3>1, <3>2
    <3> QED
      BY <1>1, <1>2, <1>6, <3>3, <3>4 DEF SerialInv, CooldownElapsed
  <2> QED
    BY <2>2, <2>3, <2>4, <2>5
<1>11. CASE GoodMark(h)
  <2>1. avail[m].status # "unable"
    BY <1>11 DEF GoodMark, SerialInv, CooldownElapsed
  <2> QED
    BY <1>2, <1>4, <1>7, <1>11, <2>1 DEF GoodMark
<1>12. CASE FailProbe(h) \/ FailMark(h) \/ ExecMark(h) \/ ExecCount(h)
  BY <1>2, <1>4, <1>7, <1>12, OutageStays
  DEF FailProbe, FailMark, ExecMark, ExecCount
<1> QED
  BY <1>8, <1>9, <1>10, <1>11, <1>12 DEF HandlerStep

(* Beside a report: the success of an execution and the clock.             *)
LEMMA BesideKeepsSerialInv ==
  ASSUME IInv, SerialInv, NEW m \in Models,
         ExecSuccess(m) \/ DegradedCooldownPasses(m) \/ ProbeAges(m)
  PROVE  SerialInv'
<1>1. UNCHANGED <<task, probeQueue, probing>>
  BY DEF ExecSuccess, DegradedCooldownPasses, ProbeAges, Keep
<1>2. /\ task \in [Handlers -> {Idle} \cup Task]
      /\ avail \in [Models -> Row]
      /\ \A p \in probing : p.model \in Models
      /\ probeQueue \subseteq Models
  BY DEF IInv, TypeOK, Probe
<1>3. PICK row : /\ avail' = [avail EXCEPT ![m] = row]
                 /\ avail[m].status = "unable" => row.status = "unable"
                 /\ CooldownElapsed(avail[m]) =>
                      /\ CooldownElapsed(row)
                      /\ row.probe_good_feedback = avail[m].probe_good_feedback
  <2>1. CASE ExecSuccess(m)
    BY <1>2, <2>1, OutageStays, ProbeTestingStays DEF ExecSuccess
  <2>2. CASE DegradedCooldownPasses(m)
    <3>1. avail' = [avail EXCEPT ![m] =
                      [avail[m] EXCEPT !.degraded_since = "elapsed"]]
      BY <2>2 DEF DegradedCooldownPasses
    <3>2. ~CooldownElapsed(avail[m])
      BY <2>2 DEF DegradedCooldownPasses, CooldownElapsed
    <3>3. avail[m].status = "unable" =>
            [avail[m] EXCEPT !.degraded_since = "elapsed"].status = "unable"
      BY <1>2, OutageStays
    <3> QED
      BY <3>1, <3>2, <3>3
  <2>3. CASE ProbeAges(m)
    <3>1. PICK v : avail' = [avail EXCEPT ![m] =
                               [avail[m] EXCEPT !.last_probe_at = v]]
      BY <2>3 DEF ProbeAges
    <3> DEFINE aged == [avail[m] EXCEPT !.last_probe_at = v]
    <3>2. avail[m].status = "unable" => aged.status = "unable"
      BY <1>2, OutageStays
    <3>3. CooldownElapsed(avail[m]) =>
            /\ CooldownElapsed(aged)
            /\ aged.probe_good_feedback = avail[m].probe_good_feedback
      BY <1>2, ProbeTestingStays
    <3> HIDE DEF aged
    <3> QED
      BY <3>1, <3>2, <3>3 DEF aged
  <2> QED
    BY <2>1, <2>2, <2>3
<1>4. avail'[m] = row /\ \A k \in Models : k # m => avail'[k] = avail[k]
  BY <1>2, <1>3, RowOf
<1>5. \A k \in Models :
        avail[k].status = "unable" => avail'[k].status = "unable"
  BY <1>3, <1>4
<1>6. \A k \in Models : CooldownElapsed(avail[k]) =>
        /\ CooldownElapsed(avail'[k])
        /\ avail'[k].probe_good_feedback = avail[k].probe_good_feedback
  BY <1>3, <1>4
<1>7. \A h \in Handlers :
        task[h].pc \in {"good_probe", "good_mark", "fail_probe"}
          => task[h].model \in Models
  BY <1>2 DEF Task, Idle
<1> QED
  BY <1>1, <1>2, <1>5, <1>6, <1>7, Zenon DEF SerialInv

(* The probe loop lists and calls models that are out, and what it writes  *)
(* is about one that still is.                                             *)
LEMMA ProbesKeepSerialInv ==
  ASSUME IInv, SerialInv,
         ProbeList \/ ProbeWrite \/ \E m \in Models : ProbeCall(m)
  PROVE  SerialInv'
<1>1. CASE ProbeList
  BY <1>1 DEF ProbeList, DueForProbe, SerialInv, CooldownElapsed
<1>2. CASE \E m \in Models : ProbeCall(m)
  BY <1>2 DEF ProbeCall, SerialInv, CooldownElapsed
<1>3. CASE ProbeWrite
  <2>1. PICK p \in probing :
          avail' = [avail EXCEPT ![p.model] =
                      UpdateProbeResult(avail[p.model], p.success)]
    BY <1>3 DEF ProbeWrite, IInv, TypeOK, Probe
  <2>2. /\ avail \in [Models -> Row] /\ p.model \in Models
        /\ task \in [Handlers -> {Idle} \cup Task]
        /\ probeQueue \subseteq Models
    BY DEF IInv, TypeOK, Probe
  <2>3. \A k \in Models : k # p.model => avail'[k] = avail[k]
    BY <2>1, <2>2, RowOf
  <2>4. probing' = {} /\ UNCHANGED <<task, probeQueue>>
    BY <1>3 DEF ProbeWrite
  <2>5. \A k \in probeQueue : avail'[k] = avail[k]
    BY <2>2, <2>3 DEF SerialInv
  <2>6. \A h \in Handlers :
          task[h].pc \in {"good_probe", "good_mark", "fail_probe"}
            => avail'[task[h].model] = avail[task[h].model]
    BY <2>2, <2>3 DEF SerialInv, Task, Idle, CooldownElapsed
  <2> QED
    BY <2>4, <2>5, <2>6, Zenon DEF SerialInv, CooldownElapsed
<1> QED
  BY <1>1, <1>2, <1>3

LEMMA SerialInvInvariant ==
  Spec /\ []OneReportPerModel => []SerialInv
<1>1. Init => SerialInv
  BY DEF Init, SerialInv, Idle
<1>2. OneReportPerModel /\ IInv /\ SerialInv /\ [Next]_vars => SerialInv'
  <2> SUFFICES ASSUME OneReportPerModel, IInv, SerialInv, [Next]_vars
               PROVE  SerialInv'
    OBVIOUS
  <2>1. CASE UNCHANGED vars
    BY <2>1 DEF SerialInv, CooldownElapsed, vars
  <2>2. ASSUME NEW h \in Handlers, Abandon(h) PROVE SerialInv'
    BY <2>2 DEF IInv, TypeOK, Abandon, Finish, Idle, SerialInv,
                CooldownElapsed
  <2>3. ASSUME NEW m \in Models,
               ProviderChanges(m) \/ \E c \in Classes : JoinPool(c, m)
        PROVE  SerialInv'
    BY <2>3 DEF ProviderChanges, JoinPool, Keep, SerialInv, CooldownElapsed
  <2> QED
    BY <2>1, <2>2, <2>3, ReportKeepsSerialInv, HandlerStepKeepsSerialInv,
       BesideKeepsSerialInv, ProbesKeepSerialInv DEF Next
<1> QED
  BY <1>1, <1>2, RowsStaySound, PTL DEF Spec

(* What one step does to the status of a model, when the reports on it do  *)
(* not overlap: recovery by good feedback, recovery or an outage kept by a probe, *)
(* or a step that neither lifts an outage nor ends a degradation, and is   *)
(* no probe's.                                                             *)
LEMMA StatusSteps ==
  ASSUME IInv, SerialInv, [Next]_vars, NEW m \in Models
  PROVE  \/ avail'[m] = avail[m]
         \/ /\ CooldownElapsed(avail[m])
            /\ avail[m].probe_good_feedback >= ProbeGood
            /\ avail'[m].status = "available"
            /\ probing' = probing
         \/ /\ avail[m].status = "unable"
            /\ \/ [model |-> m, success |-> TRUE] \in probing \ probing'
               \/ avail'[m].status = "unable"
         \/ /\ avail[m].status = "unable" => avail'[m].status = "unable"
            /\ avail[m].status = "degraded" => avail'[m].status # "available"
            /\ probing' = probing
<1> DEFINE Moved(k, row) ==
      /\ avail' = [avail EXCEPT ![k] = row]
      /\ avail[k].status = "unable" => row.status = "unable"
      /\ avail[k].status = "degraded" => row.status # "available"
<1>1. /\ task \in [Handlers -> {Idle} \cup Task]
      /\ avail \in [Models -> Row]
  BY DEF IInv, TypeOK
<1>2. ASSUME NEW k \in Models, NEW row, Moved(k, row), probing' = probing
      PROVE  \/ avail'[m] = avail[m]
             \/ /\ avail[m].status = "unable" => avail'[m].status = "unable"
                /\ avail[m].status = "degraded" => avail'[m].status # "available"
                /\ probing' = probing
  BY <1>1, <1>2, RowOf
<1>3. ASSUME NEW h \in Handlers, HandlerStep(h), ~GoodMark(h)
      PROVE  \/ UNCHANGED avail
             \/ \E k \in Models : \E row : Moved(k, row) /\ probing' = probing
  <2> DEFINE k == task[h].model
  <2>1. k \in Models /\ avail[k] \in Row
    BY <1>1, <1>3, TaskTyped DEF HandlerStep, GoodRead, GoodProbe, FailRead,
       FailProbe, FailMark, ExecMark, ExecCount
  <2>2. CASE GoodRead(h) \/ FailRead(h)
    BY <2>2 DEF GoodRead, FailRead
  <2>3. CASE GoodProbe(h)
    <3>1. GoodProbeFeedback(avail[k]).status = avail[k].status
      BY <2>1, StatusChanges
    <3> QED
      BY <2>1, <2>3, <3>1 DEF GoodProbe, Keep
  <2>4. CASE FailProbe(h)
    <3>1. BadProbeFeedback(avail[k]).status = avail[k].status
      BY <2>1, StatusChanges
    <3> QED
      BY <2>1, <2>4, <3>1 DEF FailProbe, Keep
  <2>5. CASE FailMark(h)
    <3>1. MarkDegradedByQuality(avail[k]).status \in {"degraded", "unable"}
      BY <2>1 DEF MarkDegradedByQuality, Row
    <3>2. avail[k].status = "unable" =>
            MarkDegradedByQuality(avail[k]).status = "unable"
      BY <2>1, OutageStays
    <3> QED
      BY <2>1, <2>5, <3>1, <3>2 DEF FailMark, Keep
  <2>6. CASE ExecMark(h)
    <3>1. MarkUnable(avail[k]).status = "unable"
      BY <2>1 DEF MarkUnable, Row
    <3> QED
      BY <2>1, <2>6, <3>1 DEF ExecMark, Keep
  <2>7. CASE ExecCount(h)
    <3>1. ReportExecFailureTransition(avail[k]).status
            \in {avail[k].status, "unable"}
      BY <2>1 DEF ReportExecFailureTransition, Row
    <3> QED
      BY <2>1, <2>7, <3>1 DEF ExecCount, Keep
  <2> QED
    BY <1>3, <2>2, <2>3, <2>4, <2>5, <2>6, <2>7 DEF HandlerStep
<1>4. ASSUME NEW k \in Models,
             ExecSuccess(k) \/ DegradedCooldownPasses(k) \/ ProbeAges(k)
      PROVE  \E row : Moved(k, row) /\ probing' = probing
  <2>1. avail[k] \in Row
    BY <1>1
  <2>2. CASE ExecSuccess(k)
    <3>1. ResetExecFailCounter(avail[k]).status = avail[k].status
      BY <2>1, StatusChanges
    <3> QED
      BY <2>2, <3>1 DEF ExecSuccess, Keep
  <2>3. CASE DegradedCooldownPasses(k)
    <3>1. [avail[k] EXCEPT !.degraded_since = "elapsed"].status
            = avail[k].status
      BY <2>1, StatusChanges
    <3>2. avail' = [avail EXCEPT ![k] =
                      [avail[k] EXCEPT !.degraded_since = "elapsed"]]
      BY <2>3 DEF DegradedCooldownPasses
    <3> QED
      BY <2>3, <3>1, <3>2 DEF DegradedCooldownPasses, Keep
  <2>4. CASE ProbeAges(k)
    <3> DEFINE row == [avail[k] EXCEPT !.last_probe_at =
                         IF @ = "cooling" THEN "resting" ELSE "due"]
    <3>1. row.status = avail[k].status
      BY <2>1, StatusChanges
    <3>2. avail' = [avail EXCEPT ![k] = row]
      BY <2>4 DEF ProbeAges
    <3> HIDE DEF row
    <3> QED
      BY <2>4, <3>1, <3>2 DEF ProbeAges, Keep
  <2> QED
    BY <1>4, <2>2, <2>3, <2>4
<1>5. ASSUME NEW h \in Handlers, GoodMark(h)
      PROVE  \/ avail'[m] = avail[m]
             \/ /\ CooldownElapsed(avail[m])
                /\ avail[m].probe_good_feedback >= ProbeGood
                /\ avail'[m].status = "available"
                /\ probing' = probing
  <2>1. task[h].model \in Models
    BY <1>1, <1>5, TaskTyped DEF GoodMark
  <2>2. MarkAvailable(avail[task[h].model]).status = "available"
    BY <1>1, <2>1, StatusChanges
  <2> QED
    BY <1>1, <1>5, <2>1, <2>2 DEF GoodMark, SerialInv, Keep
<1>6. ASSUME ProbeWrite
      PROVE  \/ avail'[m] = avail[m]
             \/ /\ avail[m].status = "unable"
                /\ \/ [model |-> m, success |-> TRUE] \in probing \ probing'
                   \/ avail'[m].status = "unable"
  <2>1. PICK p \in probing :
          avail' = [avail EXCEPT ![p.model] =
                      UpdateProbeResult(avail[p.model], p.success)]
    BY <1>6 DEF ProbeWrite, IInv, TypeOK, Probe
  <2>2. /\ p.model \in Models /\ p.success \in BOOLEAN
        /\ p = [model |-> p.model, success |-> p.success]
        /\ avail[p.model] \in Row
        /\ avail[p.model].status = "unable"
    BY DEF IInv, TypeOK, Probe, SerialInv
  <2>3. probing' = {}
    BY <1>6 DEF ProbeWrite
  <2>4. CASE p.model # m
    BY <1>1, <2>1, <2>2, <2>4, RowOf
  <2>5. CASE p.model = m /\ p.success = TRUE
    BY <2>2, <2>3, <2>5
  <2>6. CASE p.model = m /\ p.success = FALSE
    <3>1. UpdateProbeResult(avail[m], FALSE).status = "unable"
      BY <2>2, <2>6, OutageStays
    <3> QED
      BY <1>1, <2>1, <2>2, <2>6, <3>1
  <2> QED
    BY <2>2, <2>4, <2>5, <2>6
<1>7. CASE UNCHANGED avail
  BY <1>7
<1> HIDE DEF Moved
<1> QED
  BY <1>2, <1>3, <1>4, <1>5, <1>6, <1>7
  DEF Next, Report, QualityGood, QualityFail, ExecFail, Abandon, ProbeCall,
      ProviderChanges, JoinPool, ProbeList, vars

(* A degraded model becomes available only with an elapsed cooldown and    *)
(* enough good feedback since, as long as its reports do not overlap.      *)
THEOREM RecoveriesAreEarned ==
  Spec /\ []OneReportPerModel => RecoveryIsEarned
<1>1. IInv /\ SerialInv /\ [Next]_vars =>
        [\A m \in Models :
           (avail[m].status = "degraded" /\ avail'[m].status = "available") =>
             /\ avail[m].degraded_since = "elapsed"
             /\ avail[m].probe_good_feedback >= ProbeGood]_vars
  BY StatusSteps DEF CooldownElapsed
<1> QED
  BY <1>1, RowsStaySound, SerialInvInvariant, PTL DEF Spec, RecoveryIsEarned

(* An outage ends with a successful probe of the model, and in no other    *)
(* way.                                                                    *)
THEOREM OutagesEndWithAProbe ==
  Spec /\ []OneReportPerModel => UnableLeftOnlyByProbe
<1>1. IInv /\ SerialInv /\ [Next]_vars =>
        [\A m \in Models :
           (avail[m].status = "unable" /\ avail'[m].status # "unable") =>
             [model |-> m, success |-> TRUE] \in probing \ probing']_vars
  BY StatusSteps DEF CooldownElapsed
<1> QED
  BY <1>1, RowsStaySound, SerialInvInvariant, PTL
  DEF Spec, UnableLeftOnlyByProbe

(* Writing the result of a probe takes no model down.                      *)
THEOREM ProbesOnlyRepair ==
  Spec /\ []OneReportPerModel => ProbeNeverTakesDown
<1>1. IInv /\ SerialInv /\ [Next]_vars =>
        [\A m \in Models :
           (avail[m].status # "unable" /\ avail'[m].status = "unable") =>
             probing' = probing]_vars
  BY StatusSteps
<1> QED
  BY <1>1, RowsStaySound, SerialInvInvariant, PTL
  DEF Spec, ProbeNeverTakesDown
=============================================================================
