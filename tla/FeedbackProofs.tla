--------------------------- MODULE FeedbackProofs ---------------------------
(***************************************************************************)
(* Proofs about the feedback pipeline, for any set of executions and any   *)
(* number of reports handled at once.                                      *)
(*                                                                         *)
(* The argument: an outcome has at most one report working on it, because  *)
(* only the report that inserted its row goes past the insert; and the     *)
(* effects it has had so far are exactly those that lie before the place   *)
(* its report is at.  So the count of effects is always the mark of a      *)
(* prefix of the pipeline, whoever runs in between and whoever dies.       *)
(***************************************************************************)
EXTENDS Feedback, TLAPS

-----------------------------------------------------------------------------
(* The effects an outcome has had when its report is about to do s. *)
Passed(e, s) ==
  (CASE s = "review" -> {}
     [] s = "health" -> {"review"}
     [] s = "pool"   -> {"review", "health"}
     [] s = "log"    -> {"review", "health", "pool"}
     [] s = "trial"  -> {"review", "health", "pool", "log"}
     [] s = "turn"   -> {"review", "health", "pool", "log", "trial"}
     [] OTHER        -> {"review", "health", "pool", "log", "trial", "turn"})
  \ (IF e \in Reviewed THEN {} ELSE {"review"})

Mark(S) == [t \in Effects |-> IF t \in S THEN 1 ELSE 0]

(* The places a report of the outcome can be at. *)
Reaches(e, k, s) ==
  /\ s \in Effects
  /\ s = "review" => e \in Reviewed
  /\ k = "exec_success" => s \in {"review", "health"}

Busy(h) == task[h].pc \in Effects

OneReport ==
  \A g, h \in Handlers :
    (Busy(g) /\ Busy(h) /\ task[g].exec = task[h].exec /\ task[g].kind = task[h].kind)
      => g = h

ReportsOnTrack ==
  \A h \in Handlers : Busy(h) =>
    /\ task[h].kind \in events[task[h].exec]
    /\ task[h].kind \notin lost[task[h].exec]
    /\ Reaches(task[h].exec, task[h].kind, task[h].pc)
    /\ applied[task[h].exec][task[h].kind] = Mark(Passed(task[h].exec, task[h].pc))

PrefixDone ==
  \A e \in Executions, k \in Kinds :
    \E s \in Effects :
      /\ Reaches(e, k, s)
      /\ \/ applied[e][k] = Mark(Passed(e, s))
         \/ applied[e][k] = Mark(Passed(e, s) \cup {s})

Untouched ==
  \A e \in Executions, k \in Kinds :
    k \notin events[e] => applied[e][k] = Mark({}) /\ k \notin lost[e]

RatingsBacked ==
  /\ \A h \in Handlers : task[h].pc = "record" =>
       task[h].kind \in QualityKinds /\ "exec_success" \in events[task[h].exec]
  /\ \A e \in Executions, k \in QualityKinds :
       k \in events[e] => "exec_success" \in events[e]

Accounted ==
  \A e \in Executions, k \in Kinds :
    k \in events[e] =>
      \/ Due(e, k) \subseteq {s \in Effects : applied[e][k][s] > 0}
      \/ k \in lost[e]
      \/ \E h \in Handlers : Busy(h) /\ task[h].exec = e /\ task[h].kind = k

IInv ==
  /\ TypeOK
  /\ OneReport
  /\ ReportsOnTrack
  /\ PrefixDone
  /\ Untouched
  /\ RatingsBacked
  /\ Accounted

-----------------------------------------------------------------------------
(* What an effect does to the mark of a prefix: the next place's prefix is *)
(* this one with the effect added, and a report that returns leaves        *)
(* nothing of its kind undone.                                             *)
LEMMA EffectAdvances ==
  ASSUME NEW e \in Executions, NEW k \in Kinds, NEW s \in Effects,
         Reaches(e, k, s), NEW next \in After(k, s)
  PROVE  /\ next \in Effects \cup {"idle"}
         /\ s \notin Passed(e, s)
         /\ next # "idle" => /\ Reaches(e, k, next)
                             /\ Passed(e, next) = Passed(e, s) \cup {s}
         /\ next = "idle" => Due(e, k) \subseteq Passed(e, s) \cup {s}
<1> USE DEF Effects, Reaches, After, Passed, Due
<1>1. CASE s = "review"
  BY <1>1
<1>2. CASE s = "health"
  BY <1>2
<1>3. CASE s = "pool"
  BY <1>3
<1>4. CASE s = "log"
  BY <1>4
<1>5. CASE s = "trial"
  BY <1>5
<1>6. CASE s = "turn"
  BY <1>6
<1>7. CASE s = "note"
  BY <1>7
<1> QED BY <1>1, <1>2, <1>3, <1>4, <1>5, <1>6, <1>7

(* Applying an effect for the first time adds it to the marked ones. *)
LEMMA MarkGrows ==
  ASSUME NEW S, NEW s \in Effects, s \notin S
  PROVE  [Mark(S) EXCEPT ![s] = @ + 1] = Mark(S \cup {s})
<1> DEFINE grown == [Mark(S) EXCEPT ![s] = @ + 1]
<1>1. \A t \in Effects : grown[t] = IF t \in S \cup {s} THEN 1 ELSE 0
  BY DEF Mark
<1>2. grown = [t \in Effects |-> grown[t]]
  BY DEF Mark
<1> QED BY <1>1, <1>2 DEF Mark

(* A report starts at a place that nothing lies before. *)
LEMMA FirstIsFirst ==
  ASSUME NEW e \in Executions, NEW k \in Kinds
  PROVE  /\ First(e) \in Effects
         /\ Reaches(e, k, First(e))
         /\ Passed(e, First(e)) = {}
BY DEF First, Effects, Reaches, Passed

(* Nothing is recorded at first. *)
LEMMA InitHolds == Init => IInv
<1> SUFFICES ASSUME Init PROVE IInv
  OBVIOUS
<1>1. TypeOK
  BY DEF Init, TypeOK
<1>2. \A h \in Handlers : ~Busy(h) /\ task[h].pc # "record"
  BY DEF Init, Busy, Idle, Effects
<1>3. PrefixDone
  <2> SUFFICES ASSUME NEW e \in Executions, NEW k \in Kinds
               PROVE  \E s \in Effects :
                        /\ Reaches(e, k, s)
                        /\ \/ applied[e][k] = Mark(Passed(e, s))
                           \/ applied[e][k] = Mark(Passed(e, s) \cup {s})
    BY DEF PrefixDone
  <2>1. applied[e][k] = Mark({})
    BY DEF Init, Mark
  <2> QED
    BY <2>1, FirstIsFirst
<1>4. Untouched
  BY DEF Init, Untouched, Mark
<1>5. RatingsBacked /\ Accounted
  BY <1>2 DEF Init, RatingsBacked, Accounted, Kinds
<1> QED BY <1>1, <1>2, <1>3, <1>4, <1>5 DEF IInv, OneReport, ReportsOnTrack

(* A slot that applies nothing can be given back at any time. *)
LEMMA ReleaseKeeps ==
  ASSUME IInv, NEW h \in Handlers, ~Busy(h),
         task' = [task EXCEPT ![h] = Idle], UNCHANGED <<events, applied, lost>>
  PROVE  IInv'
<1>1. TypeOK'
  BY DEF IInv, TypeOK
<1>2. /\ task'[h] = Idle
      /\ \A g \in Handlers : g # h => task'[g] = task[g]
  BY DEF IInv, TypeOK
<1>3. ~Busy(h)' /\ task'[h].pc # "record"
  BY <1>2 DEF Busy, Idle, Effects
<1>4. events' = events /\ applied' = applied /\ lost' = lost
  OBVIOUS
<1>5. \A g \in Handlers : /\ Busy(g)' = Busy(g)
                          /\ Busy(g) => task'[g] = task[g]
  BY <1>2, <1>3 DEF Busy
<1>6. OneReport'
  BY <1>5 DEF IInv, OneReport
<1>7. ReportsOnTrack'
  BY <1>4, <1>5 DEF IInv, ReportsOnTrack
<1>8. PrefixDone' /\ Untouched'
  BY <1>4 DEF IInv, PrefixDone, Untouched
<1>9. RatingsBacked'
  BY <1>2, <1>3, <1>4 DEF IInv, RatingsBacked
<1>10. Accounted'
  <2> SUFFICES ASSUME NEW e \in Executions, NEW k \in Kinds, k \in events'[e]
               PROVE  \/ Due(e, k) \subseteq {s \in Effects : applied'[e][k][s] > 0}
                      \/ k \in lost'[e]
                      \/ \E g \in Handlers : Busy(g)' /\ task'[g].exec = e /\ task'[g].kind = k
    BY DEF Accounted, Due
  <2> QED BY <1>4, <1>5 DEF IInv, Accounted
<1> QED BY <1>1, <1>6, <1>7, <1>8, <1>9, <1>10 DEF IInv

(* The insert, by a report of an execution or by one of a rating. *)
LEMMA TryRecordKeeps ==
  ASSUME IInv, NEW h \in Handlers, NEW e \in Executions, NEW k \in Kinds,
         ~Busy(h), TryRecord(h, e, k), UNCHANGED <<applied, lost>>,
         k \in QualityKinds => "exec_success" \in events[e]
  PROVE  IInv'
<1>1. CASE IsNew(e, k)
  <2> DEFINE t == [pc |-> First(e), exec |-> e, kind |-> k]
  <2>1. /\ task' = [task EXCEPT ![h] = t]
        /\ t \in Task /\ t.pc \in Effects
        /\ events' = [events EXCEPT ![e] = @ \cup {k}]
    BY <1>1, FirstIsFirst DEF TryRecord, Step, Task, Effects
  <2> HIDE DEF t
  <2>2. t.pc = First(e) /\ t.exec = e /\ t.kind = k
    BY DEF t
  <2>3. k \notin events[e] /\ k \notin lost[e] /\ applied[e][k] = Mark({})
    BY <1>1 DEF IsNew, IInv, Untouched
  <2>4. TypeOK'
    BY <2>1 DEF IInv, TypeOK
  <2>5. \A g \in Handlers : g # h => task'[g] = task[g] /\ Busy(g)' = Busy(g)
    BY <2>1 DEF IInv, TypeOK, Busy
  <2>6. task'[h] = t /\ Busy(h)'
    BY <2>1 DEF IInv, TypeOK, Busy
  <2>7. \A g \in Handlers : g # h /\ Busy(g) => ~(task[g].exec = e /\ task[g].kind = k)
    BY <2>3 DEF IInv, ReportsOnTrack
  <2>8. \A f \in Executions, j \in Kinds :
          j \in events'[f] <=> j \in events[f] \/ (f = e /\ j = k)
    BY <2>1 DEF IInv, TypeOK
  <2>9. OneReport'
    BY <2>2, <2>5, <2>6, <2>7 DEF IInv, OneReport
  <2>10. ReportsOnTrack'
    <3> SUFFICES ASSUME NEW g \in Handlers, Busy(g)'
                 PROVE  /\ task'[g].kind \in events'[task'[g].exec]
                        /\ task'[g].kind \notin lost'[task'[g].exec]
                        /\ Reaches(task'[g].exec, task'[g].kind, task'[g].pc)
                        /\ applied'[task'[g].exec][task'[g].kind]
                              = Mark(Passed(task'[g].exec, task'[g].pc))
      BY DEF ReportsOnTrack, Busy, Reaches, Passed, Mark
    <3>1. CASE g = h
      BY <3>1, <2>2, <2>3, <2>6, <2>8, FirstIsFirst
    <3>2. CASE g # h
      <4>1. task'[g] = task[g] /\ Busy(g)
        BY <3>2, <2>5
      <4>2. task[g].exec \in Executions /\ task[g].kind \in Kinds
        BY <4>1 DEF IInv, TypeOK, Busy, Idle, Task, Effects
      <4> QED BY <4>1, <4>2, <2>8 DEF IInv, ReportsOnTrack
    <3> QED BY <3>1, <3>2
  <2>11. PrefixDone'
    <3>1. applied' = applied
      OBVIOUS
    <3> QED BY <3>1 DEF IInv, PrefixDone
  <2>12. Untouched'
    BY <2>8 DEF IInv, Untouched, Mark
  <2>13. RatingsBacked'
    <3>1. \A f \in Executions : "exec_success" \in events[f] => "exec_success" \in events'[f]
      BY <2>8 DEF Kinds, ExecKinds
    <3>2. \A g \in Handlers : task'[g].pc = "record" =>
            task'[g].kind \in QualityKinds /\ "exec_success" \in events'[task'[g].exec]
      <4> SUFFICES ASSUME NEW g \in Handlers, task'[g].pc = "record"
                   PROVE  task'[g].kind \in QualityKinds
                          /\ "exec_success" \in events'[task'[g].exec]
        OBVIOUS
      <4>1. g # h
        BY <2>1, <2>6 DEF Effects
      <4>2. task'[g] = task[g]
        BY <4>1, <2>5
      <4>3. task[g].exec \in Executions
        BY <4>2 DEF IInv, TypeOK, Idle, Task
      <4> QED BY <4>2, <4>3, <3>1 DEF IInv, RatingsBacked
    <3>3. \A f \in Executions, j \in QualityKinds :
            j \in events'[f] => "exec_success" \in events'[f]
      BY <3>1, <2>8 DEF IInv, RatingsBacked, Kinds
    <3> QED BY <3>2, <3>3 DEF RatingsBacked
  <2>14. Accounted'
    <3> SUFFICES ASSUME NEW f \in Executions, NEW j \in Kinds, j \in events'[f]
                 PROVE  \/ Due(f, j) \subseteq {s \in Effects : applied'[f][j][s] > 0}
                        \/ j \in lost'[f]
                        \/ \E g \in Handlers : Busy(g)' /\ task'[g].exec = f /\ task'[g].kind = j
      BY DEF Accounted, Due
    <3>1. CASE f = e /\ j = k
      BY <3>1, <2>2, <2>6
    <3>2. CASE ~(f = e /\ j = k)
      <4>1. j \in events[f]
        BY <3>2, <2>8
      <4>2. \A g \in Handlers : Busy(g) => Busy(g)' /\ task'[g] = task[g]
        BY <2>5
      <4> QED BY <4>1, <4>2 DEF IInv, Accounted
    <3> QED BY <3>1, <3>2
  <2> QED BY <2>4, <2>9, <2>10, <2>11, <2>12, <2>13, <2>14 DEF IInv
<1>2. CASE ~IsNew(e, k)
  <2>1. task' = [task EXCEPT ![h] = Idle] /\ UNCHANGED events
    BY <1>2 DEF TryRecord
  <2> QED BY <2>1, ReleaseKeeps
<1> QED BY <1>1, <1>2

(* One effect of a recorded outcome: the prefix grows by it. *)
LEMMA ApplyKeeps ==
  ASSUME IInv, NEW h \in Handlers, Apply(h)
  PROVE  IInv'
<1> DEFINE e == task[h].exec
           k == task[h].kind
           s == task[h].pc
<1>1. PICK next \in After(k, s) : task' = [task EXCEPT ![h] = Step(next, e, k)]
  BY DEF Apply
<1>2. /\ Busy(h) /\ s \in Effects
      /\ applied' = [applied EXCEPT ![e][k][s] = @ + 1]
      /\ events' = events /\ lost' = lost
  BY DEF Apply, Busy
<1>3. e \in Executions /\ k \in Kinds
  BY <1>2 DEF IInv, TypeOK, Idle, Task, Effects
<1>4. /\ k \in events[e] /\ k \notin lost[e]
      /\ Reaches(e, k, s)
      /\ applied[e][k] = Mark(Passed(e, s))
  BY <1>2 DEF IInv, ReportsOnTrack
<1>5. /\ next \in Effects \cup {"idle"}
      /\ s \notin Passed(e, s)
      /\ next # "idle" => /\ Reaches(e, k, next)
                          /\ Passed(e, next) = Passed(e, s) \cup {s}
      /\ next = "idle" => Due(e, k) \subseteq Passed(e, s) \cup {s}
  BY <1>1, <1>2, <1>3, <1>4, EffectAdvances
<1> DEFINE t == Step(next, e, k)
<1>6. task' = [task EXCEPT ![h] = t]
  BY <1>1
<1>7. /\ t \in {Idle} \cup Task
      /\ next = "idle" => t = Idle
      /\ next # "idle" => t.pc = next /\ t.exec = e /\ t.kind = k
      /\ t.pc = next
  BY <1>3, <1>5 DEF Step, Task, Idle
<1> HIDE DEF t
<1>8. TypeOK'
  <2>1. applied' \in [Executions -> [Kinds -> [Effects -> Nat]]]
    <3>1. applied' = [applied EXCEPT ![e] =
                        [applied[e] EXCEPT ![k] = [applied[e][k] EXCEPT ![s] = @ + 1]]]
      BY <1>2
    <3>2. [applied[e][k] EXCEPT ![s] = @ + 1] \in [Effects -> Nat]
      BY <1>2, <1>3 DEF IInv, TypeOK
    <3> QED BY <1>3, <3>1, <3>2 DEF IInv, TypeOK
  <2>2. task' \in [Handlers -> {Idle} \cup Task]
    BY <1>6, <1>7 DEF IInv, TypeOK
  <2> QED BY <1>2, <2>1, <2>2 DEF IInv, TypeOK
<1>9. applied'[e][k] = Mark(Passed(e, s) \cup {s})
  <2>1. applied'[e][k] = [applied[e][k] EXCEPT ![s] = @ + 1]
    BY <1>2, <1>3 DEF IInv, TypeOK
  <2> QED BY <2>1, <1>2, <1>4, <1>5, MarkGrows
<1>10. \A f \in Executions, j \in Kinds :
         ~(f = e /\ j = k) => applied'[f][j] = applied[f][j]
  BY <1>2, <1>3 DEF IInv, TypeOK
<1>11. task'[h] = t /\ \A g \in Handlers : g # h => task'[g] = task[g]
  BY <1>6 DEF IInv, TypeOK
<1>12. \A g \in Handlers : g # h => Busy(g)' = Busy(g)
  BY <1>11 DEF Busy
<1>13. Busy(h)' <=> next # "idle"
  BY <1>5, <1>7, <1>11 DEF Busy, Effects
<1>14. \A g \in Handlers : g # h /\ Busy(g) => ~(task[g].exec = e /\ task[g].kind = k)
  BY <1>2 DEF IInv, OneReport
<1> HIDE DEF e, k, s
<1>15. OneReport'
  BY <1>7, <1>11, <1>12, <1>13, <1>14 DEF IInv, OneReport
<1>16. ReportsOnTrack'
  <2> SUFFICES ASSUME NEW g \in Handlers, Busy(g)'
               PROVE  /\ task'[g].kind \in events'[task'[g].exec]
                      /\ task'[g].kind \notin lost'[task'[g].exec]
                      /\ Reaches(task'[g].exec, task'[g].kind, task'[g].pc)
                      /\ applied'[task'[g].exec][task'[g].kind]
                            = Mark(Passed(task'[g].exec, task'[g].pc))
    BY DEF ReportsOnTrack, Busy, Reaches, Passed, Mark
  <2>1. CASE g = h
    BY <2>1, <1>2, <1>4, <1>5, <1>7, <1>9, <1>11, <1>13
  <2>2. CASE g # h
    <3>1. task'[g] = task[g] /\ Busy(g)
      BY <2>2, <1>11, <1>12
    <3>2. task[g].exec \in Executions /\ task[g].kind \in Kinds
      BY <3>1 DEF IInv, TypeOK, Busy, Idle, Task, Effects
    <3>3. applied'[task[g].exec][task[g].kind] = applied[task[g].exec][task[g].kind]
      BY <2>2, <3>1, <3>2, <1>10, <1>14
    <3> QED BY <3>1, <3>3, <1>2 DEF IInv, ReportsOnTrack
  <2> QED BY <2>1, <2>2
<1>17. PrefixDone'
  <2> SUFFICES ASSUME NEW f \in Executions, NEW j \in Kinds
               PROVE  \E p \in Effects :
                        /\ Reaches(f, j, p)
                        /\ \/ applied'[f][j] = Mark(Passed(f, p))
                           \/ applied'[f][j] = Mark(Passed(f, p) \cup {p})
    BY DEF PrefixDone, Reaches, Passed, Mark
  <2>1. CASE f = e /\ j = k
    BY <2>1, <1>2, <1>4, <1>9
  <2>2. CASE ~(f = e /\ j = k)
    BY <2>2, <1>10 DEF IInv, PrefixDone
  <2> QED BY <2>1, <2>2
<1>18. Untouched'
  <2>1. \A f \in Executions, j \in Kinds : j \notin events[f] => applied'[f][j] = applied[f][j]
    BY <1>4, <1>10
  <2> QED BY <2>1, <1>2 DEF IInv, Untouched
<1>19. RatingsBacked'
  BY <1>2, <1>5, <1>7, <1>11 DEF IInv, RatingsBacked, Effects
<1>20. Accounted'
  <2> SUFFICES ASSUME NEW f \in Executions, NEW j \in Kinds, j \in events'[f]
               PROVE  \/ Due(f, j) \subseteq {p \in Effects : applied'[f][j][p] > 0}
                      \/ j \in lost'[f]
                      \/ \E g \in Handlers : Busy(g)' /\ task'[g].exec = f /\ task'[g].kind = j
    BY DEF Accounted, Due
  <2>1. CASE f = e /\ j = k
    <3>1. CASE next = "idle"
      <4>1. Due(e, k) \subseteq Effects
        BY DEF Due, Effects
      <4>2. \A p \in Effects : p \in Passed(e, s) \cup {s} => applied'[e][k][p] > 0
        BY <1>9 DEF Mark
      <4> QED BY <2>1, <3>1, <4>1, <4>2, <1>5
    <3>2. CASE next # "idle"
      BY <2>1, <3>2, <1>7, <1>11, <1>13
    <3> QED BY <3>1, <3>2
  <2>2. CASE ~(f = e /\ j = k)
    <3>1. applied'[f][j] = applied[f][j] /\ j \in events[f] /\ lost' = lost
      BY <2>2, <1>2, <1>10
    <3>2. \A g \in Handlers : Busy(g) /\ task[g].exec = f /\ task[g].kind = j =>
            Busy(g)' /\ task'[g] = task[g]
      BY <2>2, <1>11, <1>12 DEF e, k
    <3> QED BY <3>1, <3>2 DEF IInv, Accounted
  <2> QED BY <2>1, <2>2
<1> QED BY <1>8, <1>15, <1>16, <1>17, <1>18, <1>19, <1>20 DEF IInv

(* A report dies: what it was at is lost, and nobody works on it any more. *)
LEMMA DieKeeps ==
  ASSUME IInv, NEW h \in Handlers, Die(h)
  PROVE  IInv'
<1>1. CASE ~Busy(h)
  <2>1. task[h].pc = "record"
    BY <1>1 DEF Die, IInv, TypeOK, Busy, Task
  <2> QED BY <1>1, <2>1, ReleaseKeeps DEF Die
<1>2. CASE Busy(h)
  <2> DEFINE e == task[h].exec
             k == task[h].kind
  <2>1. e \in Executions /\ k \in Kinds
    BY <1>2 DEF IInv, TypeOK, Busy, Idle, Task, Effects
  <2>2. /\ task' = [task EXCEPT ![h] = Idle]
        /\ lost' = [lost EXCEPT ![e] = @ \cup {k}]
        /\ events' = events /\ applied' = applied
    BY <1>2 DEF Die, Busy, Effects
  <2>3. k \in events[e]
    BY <1>2 DEF IInv, ReportsOnTrack
  <2>4. TypeOK'
    BY <2>1, <2>2 DEF IInv, TypeOK
  <2>5. task'[h] = Idle /\ \A g \in Handlers : g # h => task'[g] = task[g]
    BY <2>2 DEF IInv, TypeOK
  <2>6. ~Busy(h)' /\ task'[h].pc # "record"
    BY <2>5 DEF Busy, Idle, Effects
  <2>7. \A g \in Handlers : g # h => Busy(g)' = Busy(g)
    BY <2>5 DEF Busy
  <2>8. \A g \in Handlers : g # h /\ Busy(g) => ~(task[g].exec = e /\ task[g].kind = k)
    BY <1>2 DEF IInv, OneReport
  <2>9. \A f \in Executions, j \in Kinds :
          j \in lost'[f] <=> j \in lost[f] \/ (f = e /\ j = k)
    BY <2>1, <2>2 DEF IInv, TypeOK
  <2> HIDE DEF e, k
  <2>10. OneReport'
    BY <2>5, <2>6, <2>7 DEF IInv, OneReport
  <2>11. ReportsOnTrack'
    <3> SUFFICES ASSUME NEW g \in Handlers, Busy(g)'
                 PROVE  /\ task'[g].kind \in events'[task'[g].exec]
                        /\ task'[g].kind \notin lost'[task'[g].exec]
                        /\ Reaches(task'[g].exec, task'[g].kind, task'[g].pc)
                        /\ applied'[task'[g].exec][task'[g].kind]
                              = Mark(Passed(task'[g].exec, task'[g].pc))
      BY DEF ReportsOnTrack, Busy, Reaches, Passed, Mark
    <3>1. g # h /\ task'[g] = task[g] /\ Busy(g)
      BY <2>5, <2>6, <2>7
    <3>2. task[g].exec \in Executions /\ task[g].kind \in Kinds
      BY <3>1 DEF IInv, TypeOK, Busy, Idle, Task, Effects
    <3> QED BY <3>1, <3>2, <2>2, <2>8, <2>9 DEF IInv, ReportsOnTrack
  <2>12. PrefixDone'
    BY <2>2 DEF IInv, PrefixDone
  <2>13. Untouched'
    BY <2>2, <2>3, <2>9 DEF IInv, Untouched
  <2>14. RatingsBacked'
    BY <2>2, <2>5, <2>6 DEF IInv, RatingsBacked
  <2>15. Accounted'
    <3> SUFFICES ASSUME NEW f \in Executions, NEW j \in Kinds, j \in events'[f]
                 PROVE  \/ Due(f, j) \subseteq {p \in Effects : applied'[f][j][p] > 0}
                        \/ j \in lost'[f]
                        \/ \E g \in Handlers : Busy(g)' /\ task'[g].exec = f /\ task'[g].kind = j
      BY DEF Accounted, Due
    <3>1. CASE f = e /\ j = k
      BY <3>1, <2>9
    <3>2. CASE ~(f = e /\ j = k)
      <4>1. \A g \in Handlers : Busy(g) /\ task[g].exec = f /\ task[g].kind = j =>
              Busy(g)' /\ task'[g] = task[g]
        BY <3>2, <2>5, <2>7 DEF e, k
      <4> QED BY <3>2, <4>1, <2>2, <2>9 DEF IInv, Accounted
    <3> QED BY <3>1, <3>2
  <2> QED BY <2>4, <2>10, <2>11, <2>12, <2>13, <2>14, <2>15 DEF IInv
<1> QED BY <1>1, <1>2

(* Every step keeps the invariant. *)
LEMMA StepKeeps == IInv /\ [Next]_vars => IInv'
<1> SUFFICES ASSUME IInv, [Next]_vars PROVE IInv'
  OBVIOUS
<1>1. ASSUME NEW h \in Handlers, NEW e \in Executions, NEW k \in ExecKinds,
             ReportExecution(h, e, k)
      PROVE  IInv'
  <2>1. ~Busy(h)
    BY <1>1 DEF ReportExecution, Busy, Idle, Effects
  <2>2. k \in Kinds /\ k \notin QualityKinds
    BY DEF Kinds, ExecKinds, QualityKinds
  <2> QED BY <1>1, <2>1, <2>2, TryRecordKeeps DEF ReportExecution
<1>2. ASSUME NEW h \in Handlers, NEW e \in Executions, NEW k \in QualityKinds,
             ReportQuality(h, e, k)
      PROVE  IInv'
  <2> DEFINE t == Step("record", e, k)
  <2>1. /\ task' = [task EXCEPT ![h] = t] /\ task[h] = Idle
        /\ events' = events /\ applied' = applied /\ lost' = lost
        /\ "exec_success" \in events[e]
    BY <1>2 DEF ReportQuality
  <2>2. t \in Task /\ t.pc = "record" /\ t.exec = e /\ t.kind = k
    BY DEF Step, Task, Kinds
  <2> HIDE DEF t
  <2>3. TypeOK'
    BY <2>1, <2>2 DEF IInv, TypeOK
  <2>4. task'[h] = t /\ \A g \in Handlers : g # h => task'[g] = task[g]
    BY <2>1 DEF IInv, TypeOK
  <2>5. ~Busy(h) /\ ~Busy(h)'
    BY <2>1, <2>2, <2>4 DEF Busy, Idle, Effects
  <2>6. \A g \in Handlers : /\ Busy(g)' = Busy(g)
                            /\ Busy(g) => task'[g] = task[g]
    BY <2>4, <2>5 DEF Busy
  <2>7. OneReport'
    BY <2>6 DEF IInv, OneReport
  <2>8. ReportsOnTrack'
    BY <2>1, <2>6 DEF IInv, ReportsOnTrack
  <2>9. PrefixDone' /\ Untouched'
    BY <2>1 DEF IInv, PrefixDone, Untouched
  <2>10. RatingsBacked'
    BY <2>1, <2>2, <2>4 DEF IInv, RatingsBacked
  <2>11. Accounted'
    <3> SUFFICES ASSUME NEW f \in Executions, NEW j \in Kinds, j \in events'[f]
                 PROVE  \/ Due(f, j) \subseteq {s \in Effects : applied'[f][j][s] > 0}
                        \/ j \in lost'[f]
                        \/ \E g \in Handlers : Busy(g)' /\ task'[g].exec = f /\ task'[g].kind = j
      BY DEF Accounted, Due
    <3> QED BY <2>1, <2>6 DEF IInv, Accounted
  <2> QED BY <2>3, <2>7, <2>8, <2>9, <2>10, <2>11 DEF IInv
<1>3. ASSUME NEW h \in Handlers, RecordQuality(h)
      PROVE  IInv'
  <2>1. ~Busy(h)
    BY <1>3 DEF RecordQuality, Busy, Effects
  <2>2. task[h].exec \in Executions /\ task[h].kind \in Kinds
    BY <1>3 DEF RecordQuality, IInv, TypeOK, Idle, Task
  <2>3. "exec_success" \in events[task[h].exec]
    BY <1>3 DEF RecordQuality, IInv, RatingsBacked
  <2> QED BY <1>3, <2>1, <2>2, <2>3, TryRecordKeeps DEF RecordQuality
<1>4. ASSUME NEW h \in Handlers, Apply(h) PROVE IInv'
  BY <1>4, ApplyKeeps
<1>5. ASSUME NEW h \in Handlers, Die(h) PROVE IInv'
  BY <1>5, DieKeeps
<1>6. CASE UNCHANGED vars
  <2>1. events' = events /\ applied' = applied /\ task' = task /\ lost' = lost
    BY <1>6 DEF vars
  <2>2. TypeOK'
    BY <2>1 DEF IInv, TypeOK
  <2>3. \A g \in Handlers : Busy(g)' = Busy(g)
    BY <2>1 DEF Busy
  <2>4. OneReport' /\ ReportsOnTrack'
    BY <2>1, <2>3 DEF IInv, OneReport, ReportsOnTrack
  <2>5. PrefixDone' /\ Untouched' /\ RatingsBacked'
    BY <2>1 DEF IInv, PrefixDone, Untouched, RatingsBacked
  <2>6. Accounted'
    <3> SUFFICES ASSUME NEW f \in Executions, NEW j \in Kinds, j \in events'[f]
                 PROVE  \/ Due(f, j) \subseteq {s \in Effects : applied'[f][j][s] > 0}
                        \/ j \in lost'[f]
                        \/ \E g \in Handlers : Busy(g)' /\ task'[g].exec = f /\ task'[g].kind = j
      BY DEF Accounted, Due
    <3> QED BY <2>1, <2>3 DEF IInv, Accounted
  <2> QED BY <2>2, <2>4, <2>5, <2>6 DEF IInv
<1> QED BY <1>1, <1>2, <1>3, <1>4, <1>5, <1>6 DEF Next

(* The pipeline's counters are the marks of prefixes, in every state. *)
THEOREM PrefixesHold == Spec => []IInv
BY InitHolds, StepKeeps, PTL DEF Spec

-----------------------------------------------------------------------------
(* The tables and the reports in hand keep their types. *)
THEOREM TypeCorrect == Spec => []TypeOK
<1>1. IInv => TypeOK
  BY DEF IInv
<1> QED BY <1>1, PrefixesHold, PTL

(* No effect of an outcome happens twice, whatever is retried or doubled.  *)
THEOREM EffectsHappenAtMostOnce == Spec => []AtMostOnce
<1>1. IInv => AtMostOnce
  <2> SUFFICES ASSUME IInv, NEW e \in Executions, NEW k \in Kinds, NEW s \in Effects
               PROVE  applied[e][k][s] <= 1
    BY DEF AtMostOnce
  <2>1. PICK S : applied[e][k] = Mark(S)
    BY DEF IInv, PrefixDone
  <2> QED BY <2>1 DEF Mark
<1> QED BY <1>1, PrefixesHold, PTL

(* Trial observations and log entries come after the updates they rest on. *)
THEOREM EffectsHappenInOrder == Spec => []EffectsInOrder
<1>1. IInv => EffectsInOrder
  <2> SUFFICES ASSUME IInv, NEW e \in Executions, NEW k \in Kinds
               PROVE  /\ applied[e][k]["trial"] > 0 => Complete(e, k)
                      /\ applied[e][k]["note"] > 0 => applied[e][k]["turn"] > 0
                      /\ applied[e][k]["turn"] > 0 => applied[e][k]["trial"] > 0
                      /\ applied[e][k]["pool"] > 0 => applied[e][k]["health"] > 0
    BY DEF EffectsInOrder
  <2>1. PICK s \in Effects : \/ applied[e][k] = Mark(Passed(e, s))
                             \/ applied[e][k] = Mark(Passed(e, s) \cup {s})
    BY DEF IInv, PrefixDone
  <2> DEFINE S == {t \in Effects : applied[e][k][t] > 0}
  <2>2. \A t \in Effects : applied[e][k][t] > 0 <=> t \in S
    OBVIOUS
  <2>3. S = Passed(e, s) \/ S = Passed(e, s) \cup {s}
    <3>1. Passed(e, s) \subseteq Effects
      BY DEF Passed, Effects
    <3> QED BY <2>1, <3>1 DEF Mark
  <2>4. {"trial", "note", "turn", "pool", "health"} \subseteq Effects /\ Due(e, k) \subseteq Effects
    BY DEF Effects, Due
  <2> HIDE DEF S
  <2>5. "trial" \in S => Due(e, k) \subseteq S
    <3>1. s \in {"log", "trial", "turn", "note", "review", "health", "pool"}
      BY DEF Effects
    <3> SUFFICES ASSUME "trial" \in S PROVE Due(e, k) \subseteq S
      OBVIOUS
    <3>2. s \in {"trial", "turn", "note"}
      BY <2>3, <3>1 DEF Passed
    <3>3. {"health", "pool", "log"} \subseteq S
      BY <2>3, <3>2 DEF Passed
    <3>4. e \in Reviewed => "review" \in S
      BY <2>3, <3>2 DEF Passed
    <3> QED BY <3>3, <3>4 DEF Due
  <2>6. /\ "note" \in S => "turn" \in S
        /\ "turn" \in S => "trial" \in S
        /\ "pool" \in S => "health" \in S
    BY <2>3 DEF Passed, Effects
  <2> QED BY <2>2, <2>4, <2>5, <2>6 DEF Complete
<1> QED BY <1>1, PrefixesHold, PTL

(* A rating counts only for an execution that succeeded. *)
THEOREM RatingsFollowSuccess == Spec => []RatedOnlyAfterSuccess
<1>1. IInv => RatedOnlyAfterSuccess
  BY DEF IInv, RatingsBacked, Untouched, RatedOnlyAfterSuccess, Mark, Kinds
<1> QED BY <1>1, PrefixesHold, PTL

(* Only the death of a report parts the events from their effects. *)
THEOREM EventsAreAccountedFor == Spec => []OnlyDeathLoses
<1>1. IInv => OnlyDeathLoses
  <2> SUFFICES ASSUME IInv, NEW e \in Executions, NEW k \in events[e]
               PROVE  \/ Complete(e, k)
                      \/ k \in lost[e]
                      \/ \E h \in Handlers : task[h] \in Task /\ task[h].exec = e /\ task[h].kind = k
    BY DEF OnlyDeathLoses
  <2>1. k \in Kinds
    BY DEF IInv, TypeOK
  <2>2. \A h \in Handlers : Busy(h) => task[h] \in Task
    BY DEF IInv, TypeOK, Busy, Idle, Effects
  <2> QED BY <2>1, <2>2 DEF IInv, Accounted, Complete
<1> QED BY <1>1, PrefixesHold, PTL

(* What a dead report left undone stays undone, however often the outcome  *)
(* is reported again.                                                      *)
THEOREM DeadReportsAreNotRepaired == Spec => RetryDoesNotRepair
<1>1. IInv /\ [Next]_vars =>
        [\A e \in Executions : \A k \in lost[e] : applied'[e][k] = applied[e][k]]_vars
  <2> SUFFICES ASSUME IInv, Next, NEW e \in Executions, NEW k \in lost[e]
               PROVE  applied'[e][k] = applied[e][k]
    OBVIOUS
  <2>1. CASE applied' = applied
    BY <2>1
  <2>2. ASSUME NEW h \in Handlers, Apply(h)
        PROVE  applied'[e][k] = applied[e][k]
    <3>1. /\ Busy(h)
          /\ applied' = [applied EXCEPT ![task[h].exec][task[h].kind][task[h].pc] = @ + 1]
      BY <2>2 DEF Apply, Busy
    <3>2. task[h].exec \in Executions /\ task[h].kind \in Kinds
      BY <3>1 DEF IInv, TypeOK, Busy, Idle, Task, Effects
    <3>3. ~(task[h].exec = e /\ task[h].kind = k)
      BY <3>1 DEF IInv, ReportsOnTrack
    <3> QED BY <3>1, <3>2, <3>3 DEF IInv, TypeOK
  <2> QED BY <2>1, <2>2 DEF Next, ReportExecution, ReportQuality, RecordQuality, Die
<1> QED BY <1>1, PrefixesHold, PTL DEF Spec, RetryDoesNotRepair

-----------------------------------------------------------------------------
(* The refinement.  An outcome's fate depends on its own row, effects and  *)
(* losses only, so a step moves the fate of at most one outcome.           *)
LEMMA FatesMap ==
  ASSUME NEW e \in Executions, NEW k \in Kinds
  PROVE  /\ LedgerView[e][k] = Fate(e, k)
         /\ LedgerView'[e][k] = Fate(e, k)'
BY DEF LedgerView

(* An outcome whose rows do not move keeps its fate. *)
LEMMA SameFate ==
  ASSUME NEW e \in Executions, NEW k \in Kinds,
         k \in events'[e] <=> k \in events[e],
         k \in lost'[e] <=> k \in lost[e],
         applied'[e][k] = applied[e][k]
  PROVE  Fate(e, k)' = Fate(e, k)
<1>1. Complete(e, k)' <=> Complete(e, k)
  BY DEF Complete, Due
<1> QED BY <1>1 DEF Fate

(* If one outcome's fate is what changes, the ledger makes that one move.  *)
LEMMA OneFateMoves ==
  ASSUME NEW e \in Executions, NEW k \in Kinds,
         \A f \in Executions, j \in Kinds :
           ~(f = e /\ j = k) => Fate(f, j)' = Fate(f, j)
  PROVE  LedgerView' = [LedgerView EXCEPT ![e][k] = Fate(e, k)']
<1> DEFINE row == [j \in Kinds |-> Fate(e, j)]
<1>1. [LedgerView EXCEPT ![e][k] = Fate(e, k)']
        = [LedgerView EXCEPT ![e] = [LedgerView[e] EXCEPT ![k] = Fate(e, k)']]
  BY DEF LedgerView
<1>2. LedgerView[e] = row
  BY DEF LedgerView
<1>3. [j \in Kinds |-> Fate(e, j)'] = [row EXCEPT ![k] = Fate(e, k)']
  OBVIOUS
<1>4. \A f \in Executions : f # e => [j \in Kinds |-> Fate(f, j)'] = [j \in Kinds |-> Fate(f, j)]
  OBVIOUS
<1>5. LedgerView' = [f \in Executions |-> [j \in Kinds |-> Fate(f, j)']]
  BY DEF LedgerView
<1> HIDE DEF row
<1>6. LedgerView = [f \in Executions |-> [j \in Kinds |-> Fate(f, j)]]
  BY DEF LedgerView
<1>7. [LedgerView EXCEPT ![e] = [row EXCEPT ![k] = Fate(e, k)']]
        = [f \in Executions |-> IF f = e THEN [row EXCEPT ![k] = Fate(e, k)'] ELSE LedgerView[f]]
  BY <1>6
<1>8. \A f \in Executions : f # e => LedgerView[f] = [j \in Kinds |-> Fate(f, j)]
  BY <1>6
<1> QED BY <1>1, <1>2, <1>3, <1>4, <1>5, <1>7, <1>8

(* The first state is a first state of the ledger. *)
LEMMA LedgerInit == Init => Ledger!Init
<1> SUFFICES ASSUME Init PROVE Ledger!Init
  OBVIOUS
<1>1. \A e \in Executions, k \in Kinds : Fate(e, k) = "absent"
  BY DEF Init, Fate
<1>2. LedgerView = [e \in Executions |-> [k \in Kinds |-> "absent"]]
  BY <1>1 DEF LedgerView
<1> QED BY <1>2 DEF Ledger!Init, Ledger!Kinds, Kinds

(* A new row moves its outcome from absent to taken. *)
LEMMA RecordingTakes ==
  ASSUME IInv, NEW h \in Handlers, NEW e \in Executions, NEW k \in Kinds,
         TryRecord(h, e, k), UNCHANGED <<applied, lost>>
  PROVE  \/ LedgerView' = LedgerView
         \/ Ledger!Move(e, k, "absent", "taken")
<1>1. CASE IsNew(e, k)
  <2>1. events' = [events EXCEPT ![e] = @ \cup {k}]
    BY <1>1 DEF TryRecord
  <2>2. \A f \in Executions, j \in Kinds :
          j \in events'[f] <=> j \in events[f] \/ (f = e /\ j = k)
    BY <2>1 DEF IInv, TypeOK
  <2>3. applied' = applied /\ lost' = lost
    OBVIOUS
  <2>4. \A f \in Executions, j \in Kinds :
          ~(f = e /\ j = k) => Fate(f, j)' = Fate(f, j)
    BY <2>2, <2>3, SameFate
  <2>5. k \notin events[e] /\ k \notin lost[e] /\ applied[e][k] = Mark({})
    BY <1>1 DEF IsNew, IInv, Untouched
  <2>6. ~Complete(e, k)'
    BY <2>3, <2>5 DEF Complete, Due, Mark, Effects
  <2>7. Fate(e, k) = "absent" /\ Fate(e, k)' = "taken"
    BY <2>2, <2>3, <2>5, <2>6 DEF Fate
  <2> QED BY <2>4, <2>7, OneFateMoves, FatesMap DEF Ledger!Move
<1>2. CASE ~IsNew(e, k)
  <2>1. events' = events /\ applied' = applied /\ lost' = lost
    BY <1>2 DEF TryRecord
  <2>2. \A f \in Executions, j \in Kinds : Fate(f, j)' = Fate(f, j)
    BY <2>1, SameFate
  <2> QED BY <2>2 DEF LedgerView
<1> QED BY <1>1, <1>2

(* An effect settles its outcome, or leaves the ledger as it is. *)
LEMMA ApplyingSettles ==
  ASSUME IInv, NEW h \in Handlers, Apply(h)
  PROVE  \/ LedgerView' = LedgerView
         \/ \E e \in Executions, k \in Kinds : Ledger!Settle(e, k)
<1>0. Busy(h) /\ task[h].exec \in Executions /\ task[h].kind \in Kinds
  BY DEF Apply, Busy, IInv, TypeOK, Idle, Task, Effects
<1> PICK e \in Executions, k \in Kinds, s \in Effects :
      e = task[h].exec /\ k = task[h].kind /\ s = task[h].pc
  BY <1>0 DEF Busy
<1>1. /\ Busy(h)
      /\ applied' = [applied EXCEPT ![e][k][s] = @ + 1]
      /\ events' = events /\ lost' = lost
  BY DEF Apply, Busy
<1>3. k \in events[e] /\ k \notin lost[e]
  BY <1>1 DEF IInv, ReportsOnTrack
<1>4. \A f \in Executions, j \in Kinds :
        ~(f = e /\ j = k) => applied'[f][j] = applied[f][j]
  BY <1>1 DEF IInv, TypeOK
<1>5. \A t \in Effects : applied[e][k][t] > 0 => applied'[e][k][t] > 0
  BY <1>1 DEF IInv, TypeOK
<1>6. \A f \in Executions, j \in Kinds :
        ~(f = e /\ j = k) => Fate(f, j)' = Fate(f, j)
  BY <1>1, <1>4, SameFate
<1>7. Complete(e, k) => Complete(e, k)'
  BY <1>5 DEF Complete, Due, Effects
<1>8. /\ Fate(e, k) = IF Complete(e, k) THEN "applied" ELSE "taken"
      /\ Fate(e, k)' = IF Complete(e, k)' THEN "applied" ELSE "taken"
  BY <1>1, <1>3 DEF Fate
<1>9. CASE Fate(e, k)' = Fate(e, k)
  <2>1. \A f \in Executions, j \in Kinds : Fate(f, j)' = Fate(f, j)
    BY <1>6, <1>9
  <2> QED BY <2>1 DEF LedgerView
<1>10. CASE Fate(e, k)' # Fate(e, k)
  <2>1. Fate(e, k) = "taken" /\ Fate(e, k)' = "applied"
    BY <1>7, <1>8, <1>10
  <2>2. Ledger!Move(e, k, "taken", "applied")
    <3>1. LedgerView' = [LedgerView EXCEPT ![e][k] = Fate(e, k)']
      BY <1>6, OneFateMoves
    <3> QED BY <2>1, <3>1, FatesMap DEF Ledger!Move
  <2> QED BY <2>2 DEF Ledger!Settle
<1> QED BY <1>9, <1>10

(* A death settles the outcome the report was at, unless it was complete.  *)
LEMMA DyingSettles ==
  ASSUME IInv, NEW h \in Handlers, Die(h)
  PROVE  \/ LedgerView' = LedgerView
         \/ \E e \in Executions, k \in Kinds : Ledger!Settle(e, k)
<1>1. CASE ~Busy(h)
  <2>1. task[h].pc = "record"
    BY <1>1 DEF Die, IInv, TypeOK, Busy, Task
  <2>2. events' = events /\ applied' = applied /\ lost' = lost
    BY <2>1 DEF Die
  <2>3. \A f \in Executions, j \in Kinds : Fate(f, j)' = Fate(f, j)
    BY <2>2, SameFate
  <2> QED BY <2>3 DEF LedgerView
<1>2. CASE Busy(h)
  <2>1. task[h].exec \in Executions /\ task[h].kind \in Kinds
    BY <1>2 DEF IInv, TypeOK, Busy, Idle, Task, Effects
  <2> PICK e \in Executions, k \in Kinds : e = task[h].exec /\ k = task[h].kind
    BY <2>1
  <2>2. /\ lost' = [lost EXCEPT ![e] = @ \cup {k}]
        /\ events' = events /\ applied' = applied
    BY <1>2 DEF Die, Busy, Effects
  <2>3. k \in events[e] /\ k \notin lost[e]
    BY <1>2 DEF IInv, ReportsOnTrack
  <2>4. \A f \in Executions, j \in Kinds :
          j \in lost'[f] <=> j \in lost[f] \/ (f = e /\ j = k)
    BY <2>2 DEF IInv, TypeOK
  <2>5. \A f \in Executions, j \in Kinds :
          ~(f = e /\ j = k) => Fate(f, j)' = Fate(f, j)
    BY <2>2, <2>4, SameFate
  <2>6. Complete(e, k)' <=> Complete(e, k)
    BY <2>2 DEF Complete, Due
  <2>7. CASE Complete(e, k)
    <3>1. Fate(e, k)' = Fate(e, k)
      BY <2>2, <2>3, <2>6, <2>7 DEF Fate
    <3>2. \A f \in Executions, j \in Kinds : Fate(f, j)' = Fate(f, j)
      BY <2>5, <3>1
    <3> QED BY <3>2 DEF LedgerView
  <2>8. CASE ~Complete(e, k)
    <3>1. Fate(e, k) = "taken" /\ Fate(e, k)' = "lost"
      BY <2>2, <2>3, <2>4, <2>6, <2>8 DEF Fate
    <3>2. Ledger!Move(e, k, "taken", "lost")
      <4>1. LedgerView' = [LedgerView EXCEPT ![e][k] = Fate(e, k)']
        BY <2>5, OneFateMoves
      <4> QED BY <3>1, <4>1, FatesMap DEF Ledger!Move
    <3> QED BY <3>2 DEF Ledger!Settle
  <2> QED BY <2>7, <2>8
<1> QED BY <1>1, <1>2

(* Every step of the pipeline is a step of the ledger, or none. *)
LEMMA LedgerStep == IInv /\ [Next]_vars => [Ledger!Next]_LedgerView
<1> SUFFICES ASSUME IInv, [Next]_vars
             PROVE  LedgerView' = LedgerView \/ Ledger!Next
  OBVIOUS
<1>0. Ledger!Kinds = Kinds
  BY DEF Ledger!Kinds, Kinds
<1>1. ASSUME NEW h \in Handlers, NEW e \in Executions, NEW k \in ExecKinds,
             ReportExecution(h, e, k)
      PROVE  LedgerView' = LedgerView \/ Ledger!Next
  <2>1. k \in Kinds
    BY DEF Kinds
  <2>2. LedgerView' = LedgerView \/ Ledger!Move(e, k, "absent", "taken")
    BY <1>1, <2>1, RecordingTakes DEF ReportExecution
  <2> QED BY <1>0, <2>1, <2>2 DEF Ledger!Next, Ledger!TakeExecution
<1>2. ASSUME NEW h \in Handlers, RecordQuality(h)
      PROVE  LedgerView' = LedgerView \/ Ledger!Next
  <2> DEFINE e == task[h].exec
             k == task[h].kind
  <2>1. e \in Executions /\ k \in Kinds
    BY <1>2 DEF RecordQuality, IInv, TypeOK, Idle, Task
  <2>2. k \in QualityKinds /\ "exec_success" \in events[e]
    BY <1>2 DEF RecordQuality, IInv, RatingsBacked
  <2>3. LedgerView[e]["exec_success"] # "absent"
    BY <2>1, <2>2, FatesMap DEF Fate, Kinds, ExecKinds
  <2>4. LedgerView' = LedgerView \/ Ledger!Move(e, k, "absent", "taken")
    BY <1>2, <2>1, RecordingTakes DEF RecordQuality
  <2> QED BY <1>0, <2>1, <2>2, <2>3, <2>4 DEF Ledger!Next, Ledger!TakeRating
<1>3. ASSUME NEW h \in Handlers, Apply(h) \/ Die(h)
      PROVE  LedgerView' = LedgerView \/ Ledger!Next
  BY <1>0, <1>3, ApplyingSettles, DyingSettles DEF Ledger!Next
<1>4. ASSUME events' = events, applied' = applied, lost' = lost
      PROVE  LedgerView' = LedgerView
  <2>1. \A f \in Executions, j \in Kinds : Fate(f, j)' = Fate(f, j)
    BY <1>4, SameFate
  <2> QED BY <2>1 DEF LedgerView
<1> QED BY <1>1, <1>2, <1>3, <1>4 DEF Next, ReportQuality, vars

(* The pipeline implements the ledger: whatever is interleaved, retried or *)
(* dies, each outcome is taken once and settled once.                      *)
THEOREM PipelineKeepsLedger == Spec => KeepsLedger
BY LedgerInit, LedgerStep, PrefixesHold, PTL DEF Spec, KeepsLedger, Ledger!Spec
=============================================================================
