------------------------ MODULE FederationScoresProofs ----------------------
(***************************************************************************)
(* Theorems about FederationScores for any classes, models, handlers,      *)
(* threshold and bounds.                                                   *)
(***************************************************************************)
EXTENDS FederationScores, TLAPS

USE SignificanceTakesAReport, BoundsAreNumbers, ClassesAreKnown

-----------------------------------------------------------------------------
(* The inductive invariant.                                                *)

(* No count runs ahead of the server's. *)
CountsInRange ==
  /\ \A c \in Classes, m \in Models :
       /\ scores[c][m] <= total[c][m]
       /\ marked[c][m] <= total[c][m]
       /\ counted[c][m] <= total[c][m]
  /\ \A h \in Handlers : task[h] # Idle =>
       task[h].current_total <= total[task[h].class][task[h].model]

(* The client's versions are old ones of the server, and a class without a *)
(* version was never counted for a bump.                                   *)
VersionsInRange ==
  \A c \in Classes :
    /\ known[c] <= version[c] /\ remote[c] <= version[c]
    /\ version[c] = 0 => \A m \in Models : counted[c][m] = 0

(* Scores on their way into the store are at least as new as those in it   *)
(* and as the version they will be filed under.                            *)
ArrivedInRange ==
  \A c \in fetching :
    /\ c \notin Unroutable
    /\ \A m \in Models :
         /\ scores[c][m] <= fetched[m] /\ fetched[m] <= total[c][m]
         /\ remote[c] = version[c] => counted[c][m] <= fetched[m]

(* Without a report under way or lost, no model of the class has collected *)
(* a significant number since the bump, nor since its mark.                *)
Signalled ==
  \A c \in Classes : Quiet(c) /\ ~missed[c] =>
    \A m \in Models :
      /\ total[c][m] < counted[c][m] + Threshold
      /\ marked[c][m] <= counted[c][m]

Inv ==
  /\ TypeOK /\ CountsInRange /\ VersionsInRange /\ ArrivedInRange
  /\ KnownScoresCoverTheBump /\ Signalled

-----------------------------------------------------------------------------
(* What a busy slot holds. *)
LEMMA BusySlot ==
  ASSUME TypeOK, NEW h \in Handlers, task[h] # Idle
  PROVE  /\ task[h] \in Task
         /\ task[h].class \in Classes /\ task[h].model \in Models
         /\ task[h].current_total \in Nat
BY DEF TypeOK, Task

LEMMA InitEstablishesInv == Init => Inv
<1> SUFFICES ASSUME Init PROVE Inv
  OBVIOUS
<1>1. TypeOK
  BY DEF Init, TypeOK, Counts, Versions, None
<1>2. \A c \in Classes, m \in Models :
        total[c][m] = 0 /\ scores[c][m] = 0 /\ marked[c][m] = 0 /\ counted[c][m] = 0
  BY DEF Init, None
<1>3. \A c \in Classes : known[c] = 0 /\ remote[c] = 0 /\ version[c] = 0
  BY DEF Init
<1>4. /\ \A h \in Handlers : task[h] = Idle
      /\ fetching = {}
  BY DEF Init
<1>5. CountsInRange /\ VersionsInRange /\ ArrivedInRange
  BY <1>2, <1>3, <1>4 DEF CountsInRange, VersionsInRange, ArrivedInRange
<1>6. KnownScoresCoverTheBump /\ Signalled
  BY <1>2 DEF KnownScoresCoverTheBump, Signalled
<1> QED
  BY <1>1, <1>5, <1>6 DEF Inv

-----------------------------------------------------------------------------
(* The steps of the server.                                                *)

LEMMA ReportKeepsInv ==
  ASSUME Inv, NEW h \in Handlers, NEW c \in Classes, NEW m \in Models, Report(h, c, m)
  PROVE  Inv'
<1> DEFINE count == total[c][m] + 1
           busy == [pc |-> "mark", class |-> c, model |-> m, current_total |-> count]
<1>1. /\ total \in Counts /\ marked \in Counts /\ count \in Nat
      /\ total[c][m] \in Nat /\ marked[c][m] \in Nat
  BY DEF Inv, TypeOK, Counts
<1>2. busy \in Task /\ busy # Idle /\ busy.class = c /\ busy.model = m /\ busy.current_total = count
  BY <1>1 DEF Task, Idle
<1>3. /\ total' = [total EXCEPT ![c][m] = count]
      /\ task[h] = Idle
      /\ task' = IF Significant(count, marked[c][m]) THEN [task EXCEPT ![h] = busy] ELSE task
      /\ UNCHANGED <<marked, version, client, history>>
  BY DEF Report
<1> HIDE DEF count, busy
<1>4. /\ total' \in Counts /\ total'[c][m] = count
      /\ \A d \in Classes, k \in Models : d # c \/ k # m => total'[d][k] = total[d][k]
  BY <1>1, <1>3 DEF Counts
<1>5. \A d \in Classes, k \in Models : total[d][k] <= total'[d][k]
  BY <1>1, <1>4 DEF count, Counts
<1>6. task \in [Handlers -> {Idle} \cup Task]
  BY DEF Inv, TypeOK
<1>7. /\ task' \in [Handlers -> {Idle} \cup Task]
      /\ \A g \in Handlers \ {h} : task'[g] = task[g]
      /\ task'[h] \in {Idle, busy}
      /\ task'[h] = Idle => ~Significant(count, marked[c][m])
  BY <1>2, <1>3, <1>6
<1>8. TypeOK'
  BY <1>3, <1>4, <1>7 DEF Inv, TypeOK, client, history
<1>9. CountsInRange'
  <2>1. \A d \in Classes, k \in Models :
          /\ scores'[d][k] <= total'[d][k]
          /\ marked'[d][k] <= total'[d][k]
          /\ counted'[d][k] <= total'[d][k]
    BY <1>3, <1>5, <1>8 DEF Inv, CountsInRange, TypeOK, Counts, client, history
  <2>2. ASSUME NEW g \in Handlers, task'[g] # Idle
        PROVE  task'[g].current_total <= total'[task'[g].class][task'[g].model]
    <3>1. CASE g = h
      BY <3>1, <2>2, <1>2, <1>4, <1>7, <1>1
    <3>2. CASE g # h
      <4>1. task'[g] = task[g] /\ task[g] # Idle
        BY <3>2, <2>2, <1>7
      <4>2. /\ task[g].class \in Classes /\ task[g].model \in Models
            /\ task[g].current_total \in Nat
        BY <4>1, BusySlot DEF Inv
      <4>3. task[g].current_total <= total[task[g].class][task[g].model]
        BY <4>1 DEF Inv, CountsInRange
      <4> QED
        BY <4>1, <4>2, <4>3, <1>5, <1>1, <1>4 DEF Counts
    <3> QED
      BY <3>1, <3>2
  <2> QED
    BY <2>1, <2>2 DEF CountsInRange
<1>10. VersionsInRange' /\ KnownScoresCoverTheBump'
  BY <1>3 DEF Inv, VersionsInRange, KnownScoresCoverTheBump, client, history
<1>11. ArrivedInRange'
  <2>1. fetching \subseteq Classes
    BY DEF Inv, TypeOK
  <2> QED
    BY <1>3, <1>5, <1>1, <1>4, <2>1 DEF Inv, ArrivedInRange, TypeOK, Counts, client, history
<1>12. Signalled'
  <2> SUFFICES ASSUME NEW d \in Classes, Quiet(d)', ~missed'[d], NEW k \in Models
               PROVE  total'[d][k] < counted'[d][k] + Threshold /\ marked'[d][k] <= counted'[d][k]
    BY DEF Signalled
  <2>1. Quiet(d)
    BY <1>3, <1>7 DEF Quiet
  <2>2. total[d][k] < counted[d][k] + Threshold /\ marked[d][k] <= counted[d][k]
    BY <2>1, <1>3 DEF Inv, Signalled, history
  <2>3. marked' = marked /\ counted' = counted
    BY <1>3 DEF history
  <2>4. CASE d = c /\ k = m
    <3>1. task'[h] = Idle
      BY <2>4, <1>2, <1>7 DEF Quiet
    <3>2. count < marked[c][m] + Threshold
      BY <3>1, <1>1, <1>7 DEF Significant
    <3>3. counted[c][m] \in Nat
      BY DEF Inv, TypeOK, Counts
    <3> QED
      BY <2>2, <2>3, <2>4, <3>2, <3>3, <1>1, <1>4
  <2>5. CASE d # c \/ k # m
    BY <2>2, <2>3, <2>5, <1>4
  <2> QED
    BY <2>4, <2>5
<1> QED
  BY <1>8, <1>9, <1>10, <1>11, <1>12 DEF Inv

LEMMA MarkKeepsInv ==
  ASSUME Inv, NEW h \in Handlers, Mark(h)
  PROVE  Inv'
<1> DEFINE c == task[h].class
           m == task[h].model
           count == task[h].current_total
<1>1. task[h] # Idle
  BY DEF Mark, Idle
<1>2. /\ task[h] \in Task /\ c \in Classes /\ m \in Models /\ count \in Nat
      /\ count <= total[c][m]
  BY <1>1, BusySlot DEF Inv, CountsInRange
<1>3. /\ marked' = [marked EXCEPT ![c][m] = count]
      /\ task' = [task EXCEPT ![h] = [task[h] EXCEPT !.pc = "bump"]]
      /\ UNCHANGED <<total, version, client, history>>
  BY DEF Mark
<1>4. /\ marked' \in Counts /\ marked'[c][m] = count
      /\ \A d \in Classes, k \in Models : d # c \/ k # m => marked'[d][k] = marked[d][k]
  <2>1. marked \in Counts
    BY DEF Inv, TypeOK
  <2> HIDE DEF c, m, count
  <2> QED
    BY <1>2, <1>3, <2>1 DEF Counts
<1>5. /\ task \in [Handlers -> {Idle} \cup Task]
      /\ task' \in [Handlers -> {Idle} \cup Task]
  <2>1. task \in [Handlers -> {Idle} \cup Task]
    BY DEF Inv, TypeOK
  <2>2. [task[h] EXCEPT !.pc = "bump"] \in Task
    BY <1>2 DEF Task
  <2> QED
    BY <1>3, <2>1, <2>2
<1>6. \A g \in Handlers :
        /\ task'[g] = Idle <=> task[g] = Idle
        /\ task[g] # Idle => /\ task'[g].class = task[g].class
                             /\ task'[g].model = task[g].model
                             /\ task'[g].current_total = task[g].current_total
  BY <1>1, <1>2, <1>3, <1>5 DEF Idle, Task
<1>7. TypeOK'
  BY <1>3, <1>4, <1>5 DEF Inv, TypeOK, client, history
<1>8. CountsInRange'
  <2>1. \A g \in Handlers : task'[g] # Idle =>
          task'[g].current_total <= total'[task'[g].class][task'[g].model]
    BY <1>3, <1>6 DEF Inv, CountsInRange
  <2> HIDE DEF c, m, count
  <2>2. \A d \in Classes, k \in Models : marked'[d][k] <= total'[d][k]
    BY <1>2, <1>3, <1>4 DEF Inv, CountsInRange
  <2> QED
    BY <2>1, <2>2, <1>3 DEF Inv, CountsInRange, client, history
<1>9. VersionsInRange' /\ KnownScoresCoverTheBump' /\ ArrivedInRange'
  BY <1>3 DEF Inv, VersionsInRange, KnownScoresCoverTheBump, ArrivedInRange, client, history
<1>10. Signalled'
  <2> SUFFICES ASSUME NEW d \in Classes, Quiet(d)', ~missed'[d], NEW k \in Models
               PROVE  total'[d][k] < counted'[d][k] + Threshold /\ marked'[d][k] <= counted'[d][k]
    BY DEF Signalled
  <2>1. Quiet(d) /\ d # c
    BY <1>1, <1>6 DEF Quiet
  <2>2. total[d][k] < counted[d][k] + Threshold /\ marked[d][k] <= counted[d][k]
    BY <2>1, <1>3 DEF Inv, Signalled, history
  <2> HIDE DEF c, m, count
  <2> QED
    BY <2>1, <2>2, <1>3, <1>4 DEF history
<1> QED
  BY <1>7, <1>8, <1>9, <1>10 DEF Inv

LEMMA BumpKeepsInv ==
  ASSUME Inv, NEW h \in Handlers, Bump(h)
  PROVE  Inv'
<1> DEFINE c == task[h].class
<1>1. task[h] # Idle
  BY DEF Bump, Idle
<1>2. c \in Classes
  BY <1>1, BusySlot DEF Inv
<1>3. /\ version' = [version EXCEPT ![c] = @ + 1]
      /\ counted' = [counted EXCEPT ![c] = total[c]]
      /\ missed' = [missed EXCEPT ![c] = FALSE]
      /\ task' = [task EXCEPT ![h] = Idle]
      /\ UNCHANGED <<total, marked, client>>
  BY DEF Bump
<1>4. \A g \in Handlers : task'[g] = IF g = h THEN Idle ELSE task[g]
  BY <1>3 DEF Inv, TypeOK
<1>5. \A d \in Classes \ {c} : Quiet(d)' => Quiet(d)
  BY <1>4 DEF Quiet
<1> HIDE DEF c
<1>6. /\ version \in Versions /\ counted \in Counts /\ total \in Counts
      /\ missed \in [Classes -> BOOLEAN]
  BY DEF Inv, TypeOK
<1>7. /\ version'[c] = version[c] + 1
      /\ \A d \in Classes \ {c} : version'[d] = version[d]
      /\ \A k \in Models : counted'[c][k] = total[c][k]
      /\ \A d \in Classes \ {c} : counted'[d] = counted[d] /\ missed'[d] = missed[d]
  BY <1>2, <1>3, <1>6 DEF Versions, Counts
<1>8. TypeOK'
  <2>1. version' \in Versions
    BY <1>2, <1>3, <1>6 DEF Versions
  <2>2. counted' \in Counts
    BY <1>2, <1>3, <1>6 DEF Counts
  <2>3. missed' \in [Classes -> BOOLEAN]
    BY <1>3, <1>6
  <2>4. task' \in [Handlers -> {Idle} \cup Task]
    BY <1>3 DEF Inv, TypeOK
  <2> QED
    BY <1>3, <2>1, <2>2, <2>3, <2>4 DEF Inv, TypeOK, client
<1>9. CountsInRange'
  <2>1. \A g \in Handlers : task'[g] # Idle =>
          task'[g].current_total <= total'[task'[g].class][task'[g].model]
    BY <1>3, <1>4 DEF Inv, CountsInRange
  <2>2. \A d \in Classes, k \in Models : counted'[d][k] <= total'[d][k]
    <3> TAKE d \in Classes, k \in Models
    <3>1. CASE d = c
      BY <3>1, <1>3, <1>6, <1>7 DEF Counts
    <3>2. CASE d # c
      BY <3>2, <1>3, <1>7 DEF Inv, CountsInRange
    <3> QED
      BY <3>1, <3>2
  <2> QED
    BY <2>1, <2>2, <1>3 DEF Inv, CountsInRange, client
<1>10. /\ \A d \in Classes : known[d] \in Nat /\ remote[d] \in Nat /\ version[d] \in Nat
       /\ UNCHANGED <<total, scores, known, remote, fetching, fetched>>
  BY <1>3 DEF Inv, TypeOK, Versions, client
<1>11. known[c] < version'[c] /\ remote[c] < version'[c]
  BY <1>2, <1>7, <1>10 DEF Inv, VersionsInRange
<1>12. VersionsInRange'
  <2> SUFFICES ASSUME NEW d \in Classes
               PROVE  /\ known'[d] <= version'[d] /\ remote'[d] <= version'[d]
                      /\ version'[d] = 0 => \A k \in Models : counted'[d][k] = 0
    BY DEF VersionsInRange
  <2>1. CASE d = c
    BY <2>1, <1>2, <1>7, <1>10, <1>11
  <2>2. CASE d # c
    BY <2>2, <1>7, <1>10 DEF Inv, VersionsInRange
  <2> QED
    BY <2>1, <2>2
<1>13. KnownScoresCoverTheBump'
  <2> SUFFICES ASSUME NEW d \in Classes \ Unroutable, NEW k \in Models,
                      known'[d] = version'[d]
               PROVE  scores'[d][k] >= counted'[d][k]
    BY DEF KnownScoresCoverTheBump
  <2>1. d # c
    BY <1>2, <1>8, <1>10, <1>11 DEF TypeOK, Versions
  <2> QED
    BY <2>1, <1>7, <1>10 DEF Inv, KnownScoresCoverTheBump
<1>14. ArrivedInRange'
  <2> SUFFICES ASSUME NEW d \in fetching
               PROVE  /\ d \notin Unroutable
                      /\ \A k \in Models :
                           /\ scores[d][k] <= fetched[k] /\ fetched[k] <= total[d][k]
                           /\ remote[d] = version'[d] => counted'[d][k] <= fetched[k]
    BY <1>10 DEF ArrivedInRange
  <2>1. d \in Classes
    BY DEF Inv, TypeOK
  <2>2. CASE d = c
    BY <2>2, <1>2, <1>8, <1>10, <1>11 DEF Inv, ArrivedInRange, TypeOK, Versions
  <2>3. CASE d # c
    BY <2>1, <2>3, <1>7 DEF Inv, ArrivedInRange
  <2> QED
    BY <2>2, <2>3
<1>15. Signalled'
  <2> SUFFICES ASSUME NEW d \in Classes, Quiet(d)', ~missed'[d], NEW k \in Models
               PROVE  total'[d][k] < counted'[d][k] + Threshold /\ marked'[d][k] <= counted'[d][k]
    BY DEF Signalled
  <2>1. CASE d = c
    <3>1. total[c][k] \in Nat /\ marked[c][k] <= total[c][k]
      BY <1>2, <1>6 DEF Inv, CountsInRange, Counts
    <3> QED
      BY <2>1, <3>1, <1>3, <1>7
  <2>2. CASE d # c
    BY <2>2, <1>3, <1>5, <1>7 DEF Inv, Signalled
  <2> QED
    BY <2>1, <2>2
<1> QED
  BY <1>8, <1>9, <1>12, <1>13, <1>14, <1>15 DEF Inv

LEMMA DieKeepsInv ==
  ASSUME Inv, NEW h \in Handlers, Die(h)
  PROVE  Inv'
<1> DEFINE c == task[h].class
<1>1. c \in Classes
  BY BusySlot DEF Inv, Die
<1>2. /\ task' = [task EXCEPT ![h] = Idle]
      /\ missed' = [missed EXCEPT ![c] = TRUE]
      /\ UNCHANGED <<total, marked, version, client, counted>>
  BY DEF Die
<1>3. \A g \in Handlers : task'[g] = IF g = h THEN Idle ELSE task[g]
  BY <1>2 DEF Inv, TypeOK
<1>4. \A d \in Classes \ {c} : Quiet(d)' => Quiet(d)
  BY <1>3 DEF Quiet
<1> HIDE DEF c
<1>5. /\ missed' \in [Classes -> BOOLEAN]
      /\ missed'[c]
      /\ \A d \in Classes \ {c} : missed'[d] = missed[d]
  BY <1>1, <1>2 DEF Inv, TypeOK
<1>6. TypeOK'
  <2>1. task' \in [Handlers -> {Idle} \cup Task]
    BY <1>2 DEF Inv, TypeOK
  <2> QED
    BY <1>2, <1>5, <2>1 DEF Inv, TypeOK, client
<1>7. CountsInRange'
  BY <1>2, <1>3 DEF Inv, CountsInRange, client
<1>8. VersionsInRange' /\ KnownScoresCoverTheBump' /\ ArrivedInRange'
  BY <1>2 DEF Inv, VersionsInRange, KnownScoresCoverTheBump, ArrivedInRange, client
<1>9. Signalled'
  BY <1>1, <1>2, <1>4, <1>5 DEF Inv, Signalled
<1> QED
  BY <1>6, <1>7, <1>8, <1>9 DEF Inv

-----------------------------------------------------------------------------
(* The steps of the client.                                                *)

LEMMA FetchKeepsInv ==
  ASSUME Inv, NEW c \in Classes, Fetch(c)
  PROVE  Inv'
<1>1. /\ c \in todo \ Unroutable
      /\ fetching' = {c} /\ fetched' = total[c]
      /\ UNCHANGED <<server, tracked, scores, known, remote, todo, faults, history>>
  BY DEF Fetch
<1>2. TypeOK'
  <2>1. fetched' \in [Models -> Nat]
    BY <1>1 DEF Inv, TypeOK, Counts
  <2> QED
    BY <1>1, <2>1 DEF Inv, TypeOK, server, history
<1>3. /\ CountsInRange' /\ VersionsInRange' /\ KnownScoresCoverTheBump' /\ Signalled'
  BY <1>1 DEF Inv, CountsInRange, VersionsInRange, KnownScoresCoverTheBump, Signalled, Quiet,
              server, history
<1>4. ArrivedInRange'
  <2>1. \A k \in Models : /\ total[c][k] \in Nat /\ scores[c][k] <= total[c][k]
                          /\ counted[c][k] <= total[c][k]
    BY DEF Inv, CountsInRange, TypeOK, Counts
  <2> QED
    BY <1>1, <2>1 DEF ArrivedInRange, server, history
<1> QED
  BY <1>2, <1>3, <1>4 DEF Inv

LEMMA NotFoundKeepsInv ==
  ASSUME Inv, NEW c \in Classes, FetchNotFound(c)
  PROVE  Inv'
<1>1. /\ c \in Unroutable /\ fetching = {}
      /\ known' = [known EXCEPT ![c] = remote[c]]
      /\ todo' = todo \ {c}
      /\ UNCHANGED <<server, tracked, scores, remote, fetching, fetched, faults, history>>
  BY DEF FetchNotFound, FiledUnder
<1>2. /\ known' \in Versions
      /\ known'[c] = remote[c] /\ \A d \in Classes \ {c} : known'[d] = known[d]
  BY <1>1 DEF Inv, TypeOK, Versions
<1>3. TypeOK'
  BY <1>1, <1>2 DEF Inv, TypeOK, server, history
<1>4. CountsInRange' /\ ArrivedInRange' /\ Signalled'
  BY <1>1 DEF Inv, CountsInRange, ArrivedInRange, Signalled, Quiet, server, history
<1>5. VersionsInRange'
  BY <1>1, <1>2 DEF Inv, VersionsInRange, server, history
<1>6. KnownScoresCoverTheBump'
  BY <1>1, <1>2 DEF Inv, KnownScoresCoverTheBump, server, history
<1> QED
  BY <1>3, <1>4, <1>5, <1>6 DEF Inv

LEMMA SaveKeepsInv ==
  ASSUME Inv, NEW c \in Classes, Save(c)
  PROVE  Inv'
<1>1. /\ c \in fetching
      /\ scores' = [scores EXCEPT ![c] = fetched]
      /\ known' = [known EXCEPT ![c] = remote[c]]
      /\ todo' = todo \ {c} /\ fetching' = {}
      /\ UNCHANGED <<server, tracked, remote, fetched, faults, history>>
  BY DEF Save, FiledUnder
<1>2. /\ scores' \in Counts
      /\ scores'[c] = fetched /\ \A d \in Classes \ {c} : scores'[d] = scores[d]
  BY <1>1 DEF Inv, TypeOK, Counts
<1>3. /\ known' \in Versions
      /\ known'[c] = remote[c] /\ \A d \in Classes \ {c} : known'[d] = known[d]
  BY <1>1 DEF Inv, TypeOK, Versions
<1>4. TypeOK'
  BY <1>1, <1>2, <1>3 DEF Inv, TypeOK, server, history
<1>5. CountsInRange'
  <2>1. \A d \in Classes, k \in Models : scores'[d][k] <= total[d][k]
    BY <1>1, <1>2 DEF Inv, CountsInRange, ArrivedInRange
  <2> QED
    BY <1>1, <2>1 DEF Inv, CountsInRange, server, history
<1>6. VersionsInRange'
  BY <1>1, <1>3 DEF Inv, VersionsInRange, server, history
<1>7. KnownScoresCoverTheBump'
  <2> SUFFICES ASSUME NEW d \in Classes \ Unroutable, NEW k \in Models,
                      known'[d] = version[d]
               PROVE  scores'[d][k] >= counted[d][k]
    BY <1>1 DEF KnownScoresCoverTheBump, server, history
  <2>1. CASE d = c
    <3>1. counted[c][k] <= fetched[k]
      BY <2>1, <1>1, <1>3 DEF Inv, ArrivedInRange
    <3>2. fetched[k] \in Nat /\ counted[c][k] \in Nat
      BY DEF Inv, TypeOK, Counts
    <3> QED
      BY <2>1, <3>1, <3>2, <1>2
  <2>2. CASE d # c
    BY <2>2, <1>2, <1>3 DEF Inv, KnownScoresCoverTheBump
  <2> QED
    BY <2>1, <2>2
<1>8. ArrivedInRange' /\ Signalled'
  BY <1>1 DEF Inv, ArrivedInRange, Signalled, Quiet, server, history
<1> QED
  BY <1>4, <1>5, <1>6, <1>7, <1>8 DEF Inv

(* Learning a class and starting a round read only. *)
LEMMA LearnOrPollKeepsInv ==
  ASSUME Inv, Poll \/ \E c \in Classes : Learn(c)
  PROVE  Inv'
<1>1. CASE Poll
  <2>1. fetching = {}
    BY <1>1 DEF Inv, TypeOK, Poll
  <2>2. TypeOK'
    BY <1>1, <2>1 DEF Inv, TypeOK, Poll, server, history
  <2>3. VersionsInRange'
    BY <1>1 DEF Inv, TypeOK, Versions, VersionsInRange, Poll, server, history
  <2>4. CountsInRange' /\ ArrivedInRange' /\ KnownScoresCoverTheBump' /\ Signalled'
    BY <1>1, <2>1 DEF Inv, CountsInRange, ArrivedInRange, KnownScoresCoverTheBump, Signalled,
                      Quiet, Poll, server, history
  <2> QED
    BY <2>2, <2>3, <2>4 DEF Inv
<1>2. CASE \E c \in Classes : Learn(c)
  <2>1. /\ tracked' \subseteq Classes
        /\ UNCHANGED <<server, scores, known, remote, todo, fetching, fetched, faults, history>>
    BY <1>2 DEF Inv, TypeOK, Learn
  <2>2. TypeOK'
    BY <2>1 DEF Inv, TypeOK, server, history
  <2>3. CountsInRange' /\ VersionsInRange' /\ ArrivedInRange' /\ KnownScoresCoverTheBump'
        /\ Signalled'
    BY <2>1 DEF Inv, CountsInRange, VersionsInRange, ArrivedInRange, KnownScoresCoverTheBump,
                Signalled, Quiet, server, history
  <2> QED
    BY <2>2, <2>3 DEF Inv
<1> QED
  BY <1>1, <1>2

LEMMA FaultKeepsInv ==
  ASSUME Inv, Fail \/ Restart
  PROVE  Inv'
<1>1. /\ todo' = {} /\ fetching' = {} /\ faults' = faults + 1
      /\ known' \in {known, [c \in Classes |-> 0]}
      /\ UNCHANGED <<server, tracked, scores, remote, fetched, history>>
  BY DEF Fail, Restart
<1>2. known' \in Versions
  BY <1>1 DEF Inv, TypeOK, Versions
<1>3. \A c \in Classes : known'[c] = known[c] \/ known'[c] = 0
  BY <1>1
<1>4. TypeOK'
  BY <1>1, <1>2 DEF Inv, TypeOK, server, history
<1>5. CountsInRange' /\ ArrivedInRange' /\ Signalled'
  BY <1>1 DEF Inv, CountsInRange, ArrivedInRange, Signalled, Quiet, server, history
<1>6. VersionsInRange'
  <2>1. \A c \in Classes : version[c] \in Nat
    BY DEF Inv, TypeOK, Versions
  <2> QED
    BY <1>1, <1>3, <2>1 DEF Inv, VersionsInRange, server, history
<1>7. KnownScoresCoverTheBump'
  <2> SUFFICES ASSUME NEW c \in Classes \ Unroutable, NEW m \in Models,
                      known'[c] = version[c]
               PROVE  scores[c][m] >= counted[c][m]
    BY <1>1 DEF KnownScoresCoverTheBump, server, history
  <2>1. CASE known'[c] = known[c]
    BY <2>1 DEF Inv, KnownScoresCoverTheBump
  <2>2. CASE known'[c] = 0
    <3>1. counted[c][m] = 0 /\ scores[c][m] \in Nat
      BY <2>2 DEF Inv, VersionsInRange, TypeOK, Counts
    <3> QED
      BY <3>1
  <2> QED
    BY <1>3, <2>1, <2>2
<1> QED
  BY <1>4, <1>5, <1>6, <1>7 DEF Inv

LEMMA StutterKeepsInv == Inv /\ UNCHANGED vars => Inv'
BY DEF Inv, TypeOK, CountsInRange, VersionsInRange, ArrivedInRange, KnownScoresCoverTheBump,
       Signalled, Quiet, vars, server, client, history

-----------------------------------------------------------------------------
(* Theorems.                                                               *)

(* The inductive invariant holds in every reachable state. *)
THEOREM ScoresStaySound == Spec => []Inv
<1>1. Init => Inv
  BY InitEstablishesInv
<1>2. Inv /\ [Next]_vars => Inv'
  <2> SUFFICES ASSUME Inv, [Next]_vars PROVE Inv'
    OBVIOUS
  <2>1. ASSUME NEW h \in Handlers, NEW c \in Classes, NEW m \in Models, Report(h, c, m)
        PROVE  Inv'
    BY <2>1, ReportKeepsInv
  <2>2. ASSUME NEW h \in Handlers, Serve(h) \/ Die(h)
        PROVE  Inv'
    BY <2>2, MarkKeepsInv, BumpKeepsInv, DieKeepsInv DEF Serve
  <2>3. ASSUME NEW c \in Classes, Sync(c)
        PROVE  Inv'
    BY <2>3, FetchKeepsInv, NotFoundKeepsInv, SaveKeepsInv DEF Sync
  <2>4. CASE Poll \/ \E c \in Classes : Learn(c)
    BY <2>4, LearnOrPollKeepsInv
  <2>5. CASE Fail \/ Restart
    BY <2>5, FaultKeepsInv
  <2>6. CASE UNCHANGED vars
    BY <2>6, StutterKeepsInv
  <2> QED
    BY <2>1, <2>2, <2>3, <2>4, <2>5, <2>6 DEF Next
<1> QED
  BY <1>1, <1>2, PTL DEF Spec

(* Every reachable state of the federation scores is well typed. *)
THEOREM TypeCorrect == Spec => []TypeOK
<1>1. Inv => TypeOK
  BY DEF Inv
<1> QED
  BY <1>1, ScoresStaySound, PTL

(* Known scores count every outcome up to the bump they are filed under.   *)
THEOREM ScoresCoverTheBump == Spec => []KnownScoresCoverTheBump
<1>1. Inv => KnownScoresCoverTheBump
  BY DEF Inv
<1> QED
  BY <1>1, ScoresStaySound, PTL

(* An up-to-date client is less than a significant number of outcomes      *)
(* behind, for any number of overlapping reports.                          *)
THEOREM UpToDateClientsLagLittle == Spec => []LagBelowThreshold
<1>1. Inv => LagBelowThreshold
  <2> SUFFICES ASSUME Inv, NEW c \in Classes \ Unroutable, NEW m \in Models,
                      known[c] = version[c], Quiet(c), ~missed[c]
               PROVE  total[c][m] < scores[c][m] + Threshold
    BY DEF LagBelowThreshold
  <2>1. scores[c][m] >= counted[c][m] /\ total[c][m] < counted[c][m] + Threshold
    BY DEF Inv, KnownScoresCoverTheBump, Signalled
  <2>2. scores[c][m] \in Nat /\ counted[c][m] \in Nat /\ total[c][m] \in Nat
    BY DEF Inv, TypeOK, Counts
  <2> QED
    BY <2>1, <2>2
<1> QED
  BY <1>1, ScoresStaySound, PTL

(* Stored scores never go back.                                            *)
THEOREM StoredScoresNeverRegress == Spec => ScoresNeverRegress
<1>1. Inv /\ [Next]_vars =>
        [\A c \in Classes, m \in Models : scores'[c][m] >= scores[c][m]]_vars
  <2> SUFFICES ASSUME Inv, Next, NEW c \in Classes, NEW m \in Models
               PROVE  scores'[c][m] >= scores[c][m]
    OBVIOUS
  <2>1. /\ scores[c][m] \in Nat /\ fetched[m] \in Nat
        /\ scores \in Counts
    BY DEF Inv, TypeOK, Counts
  <2>2. CASE \E d \in Classes : Save(d)
    <3>1. PICK d \in Classes : Save(d)
      BY <2>2
    <3>2. scores' = [scores EXCEPT ![d] = fetched] /\ d \in fetching
      BY <3>1 DEF Save
    <3>3. scores[d][m] <= fetched[m]
      BY <3>2 DEF Inv, ArrivedInRange
    <3> QED
      BY <2>1, <3>2, <3>3 DEF Counts
  <2>3. CASE UNCHANGED scores
    BY <2>1, <2>3
  <2> QED
    BY <2>2, <2>3 DEF Next, Report, Serve, Mark, Bump, Die, Learn, Sync, Fetch, FetchNotFound,
                      Poll, Fail, Restart, client
<1> QED
  BY <1>1, ScoresStaySound, PTL DEF Spec, ScoresNeverRegress
=============================================================================
