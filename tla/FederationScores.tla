-------------------------- MODULE FederationScores --------------------------
(***************************************************************************)
(* How the outcomes that applications report reach the other applications  *)
(* (federation/server/outcome_processor.py, federation/client/sync.py).    *)
(* The server counts outcomes per class and model; when a model has        *)
(* collected a significant number since its last mark, it marks the count  *)
(* and bumps the version of the class.  A client polls the versions and    *)
(* fetches the scores of a class whose version it does not know.           *)
(*                                                                         *)
(* A report is handled in three transactions (count, mark, bump) and may   *)
(* die between them.  The client keeps the scores in a file and the        *)
(* versions it knows in memory; its calls fail, and it restarts.           *)
(***************************************************************************)
EXTENDS Naturals

CONSTANTS
  Classes,     \* agent classes
  Unroutable,  \* those whose scores are answered with 404 (a gateway,
               \* a server without the endpoint)
  Models,
  Handlers,    \* slots for reports that are being handled at once
  Threshold,   \* FEDERATION_SIGNIFICANCE_THRESHOLD
  MaxReports,  \* bound: reports about one model, for each class
  MaxFaults    \* bound: failed calls and restarts of the client

ASSUME SignificanceTakesAReport == Threshold \in Nat \ {0}
ASSUME BoundsAreNumbers == MaxReports \in [Classes -> Nat] /\ MaxFaults \in Nat
ASSUME ClassesAreKnown == Unroutable \subseteq Classes

VARIABLES
  total,     \* federation_outcome_stats.total_count
  marked,    \* federation_outcome_stats.last_reorder_count
  version,   \* pool_versions.version, 0 when there is no row
  task,      \* the report each handler slot is working on
  tracked,   \* client: classes of its agent mappings (file)
  scores,    \* client: federation_scores.total_count (file)
  known,     \* client: _known_versions (memory)
  remote,    \* client: the versions that this round of the loop read
  todo,      \* client: classes left in this round
  fetching,  \* client: the class whose scores have arrived, if any
  fetched,   \* client: those scores
  faults,    \* how many calls and clients have failed
  counted,   \* history: total at the last bump of the class
  missed     \* history: a report died and the class was not bumped since

server == <<total, marked, version, task>>
client == <<tracked, scores, known, remote, todo, fetching, fetched, faults>>
history == <<counted, missed>>
vars == <<server, client, history>>

-----------------------------------------------------------------------------
Idle == [pc |-> "idle"]
Task == [pc : {"mark", "bump"}, class : Classes, model : Models, current_total : Nat]

Counts == [Classes -> [Models -> Nat]]
Versions == [Classes -> Nat]

TypeOK ==
  /\ total \in Counts /\ marked \in Counts /\ version \in Versions
  /\ task \in [Handlers -> {Idle} \cup Task]
  /\ tracked \subseteq Classes
  /\ scores \in Counts /\ known \in Versions /\ remote \in Versions
  /\ todo \subseteq Classes /\ fetching \subseteq todo
  /\ fetched \in [Models -> Nat] /\ faults \in Nat
  /\ counted \in Counts /\ missed \in [Classes -> BOOLEAN]

None == [m \in Models |-> 0]

Init ==
  /\ total = [c \in Classes |-> None] /\ marked = [c \in Classes |-> None]
  /\ version = [c \in Classes |-> 0]
  /\ task = [h \in Handlers |-> Idle]
  /\ tracked = {}
  /\ scores = [c \in Classes |-> None]
  /\ known = [c \in Classes |-> 0] /\ remote = [c \in Classes |-> 0]
  /\ todo = {} /\ fetching = {} /\ fetched = None /\ faults = 0
  /\ counted = [c \in Classes |-> None]
  /\ missed = [c \in Classes |-> FALSE]

-----------------------------------------------------------------------------
(* The server.                                                             *)

(* Mutant: one more report than the threshold. *)
SignificantLate(count, mark) == count > mark + Threshold

(* process_async: the outcome is counted, and the row that comes back says *)
(* whether the count is significant.                                       *)
Significant(count, mark) == count >= mark + Threshold

Report(h, c, m) ==
  /\ task[h] = Idle
  /\ total[c][m] < MaxReports[c]
  /\ LET count == total[c][m] + 1
     IN /\ total' = [total EXCEPT ![c][m] = count]
        /\ task' = IF Significant(count, marked[c][m])
                   THEN [task EXCEPT ![h] = [pc |-> "mark", class |-> c, model |-> m,
                                             current_total |-> count]]
                   ELSE task
  /\ UNCHANGED <<marked, version, client, history>>

(* mark_reorder: the count that this report saw, whatever was marked       *)
(* meanwhile.                                                              *)
Mark(h) ==
  /\ task[h].pc = "mark"
  /\ marked' = [marked EXCEPT ![task[h].class][task[h].model] = task[h].current_total]
  /\ task' = [task EXCEPT ![h] = [task[h] EXCEPT !.pc = "bump"]]
  /\ UNCHANGED <<total, version, client, history>>

Bump(h) ==
  /\ task[h].pc = "bump"
  /\ LET c == task[h].class
     IN /\ version' = [version EXCEPT ![c] = @ + 1]
        /\ counted' = [counted EXCEPT ![c] = total[c]]
        /\ missed' = [missed EXCEPT ![c] = FALSE]
  /\ task' = [task EXCEPT ![h] = Idle]
  /\ UNCHANGED <<total, marked, client>>

Die(h) ==
  /\ task[h] # Idle
  /\ task' = [task EXCEPT ![h] = Idle]
  /\ missed' = [missed EXCEPT ![task[h].class] = TRUE]
  /\ UNCHANGED <<total, marked, version, client, counted>>

-----------------------------------------------------------------------------
(* The client.                                                             *)

(* route() learns the class of an agent it did not know. *)
Learn(c) ==
  /\ tracked' = tracked \cup {c}
  /\ UNCHANGED <<server, scores, known, remote, todo, fetching, fetched, faults, history>>

(* A round begins: the versions of the tracked classes, read at once; the  *)
(* classes with a version that is not known are left to do.                *)
Poll ==
  /\ todo = {}
  /\ remote' = version
  /\ todo' = {c \in tracked : version[c] > 0 /\ version[c] # known[c]}
  /\ UNCHANGED <<server, tracked, scores, known, fetching, fetched, faults, history>>

(* Mutant: the version is read again when the scores have been stored. *)
FreshVersion(c) == version[c]

(* The version that the stored scores are filed under. *)
FiledUnder(c) == remote[c]

(* The scores as the server has them when the request arrives.             *)
Fetch(c) ==
  /\ c \in todo \ Unroutable /\ fetching = {}
  /\ fetching' = {c}
  /\ fetched' = total[c]
  /\ UNCHANGED <<server, tracked, scores, known, remote, todo, faults, history>>

(* A 404 stores nothing, and the version counts as known all the same.     *)
FetchNotFound(c) ==
  /\ c \in todo \cap Unroutable /\ fetching = {}
  /\ known' = [known EXCEPT ![c] = FiledUnder(c)]
  /\ todo' = todo \ {c}
  /\ UNCHANGED <<server, tracked, scores, remote, fetching, fetched, faults, history>>

(* Mutant: the version is not remembered with the scores. *)
SaveForgetsVersion(c) ==
  /\ c \in fetching
  /\ scores' = [scores EXCEPT ![c] = fetched]
  /\ todo' = todo \ {c} /\ fetching' = {}
  /\ UNCHANGED <<server, tracked, known, remote, fetched, faults, history>>

(* save_federation_scores replaces the rows of the class, then the version *)
(* is remembered.                                                          *)
Save(c) ==
  /\ c \in fetching
  /\ scores' = [scores EXCEPT ![c] = fetched]
  /\ known' = [known EXCEPT ![c] = FiledUnder(c)]
  /\ todo' = todo \ {c} /\ fetching' = {}
  /\ UNCHANGED <<server, tracked, remote, fetched, faults, history>>

(* A call or the store fails: the exception ends the round.                *)
Fail ==
  /\ todo # {} /\ faults < MaxFaults
  /\ todo' = {} /\ fetching' = {}
  /\ faults' = faults + 1
  /\ UNCHANGED <<server, tracked, scores, known, remote, fetched, history>>

(* A new process has the file and no known versions.                       *)
Restart ==
  /\ faults < MaxFaults
  /\ known' = [c \in Classes |-> 0]
  /\ todo' = {} /\ fetching' = {}
  /\ faults' = faults + 1
  /\ UNCHANGED <<server, tracked, scores, remote, fetched, history>>

-----------------------------------------------------------------------------
Serve(h) == Mark(h) \/ Bump(h)

Sync(c) == Fetch(c) \/ FetchNotFound(c) \/ Save(c)

Next ==
  \/ \E h \in Handlers :
       \/ \E c \in Classes, m \in Models : Report(h, c, m)
       \/ Serve(h) \/ Die(h)
  \/ \E c \in Classes : Learn(c) \/ Sync(c)
  \/ Poll \/ Fail \/ Restart

Spec == Init /\ [][Next]_vars

(* Reports that were accepted are handled, and the client's loop goes      *)
(* round; nobody has to report.                                            *)
FairSpec ==
  /\ Spec
  /\ \A h \in Handlers : WF_vars(Serve(h))
  /\ WF_vars(Poll)
  /\ \A c \in Classes : WF_vars(Sync(c))

-----------------------------------------------------------------------------
(* No report about the class is between its count and its bump. *)
Quiet(c) == \A h \in Handlers : task[h] = Idle \/ task[h].class # c

(* A client that knows the version of a class has scores that count every  *)
(* outcome up to that bump: the scores are never older than the version    *)
(* they are filed under (sync.py:106-107 fetches after it has read the     *)
(* version).                                                               *)
KnownScoresCoverTheBump ==
  \A c \in Classes \ Unroutable, m \in Models :
    known[c] = version[c] => scores[c][m] >= counted[c][m]

(* A client that is up to date lags behind the server by less than the     *)
(* significance threshold per model, however reports overlap and overwrite *)
(* each other's marks, once they are handled; only a report that died half *)
(* way hides more.                                                         *)
LagBelowThreshold ==
  \A c \in Classes \ Unroutable, m \in Models :
    (known[c] = version[c] /\ Quiet(c) /\ ~missed[c])
      => total[c][m] < scores[c][m] + Threshold

(* Stored scores never go back, through failures and restarts. *)
ScoresNeverRegress ==
  [][\A c \in Classes, m \in Models : scores'[c][m] >= scores[c][m]]_vars

(* Each bump of a tracked class reaches the client. *)
BumpReachesClient ==
  \A c \in Classes : \A n \in 1 .. MaxReports[c] :
    (c \in tracked /\ version[c] >= n) ~> known[c] >= n
=============================================================================
