----------------------------- MODULE Monitoring ------------------------------
(***************************************************************************)
(* The executions that monitoring keeps (monitoring/storage.py): the        *)
(* routing writes a row for every request, started and ended at once when   *)
(* the request is over (app/monitoring.py), clients of the HTTP API start   *)
(* and end rows of their own, and a watcher shows the last execution of     *)
(* every agent, again whenever it has changed (iter_agent_model_status      *)
(* with only_changes, monitoring/watch.py).                                 *)
(*                                                                         *)
(* Everything is in best effort: a write that fails is forgotten, a read    *)
(* that fails finds nothing.  Every write deletes what is too old.  No two  *)
(* updates share the second of their updated_at, which decides the order.   *)
(* Decisions are only counted and shown, and left out but for that.         *)
(***************************************************************************)
EXTENDS Naturals, Sequences, Sublists

CONSTANTS
  Requests,
  Ids,      \* bound: ids in use at one time, a uuid4 or what an API client chooses
  Agents,
  Limit     \* rows that the watcher looks at

VARIABLES
  rows,       \* table monitoring_executions, last updated first
  recording,  \* the row that each request has started and not ended
  abandoned,  \* history: ids of rows whose end was lost with a write or a process
  opened,     \* history: ids that an API client has started, not ended since
  online,     \* whether reads succeed
  shown       \* the board of the watcher

vars == <<rows, recording, abandoned, opened, online, shown>>

-----------------------------------------------------------------------------
None == "none"

Row == [id : Ids, agent : Agents, running : BOOLEAN, old : BOOLEAN]

IdsOf(s) == {s[i].id : i \in DOMAIN s}
RowOf(id) == rows[CHOOSE i \in DOMAIN rows : rows[i].id = id]
Without(s, id) == Sublist(s, {i \in DOMAIN s : s[i].id # id})

(* get_recent_executions, updated last first. *)
Recent(s) == SubSeq(s, 1, IF Len(s) < Limit THEN Len(s) ELSE Limit)

(* _build_agent_model_status: of the rows looked at, the first of each agent. *)
View(s) ==
  LET seen == Recent(s)
      First(agent) == SelectSeq(seen, LAMBDA row : row.agent = agent)[1]
  IN  [total |-> Len(seen),
       agents |-> {[id |-> First(seen[i].agent).id, agent |-> seen[i].agent,
                    running |-> First(seen[i].agent).running] : i \in DOMAIN seen}]

TypeOK ==
  /\ rows \in Seq(Row) /\ \A i, j \in DOMAIN rows : rows[i].id = rows[j].id => i = j
  /\ recording \in [Requests -> Ids \cup {None}]
  /\ abandoned \subseteq Ids /\ opened \subseteq Ids
  /\ online \in BOOLEAN

Init ==
  /\ rows = <<>>
  /\ recording = [r \in Requests |-> None]
  /\ abandoned = {}
  /\ opened = {}
  /\ online = TRUE
  /\ shown = View(<<>>)

-----------------------------------------------------------------------------
(* _cleanup_old_rows, within the transaction of every write. *)
CleanedUp(s) == Sublist(s, {i \in DOMAIN s : ~s[i].old})

(* start_execution: an id that is known is started again, and stays as old   *)
(* as it was.                                                                *)
Started(id, agent) ==
  LET old == id \in IdsOf(rows) /\ RowOf(id).old
  IN  CleanedUp(<<[id |-> id, agent |-> agent, running |-> TRUE, old |-> old]>> \o Without(rows, id))

(* end_execution of an id that is known. *)
Ended(id) == CleanedUp(<<[RowOf(id) EXCEPT !.running = FALSE]>> \o Without(rows, id))

-----------------------------------------------------------------------------
(* record_route_execution, once the request has succeeded or failed: start,    *)
(* with an id that no row has any more standing for a new one, ...             *)
StartRoute(r) ==
  /\ recording[r] = None
  /\ \E id \in Ids \ IdsOf(rows), agent \in Agents :
       /\ \A s \in Requests : recording[s] # id
       /\ rows' = Started(id, agent)
       /\ recording' = [recording EXCEPT ![r] = id]
       /\ abandoned' = abandoned \ {id}
       /\ opened' = opened \ {id}
  /\ UNCHANGED <<online, shown>>

(* Mutant: only a success is ended. *)
EndRouteOfSuccess(r) ==
  /\ recording[r] # None
  /\ recording' = [recording EXCEPT ![r] = None]
  /\ \/ /\ rows' = IF recording[r] \in IdsOf(rows) THEN Ended(recording[r]) ELSE rows
        /\ opened' = opened \ {recording[r]}
     \/ UNCHANGED <<rows, opened>>
  /\ UNCHANGED abandoned
  /\ UNCHANGED <<online, shown>>

(* ... and end.  The write may fail, or the process stop before it.           *)
EndRoute(r) ==
  /\ recording[r] # None
  /\ recording' = [recording EXCEPT ![r] = None]
  /\ \/ /\ rows' = IF recording[r] \in IdsOf(rows) THEN Ended(recording[r]) ELSE rows
        /\ opened' = opened \ {recording[r]}
        /\ UNCHANGED abandoned
     \/ /\ abandoned' = abandoned \cup {recording[r]}
        /\ UNCHANGED <<rows, opened>>
  /\ UNCHANGED <<online, shown>>

(* record_decision, whose transaction cleans up too. *)
RecordDecision ==
  /\ rows' = CleanedUp(rows)
  /\ UNCHANGED <<recording, abandoned, opened, online, shown>>

(* POST /executions/start, of any id: one that is known, of another client or *)
(* of the routing (GET /executions lists them), is started again.             *)
StartApi(id) ==
  /\ \E agent \in Agents : rows' = Started(id, agent)
  /\ opened' = opened \cup {id}
  /\ UNCHANGED <<recording, abandoned, online, shown>>

(* POST /executions/end, of any id that is known. *)
EndApi(id) ==
  /\ id \in IdsOf(rows)
  /\ rows' = Ended(id)
  /\ opened' = opened \ {id}
  /\ abandoned' = abandoned \ {id}
  /\ UNCHANGED <<recording, online, shown>>

-----------------------------------------------------------------------------
(* Mutant: who is running is no change. *)
FingerprintOfAgents(view) == <<view.total, {row.id : row \in view.agents}>>

(* _snapshot_fingerprint: all of the snapshot. *)
Fingerprint(view) == view

(* get_agent_model_status: a read that fails finds no rows. *)
Status == IF online THEN View(rows) ELSE View(<<>>)

(* One turn of the loop of iter_agent_model_status: a frame is shown if it    *)
(* differs from the one before.                                               *)
Poll ==
  /\ shown' = IF Fingerprint(Status) # Fingerprint(shown) THEN Status ELSE shown
  /\ UNCHANGED <<rows, recording, abandoned, opened, online>>

-----------------------------------------------------------------------------
(* A row gets older than the retention. *)
Age ==
  /\ \E i \in DOMAIN rows : rows' = [rows EXCEPT ![i].old = TRUE]
  /\ UNCHANGED <<recording, abandoned, opened, online, shown>>

Outage ==
  /\ online' = ~online
  /\ UNCHANGED <<rows, recording, abandoned, opened, shown>>

Next ==
  \/ \E r \in Requests : StartRoute(r) \/ EndRoute(r)
  \/ \E id \in Ids : StartApi(id) \/ EndApi(id)
  \/ RecordDecision \/ Poll \/ Age \/ Outage

(* The watcher keeps polling. *)
FairSpec == Init /\ [][Next]_vars /\ WF_vars(Poll)

-----------------------------------------------------------------------------
(* A row that still says "running" belongs to a request that is about to end *)
(* it, or is one that an API client has started, be it by starting a row of  *)
(* the routing again, and not ended since, or one whose end was lost: the    *)
(* write failed or the process stopped before it.                            *)
NoRowLeftRunning ==
  \A i \in DOMAIN rows :
    rows[i].running =>
      \/ \E r \in Requests : recording[r] = rows[i].id
      \/ rows[i].id \in opened \cup abandoned

(* The watcher that shows only changes misses none: once the rows stay as    *)
(* they are and can be read, it shows them, whatever it showed meanwhile,    *)
(* the empty board of a failed read included.                                *)
WatcherCatchesUp ==
  <>[]online /\ <>[][FALSE]_rows => <>[](shown = View(rows))
=============================================================================
