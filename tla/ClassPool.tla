----------------------------- MODULE ClassPool -----------------------------
(***************************************************************************)
(* The model pool of one agent class and its default model                 *)
(* (router_engine/class_pool.py, defaults.py, the tables class_pool and    *)
(* class_pool_defaults).  Rated executions bring models in, throw old ones *)
(* out, and move the default; operators add, remove and override; routing  *)
(* looks the default up.                                                   *)
(*                                                                         *)
(* Every storage call is a transaction of its own, and other requests run  *)
(* between two of them.  Success rates, Wilson scores and prices only      *)
(* decide which way a reading goes, so those readings are choices.         *)
(***************************************************************************)
EXTENDS Naturals, FiniteSets

CONSTANTS
  Models,        \* model ids
  Old,           \* models released more than POOL_MODEL_MAX_AGE_DAYS ago
  Failing,       \* bound: models that may become unable
  Leaving,       \* bound: models that the registry may drop
  Domains,       \* the domain strings that requests carry
  GlobalDomain,  \* DEFAULT_DOMAIN_KEY, the domain of every default row
  Handlers,      \* slots for requests that are being handled at once
  Operators,     \* those of them that may serve the add/remove channel
  PoolMaxSize,   \* POOL_MAX_SIZE (10)
  RevokeAfter    \* QUALITY_FAIL_REVOKE (3)

ASSUME PoolsAreBounded == PoolMaxSize \in Nat \ {0} /\ RevokeAfter \in Nat \ {0}
ASSUME ModelsAreFinite == IsFiniteSet(Models)
ASSUME SlotsAreKnown == Operators \subseteq Handlers
ASSUME ModelsAreKnown == {Old, Failing, Leaving} \subseteq SUBSET Models

VARIABLES
  pool,        \* class_pool: the models in the pool of the class
  default,     \* class_pool_defaults: the one row of the class
  unable,      \* models that model_availability marks unable
  registered,  \* models the registry resolves
  task,        \* the request each handler slot is working on
  abandoned,   \* history: a request died that was to revoke the default
  strays       \* history: unable members that no request was left to evict

vars == <<pool, default, unable, registered, task, abandoned, strays>>

-----------------------------------------------------------------------------
None == "none"
NoDefault == [model |-> None]
Default == [ model            : Models,
             is_locked        : BOOLEAN,
             consecutive_fail : 0 .. RevokeAfter ]

Fresh(m, locked) == [model |-> m, is_locked |-> locked, consecutive_fail |-> 0]

UpTo(cap, n) == IF n < cap THEN n + 1 ELSE cap

Steps == {"entries", "default_ids", "check", "evict", "expire",
          "credit", "credit_write", "arbitrate", "rank", "promote",
          "blame", "blame_write", "revoke",
          "insert", "remove_ids", "remove_clear", "remove", "drop"}

Idle == [pc |-> "idle"]

(* `todo' are the pool entries still to be checked, `ids' the default ids  *)
(* that were read for it, `peer' the model found to be evicted, promoted   *)
(* or dropped.                                                             *)
Task == [ pc     : Steps,
          model  : Models,
          good   : BOOLEAN,
          domain : Domains \cup {GlobalDomain},
          todo   : SUBSET Models,
          ids    : SUBSET Models,
          peer   : Models \cup {None} ]

TypeOK ==
  /\ pool \subseteq Models
  /\ default \in {NoDefault} \cup Default
  /\ unable \subseteq Models
  /\ registered \subseteq Models
  /\ task \in [Handlers -> {Idle} \cup Task]
  /\ abandoned \in BOOLEAN
  /\ strays \subseteq pool \cap unable

Init ==
  /\ pool = {}
  /\ default = NoDefault
  /\ unable = {}
  /\ registered = Models
  /\ task = [h \in Handlers |-> Idle]
  /\ abandoned = FALSE
  /\ strays = {}

-----------------------------------------------------------------------------
Request(pc, m, good) ==
  [pc |-> pc, model |-> m, good |-> good, domain |-> GlobalDomain,
   todo |-> {}, ids |-> {}, peer |-> None]

Goto(h, pc) == task' = [task EXCEPT ![h].pc = pc]
Return(h) == task' = [task EXCEPT ![h] = Idle]

DefaultIds == IF default = NoDefault THEN {} ELSE {default.model}

Outside == <<unable, registered, abandoned>>
World == <<Outside, strays>>

(* try_add_to_pool in BEGIN IMMEDIATE: a full pool makes room at the cost  *)
(* of a member that is neither a default nor exempt, if it has one.  It is *)
(* not asked whether m is a member already.                                *)
Join(m) ==
  IF Cardinality(pool) < PoolMaxSize
  THEN pool' = pool \cup {m}
  ELSE \/ UNCHANGED pool
       \/ \E victim \in pool \ DefaultIds : pool' = (pool \ {victim}) \cup {m}

(* A good rating: m enters when its Wilson bound is good enough. *)
RateGood(h, m) ==
  /\ task[h] = Idle
  /\ UNCHANGED pool \/ Join(m)
  /\ strays' = strays \cap pool'
  /\ task' = [task EXCEPT ![h] = Request("entries", m, TRUE)]
  /\ UNCHANGED <<default, Outside>>

(* A poor rating goes to the eviction check at once. *)
RatePoor(h, m) ==
  /\ task[h] = Idle
  /\ task' = [task EXCEPT ![h] = Request("entries", m, FALSE)]
  /\ UNCHANGED <<pool, default, World>>

-----------------------------------------------------------------------------
(* evict_check: the entries, the default ids, then one entry at a time.    *)

(* The members that a request will still look at. *)
ToCheck(t) ==
  IF t.pc = "entries" THEN Models
  ELSE IF t.pc \in {"default_ids", "check", "evict", "expire"} THEN t.todo ELSE {}

(* When the last entry has been checked the rating goes on to the default. *)
Checked(t, rest) ==
  [t EXCEPT !.todo = rest, !.peer = None, !.ids = IF rest # {} THEN @ ELSE {},
            !.pc = IF rest # {} THEN "check" ELSE IF t.good THEN "credit" ELSE "blame"]

ReadEntries(h) ==
  /\ task[h].pc = "entries"
  /\ task' = [task EXCEPT ![h].pc = "default_ids", ![h].todo = pool]
  /\ UNCHANGED <<pool, default, World>>

ReadDefaultIds(h) ==
  /\ task[h].pc = "default_ids"
  /\ task' = [task EXCEPT ![h] = Checked([@ EXCEPT !.ids = DefaultIds], @.todo)]
  /\ UNCHANGED <<pool, default, World>>

(* An old model may go unless it was a default (its record may exempt it). *)
Expired(t, m) == m \in Old /\ m \notin t.ids

(* Mutant: a default is kept though it is down. *)
CheckSparingDefaults(h) ==
  /\ task[h].pc = "check"
  /\ \E m \in task[h].todo :
       \/ /\ m \in unable \ task[h].ids
          /\ task' = [task EXCEPT ![h].pc = "evict", ![h].peer = m]
       \/ /\ m \notin unable \ task[h].ids /\ Expired(task[h], m)
          /\ task' = [task EXCEPT ![h].pc = "expire", ![h].peer = m]
       \/ /\ m \notin unable \ task[h].ids
          /\ task' = [task EXCEPT ![h] = Checked(@, @.todo \ {m})]
  /\ UNCHANGED <<pool, default, World>>

(* A member that is down goes, a default as well. *)
Check(h) ==
  /\ task[h].pc = "check"
  /\ \E m \in task[h].todo :
       \/ /\ m \in unable
          /\ task' = [task EXCEPT ![h].pc = "evict", ![h].peer = m]
       \/ /\ m \notin unable /\ Expired(task[h], m)
          /\ task' = [task EXCEPT ![h].pc = "expire", ![h].peer = m]
       \/ /\ m \notin unable
          /\ task' = [task EXCEPT ![h] = Checked(@, @.todo \ {m})]
  /\ UNCHANGED <<pool, default, World>>

Evict(h) ==
  /\ task[h].pc \in {"evict", "expire"}
  /\ pool' = pool \ {task[h].peer}
  /\ strays' = strays \ {task[h].peer}
  /\ task' = [task EXCEPT ![h] = Checked(@, @.todo \ {@.peer})]
  /\ UNCHANGED <<default, Outside>>

-----------------------------------------------------------------------------
(* record_success and evaluate_and_promote_default. *)

(* Only the default's own successes count for it. *)
Credit(h) ==
  /\ task[h].pc = "credit"
  /\ Goto(h, IF default.model = task[h].model THEN "credit_write" ELSE "arbitrate")
  /\ UNCHANGED <<pool, default, World>>

CreditWrite(h) ==
  /\ task[h].pc = "credit_write"
  /\ default' = IF default = NoDefault THEN default
                ELSE [default EXCEPT !.consecutive_fail = 0]
  /\ Goto(h, "arbitrate")
  /\ UNCHANGED <<pool, World>>

Arbitrate(h) ==
  /\ task[h].pc = "arbitrate"
  /\ IF default # NoDefault /\ default.is_locked THEN Return(h)
     ELSE task' = [task EXCEPT ![h].pc = "rank", ![h].peer = default.model]
  /\ UNCHANGED <<pool, default, World>>

(* The best candidate that is up, or the default that was read stays.      *)
Rank(h) ==
  /\ task[h].pc = "rank"
  /\ \/ Return(h)
     \/ \E best \in Models \ (unable \cup {task[h].peer}) :
          task' = [task EXCEPT ![h].pc = "promote", ![h].peer = best]
  /\ UNCHANGED <<pool, default, World>>

Promote(h) ==
  /\ task[h].pc = "promote"
  /\ default' = Fresh(task[h].peer, FALSE)
  /\ Return(h)
  /\ UNCHANGED <<pool, World>>

-----------------------------------------------------------------------------
(* record_fail. *)

Blame(h) ==
  /\ task[h].pc = "blame"
  /\ IF default.model = task[h].model THEN Goto(h, "blame_write") ELSE Return(h)
  /\ UNCHANGED <<pool, default, World>>

(* Mutant: the threshold is passed, not reached. *)
BlameWriteLate(h) ==
  /\ task[h].pc = "blame_write"
  /\ IF default = NoDefault
     THEN UNCHANGED default /\ Return(h)
     ELSE /\ default' = [default EXCEPT !.consecutive_fail = UpTo(RevokeAfter, @)]
          /\ IF default.consecutive_fail >= RevokeAfter THEN Goto(h, "revoke") ELSE Return(h)
  /\ UNCHANGED <<pool, World>>

(* The counter of the row that is there now, whoever's it is. *)
BlameWrite(h) ==
  /\ task[h].pc = "blame_write"
  /\ IF default = NoDefault
     THEN UNCHANGED default /\ Return(h)
     ELSE /\ default' = [default EXCEPT !.consecutive_fail = UpTo(RevokeAfter, @)]
          /\ IF default'.consecutive_fail >= RevokeAfter THEN Goto(h, "revoke") ELSE Return(h)
  /\ UNCHANGED <<pool, World>>

Revoke(h) ==
  /\ task[h].pc = "revoke"
  /\ default' = NoDefault
  /\ Return(h)
  /\ UNCHANGED <<pool, World>>

-----------------------------------------------------------------------------
(* The add/remove channel and the override. *)

(* manual_add_to_pool counts the entries it has read ... *)
ManualAdd(h, m) ==
  /\ h \in Operators /\ task[h] = Idle
  /\ m \in registered /\ m \notin pool /\ Cardinality(pool) < PoolMaxSize
  /\ task' = [task EXCEPT ![h] = Request("insert", m, FALSE)]
  /\ UNCHANGED <<pool, default, World>>

(* ... and inserts in another transaction, whether the model is up or not. *)
Insert(h) ==
  /\ task[h].pc = "insert"
  /\ pool' = pool \cup {task[h].model}
  /\ strays' = strays \cup ({task[h].model} \cap unable)
  /\ Return(h)
  /\ UNCHANGED <<default, Outside>>

ManualRemove(h, m) ==
  /\ h \in Operators /\ task[h] = Idle
  /\ m \in pool
  /\ task' = [task EXCEPT ![h] = Request("remove_ids", m, FALSE)]
  /\ UNCHANGED <<pool, default, World>>

RemoveIds(h) ==
  /\ task[h].pc = "remove_ids"
  /\ Goto(h, IF task[h].model \in DefaultIds THEN "remove_clear" ELSE "remove")
  /\ UNCHANGED <<pool, default, World>>

RemoveClear(h) ==
  /\ task[h].pc = "remove_clear"
  /\ default' = NoDefault
  /\ Goto(h, "remove")
  /\ UNCHANGED <<pool, World>>

Remove(h) ==
  /\ task[h].pc = "remove"
  /\ pool' = pool \ {task[h].model}
  /\ strays' = strays \ {task[h].model}
  /\ Return(h)
  /\ UNCHANGED <<default, Outside>>

(* set_user_override is one statement. *)
Override(h, m) ==
  /\ h \in Operators /\ task[h] = Idle
  /\ default' = Fresh(m, TRUE)
  /\ UNCHANGED <<pool, task, World>>

(* get_default: a default that has left the registry is cleared ... *)
Lookup(h, d) ==
  /\ task[h] = Idle
  /\ default # NoDefault /\ default.model \notin registered
  /\ task' = [task EXCEPT ![h] = [Request("drop", default.model, FALSE) EXCEPT !.domain = d]]
  /\ UNCHANGED <<pool, default, World>>

(* ... under the domain as the request spells it. *)
Drop(h) ==
  /\ task[h].pc = "drop"
  /\ default' = IF task[h].domain = GlobalDomain THEN NoDefault ELSE default
  /\ Return(h)
  /\ UNCHANGED <<pool, World>>

-----------------------------------------------------------------------------
(* Availability and the registry, and a request that dies half way.        *)

(* The transition to unable takes the model out of every pool. *)
GoesDown(m) ==
  /\ m \notin unable
  /\ unable' = unable \cup {m}
  /\ pool' = pool \ {m}
  /\ strays' = strays \ {m}
  /\ UNCHANGED <<default, registered, task, abandoned>>

ComesBack(m) ==
  /\ m \in unable
  /\ unable' = unable \ {m}
  /\ strays' = strays \ {m}
  /\ UNCHANGED <<pool, default, registered, task, abandoned>>

RegistryChanges(m) ==
  /\ registered' = IF m \in registered THEN registered \ {m} ELSE registered \cup {m}
  /\ UNCHANGED <<pool, default, unable, task, abandoned, strays>>

Die(h) ==
  /\ task[h] # Idle
  /\ Return(h)
  /\ abandoned' = (abandoned \/ task[h].pc = "revoke")
  /\ strays' = strays \cup (pool \cap unable \cap ToCheck(task[h]))
  /\ UNCHANGED <<pool, default, unable, registered>>

(* The next transaction of a request. *)
Advance(h) ==
  \/ ReadEntries(h) \/ ReadDefaultIds(h) \/ Check(h) \/ Evict(h)
  \/ Credit(h) \/ CreditWrite(h) \/ Arbitrate(h) \/ Rank(h) \/ Promote(h)
  \/ Blame(h) \/ BlameWrite(h) \/ Revoke(h)
  \/ Insert(h) \/ RemoveIds(h) \/ RemoveClear(h) \/ Remove(h) \/ Drop(h)

Start(h) ==
  \/ \E m \in Models :
       \/ RateGood(h, m) \/ RatePoor(h, m)
       \/ ManualAdd(h, m) \/ ManualRemove(h, m)
  \/ \E d \in Domains : Lookup(h, d)

Next ==
  \/ \E h \in Handlers :
       \/ Start(h) \/ Advance(h) \/ Die(h)
       \/ \E m \in Models : Override(h, m)
  \/ \E m \in Failing : GoesDown(m) \/ ComesBack(m)
  \/ \E m \in Leaving : RegistryChanges(m)

Spec == Init /\ [][Next]_vars

(* A request that was started is run by its event loop. *)
FairSpec == Spec /\ \A h \in Handlers : WF_vars(Advance(h))

-----------------------------------------------------------------------------
(* A member that has gone down is about to be evicted.  A good rating puts  *)
(* its model back without asking whether it is still up, and the eviction   *)
(* check of the same request takes it out again, however other ratings,     *)
(* removals and overrides come between: only what an operator adds, or a    *)
(* request leaves behind that dies before its check is over, may stay.      *)
UnableMembersAreGoing ==
  pool \cap unable \subseteq strays \cup UNION {ToCheck(task[h]) : h \in Handlers}

(* The pool never outgrows POOL_MAX_SIZE: counting, making room and        *)
(* inserting are one transaction of the automatic channel.                 *)
PoolBounded == Cardinality(pool) <= PoolMaxSize

(* Room for a new member is never made at the cost of a default, however   *)
(* the default moves meanwhile.                                            *)
RoomSparesDefault ==
  [][\A h \in Handlers, m \in Models :
       RateGood(h, m) => DefaultIds \cap pool \subseteq pool']_vars

(* A default that failed as often as revokes it is being revoked, unless   *)
(* the request that was to do it died.                                     *)
FailedDefaultIsGoing ==
  (default # NoDefault /\ default.consecutive_fail >= RevokeAfter) =>
    abandoned \/ \E h \in Handlers : task[h].pc = "revoke"

(* ... and it goes, or a success of its own clears it. *)
FailedDefaultGoes ==
  (default # NoDefault /\ default.consecutive_fail >= RevokeAfter) ~>
    (abandoned \/ default = NoDefault \/ default.consecutive_fail < RevokeAfter)

=============================================================================
