----------------------------- MODULE Executions -----------------------------
(***************************************************************************)
(* From the pool that a request read to the end of its execution           *)
(* (router_engine/selector.py 182-529, rate_limiters/, escalation.py).     *)
(*                                                                         *)
(* The selector filters and ranks the models, composes the candidates and  *)
(* says where to start.  The caller runs the model there, between the      *)
(* start and the end that it records with the limiter, and climbs with the *)
(* escalation manager towards the first candidate as long as models fail.  *)
(* The limit is checked when the models are filtered, and counted when the *)
(* caller starts.                                                          *)
(*                                                                         *)
(* Any set of models may be the pool that was read (SeededPools,           *)
(* ClassPool), any model may be unselectable or over its request limits    *)
(* when the code asks (Availability).  Scores are orders of the models.    *)
(***************************************************************************)
EXTENDS Integers, FiniteSets, Sequences, Sublists

CONSTANTS
  Requests,
  Models,
  Rankings,     \* orders of the models by composite score, the best first
  Strength,     \* their order by raw dimension score
  Few,          \* fewer reachable pool members than this make a pool thin
  Width,        \* candidates of a pool that is not thin, more than Few
  ExploreMost,  \* EXPLORE_SLOTS_MAX
  Targets,      \* MAX_ESCALATION_ATTEMPTS
  Limit,        \* max_concurrency
  EscCap,       \* escalation requests that a model takes at once
  Slow          \* traffic types and models whose requests may outlast a key in Redis

VARIABLES
  redis,  \* whether the limiter keeps its counters in Redis
  conc,   \* concurrency counters: traffic type -> model -> count
  work    \* what each request is doing

vars == <<redis, conc, work>>

-----------------------------------------------------------------------------
Kinds == {"normal", "escalation"}
Idle == [pc |-> "idle"]

Members(s) == {s[i] : i \in DOMAIN s}

Executing(w) ==
  /\ w.pc \in {"start", "run", "climb", "top_failed"}
  /\ w.list \in Seq(Models) /\ Cardinality(Members(w.list)) = Len(w.list)
  /\ w.at \in DOMAIN w.list
  /\ w.kind \in Kinds /\ {w.thin, w.retried} \subseteq BOOLEAN

(* Counters in Redis may be negative: a key that expired under a running    *)
(* request is counted down like any other.                                  *)
TypeOK ==
  /\ redis \in BOOLEAN
  /\ conc \in [Kinds -> [Models -> (IF redis THEN -Cardinality(Requests) ELSE 0) .. Cardinality(Requests)]]
  /\ \A r \in Requests : work[r] = Idle \/ Executing(work[r])

Zero == [k \in Kinds |-> [m \in Models |-> 0]]

(* create_rate_limiter, of the modes that count. *)
Init ==
  /\ redis \in BOOLEAN
  /\ conc = Zero
  /\ work = [r \in Requests |-> Idle]

At(r, pc) == work[r].pc = pc
Goto(r, record) == work' = [work EXCEPT ![r] = record]
Current(r) == work[r].list[work[r].at]

(* Requests that the limiter should count. *)
Runs(k, m) == {r \in Requests : At(r, "run") /\ work[r].kind = k /\ Current(r) = m}

-----------------------------------------------------------------------------
(* Selection.                                                              *)

Best(o, ms) == o[CHOOSE i \in DOMAIN o : o[i] \in ms /\ \A j \in DOMAIN o : o[j] \in ms => i <= j]
In(o, ms) == Sublist(o, {i \in DOMAIN o : o[i] \in ms})
Out(o, ms) == Sublist(o, {i \in DOMAIN o : o[i] \notin ms})
Cut(s, n) == SubSeq(s, 1, IF Len(s) < n THEN Len(s) ELSE n)

IsThin(reach, entries) == entries # {} /\ Cardinality(reach \cap entries) < Few

(* EXPLORE_SLOTS_MIN .. EXPLORE_SLOTS_MAX, by the trials of the pool; a thin *)
(* one takes the most.                                                       *)
Slots(reach, entries) == IF IsThin(reach, entries) THEN {ExploreMost} ELSE 1 .. ExploreMost

(* Mutant: a thin pool's candidates are ranked like any. *)
ComposeRanked(ranked, entries, slots) == ranked

(* The candidates, composed of the ranked models: of a thin pool the         *)
(* strongest model first, then the members, then models to explore; of a    *)
(* larger one its best members, the strongest model, models to explore; all *)
(* models without a pool.  How models of one provider are passed over for   *)
(* others is left to the order.                                             *)
Compose(ranked, entries, slots) ==
  LET ceiling == Best(Strength, Members(ranked))
      pooled == In(ranked, entries)
      explore == Cut(Out(ranked, entries), slots)
      top == Cut(pooled, Few) \o (IF ceiling \in Members(Cut(pooled, Few)) THEN <<>> ELSE <<ceiling>>) IN
  IF entries = {} THEN ranked
  ELSE IF Len(pooled) < Few THEN <<ceiling>> \o Out(pooled \o explore, {ceiling})
  ELSE Cut(top \o Out(explore, Members(top)), Width)

(* Of every set of models that pass the filter, every pool and every order:  *)
(* the candidates.                                                           *)
Selections ==
  UNION {{[reach |-> reach, thin |-> IsThin(reach, entries),
           list |-> Compose(In(o, reach), entries, slots)] :
            o \in Rankings, slots \in Slots(reach, entries)} :
         reach \in (SUBSET Models) \ {{}}, entries \in SUBSET Models}

(* is_rate_limited, by concurrency. *)
Limited(m) == conc["normal"][m] + conc["escalation"][m] >= Limit

(* select_async and choose_trial_model_async.  Any candidate may be the      *)
(* first to run: preferred by the request, the challenger of a trial, the    *)
(* default or the one behind an overloaded default, a member of the pool     *)
(* drawn among the best, or the one that the complexity says.  Without       *)
(* candidates there is no primary.                                           *)
Select(r) ==
  /\ At(r, "idle")
  /\ \E chosen \in Selections, i \in 1 .. Cardinality(Models) :
       /\ \A m \in chosen.reach : ~Limited(m)
       /\ i \in DOMAIN chosen.list
       /\ Goto(r, [pc |-> "start", list |-> chosen.list, at |-> i, kind |-> "normal",
                   retried |-> FALSE, thin |-> chosen.thin])
  /\ UNCHANGED <<redis, conc>>

-----------------------------------------------------------------------------
(* The caller's execution and the limiter.                                 *)

(* record_request_start, under the traffic type of the attempt. *)
Start(r) ==
  /\ At(r, "start")
  /\ conc' = [conc EXCEPT ![work[r].kind][Current(r)] = @ + 1]
  /\ Goto(r, [work[r] EXCEPT !.pc = "run"])
  /\ UNCHANGED redis

(* Mutants: an end counts as that of a normal request; the counter in Redis  *)
(* is counted down twice.                                                    *)
EndedNormal(k, m) == [conc EXCEPT !["normal"][m] = IF redis \/ @ > 0 THEN @ - 1 ELSE 0]
EndedTwice(k, m) == [conc EXCEPT ![k][m] = IF redis THEN @ - 2 ELSE 0]

(* record_request_end: only the counter in memory stops at zero. *)
Ended(k, m) == [conc EXCEPT ![k][m] = IF redis \/ @ > 0 THEN @ - 1 ELSE 0]

(* Mutant: every quality failure is retried. *)
RetriedAlways(r) == TRUE

(* A quality failure is retried once per model; the manager never comes back *)
(* to a model from above.                                                    *)
Retried(r) == ~work[r].retried

(* The attempt ends and is recorded with the escalation manager: answered,   *)
(* failed on quality and retried as next_action says, or failed for good.    *)
End(r) ==
  /\ At(r, "run")
  /\ conc' = Ended(work[r].kind, Current(r))
  /\ \/ Goto(r, Idle)
     \/ Retried(r) /\ Goto(r, [work[r] EXCEPT !.pc = "start", !.retried = TRUE])
     \/ Goto(r, [work[r] EXCEPT !.pc = "climb", !.kind = "escalation", !.retried = FALSE])
  /\ UNCHANGED redis

(* escalate_with_overload_check_async: of the targets above the current      *)
(* candidate the first that is neither unselectable, nor overloaded, nor     *)
(* capped; without one the caller is told that there is none.                *)
Escalate(r) ==
  /\ At(r, "climb")
  /\ LET at == work[r].at IN
     IF at = 1 THEN Goto(r, [work[r] EXCEPT !.pc = "top_failed"])
     ELSE \/ \E i \in 1 .. at - 1 :
               /\ i >= at - Targets
               /\ conc["escalation"][work[r].list[i]] < EscCap
               /\ Goto(r, [work[r] EXCEPT !.pc = "start", !.at = i])
          \/ Goto(r, Idle)
  /\ UNCHANGED <<redis, conc>>

(* The caller gives up. *)
Alert(r) ==
  /\ At(r, "top_failed")
  /\ Goto(r, Idle)
  /\ UNCHANGED <<redis, conc>>

-----------------------------------------------------------------------------
(* A key that had no start for 300 s expires, under whatever still runs.     *)
(* Bounds: only Slow keys, and only while every counter is right.            *)
KeyExpires ==
  /\ redis
  /\ \A k \in Kinds, m \in Models : conc[k][m] = Cardinality(Runs(k, m))
  /\ \E key \in Slow :
       /\ conc[key[1]][key[2]] > 0
       /\ conc' = [conc EXCEPT ![key[1]][key[2]] = 0]
  /\ UNCHANGED <<redis, work>>

Step(r) == Start(r) \/ End(r) \/ Escalate(r) \/ Alert(r)

Next == KeyExpires \/ \E r \in Requests : Select(r) \/ Step(r)

(* Attempts end, and callers do what the manager says. *)
FairSpec == Init /\ [][Next]_vars /\ \A r \in Requests : WF_vars(Step(r))

-----------------------------------------------------------------------------
(* A counter never says more than what runs: no model is shut out on account *)
(* of requests that have ended, whichever of the two traffic types they were *)
(* retried and escalated under, and whatever key expired meanwhile.          *)
NeverOvercounts ==
  \A k \in Kinds, m \in Models : conc[k][m] <= Cardinality(Runs(k, m))

(* An execution from a thin pool that is given up as "top failed" has tried  *)
(* the strongest of its candidates last, wherever it started.                *)
ThinChainEndsAtCeiling ==
  \A r \in Requests :
    At(r, "top_failed") /\ work[r].thin => Current(r) = Best(Strength, Members(work[r].list))

(* Every execution comes to an end, however many attempts fail and however.  *)
Ends(r) == At(r, "run") ~> At(r, "idle")
EscalationEnds == \A r \in Requests : Ends(r)

=============================================================================
