--------------------------- MODULE RouteRequests ---------------------------
(***************************************************************************)
(* What a routing request passes through, side by side: the class it is    *)
(* given (TaskClasses), the pool it reads (SeededPools), its execution     *)
(* (Executions), and what is kept of it (AnalysisRecords, Monitoring).     *)
(*                                                                         *)
(* A behaviour is one of a single part, the one focus says, while the      *)
(* others stand still: the parts share no state, and a request hands to    *)
(* the next what that one takes from a small set.                          *)
(***************************************************************************)
EXTENDS Integers, Sequences, FiniteSets

CONSTANTS
  Requests, Models,
  SeedRankings, Provider, SeedSize, PoolMax,                             \* SeededPools
  Rankings, Strength, Few, Width, ExploreMost, Targets, Limit, EscCap, Slow,  \* Executions
  Classes, Names, Analyzers, Attempts,                                   \* TaskClasses, AnalysisRecords
  Agents, Ids, Shown                                                     \* Monitoring

(* A ranking has every model at one place. *)
IsRanking(o) ==
  /\ o \in Seq(Models)
  /\ \A m \in Models : \E i \in DOMAIN o : o[i] = m
  /\ \A i, j \in DOMAIN o : o[i] = o[j] => i = j

ASSUME RequestsAreFinite == IsFiniteSet(Requests)
ASSUME ModelsAreRanked ==
  /\ IsFiniteSet(Models) /\ Provider \subseteq Models
  /\ \A o \in SeedRankings \cup Rankings \cup {Strength} : IsRanking(o)
ASSUME PoolsHaveRoomForSeeds == SeedSize \in Nat /\ PoolMax \in Nat /\ SeedSize <= PoolMax
ASSUME SelectionSizes ==
  /\ {Few, Width, ExploreMost} \subseteq Nat
  /\ Slow \subseteq {"normal", "escalation"} \X Models
ASSUME ChainsAreNotEmpty == {Analyzers, Attempts} \subseteq Nat \ {0}
ASSUME NoneIsNoId == "none" \notin Ids
ASSUME ShownIsNumber == Shown \in Nat

VARIABLES
  focus, pool, verified, seeding, disturbed, redis, conc, executing,
  loaded, initialized, stored, queue, aliases, merging, resolving,
  records, calls, updates, rows, recording, abandoned, opened, online, shown

P == INSTANCE SeededPools WITH Rankings <- SeedRankings, work <- seeding
X == INSTANCE Executions WITH work <- executing
C == INSTANCE TaskClasses WITH work <- resolving
A == INSTANCE AnalysisRecords WITH Calls <- Requests
M == INSTANCE Monitoring WITH Limit <- Shown

pvars == <<pool, verified, seeding, disturbed>>
xvars == <<redis, conc, executing>>
cvars == <<loaded, initialized, stored, queue, aliases, merging, resolving>>
avars == <<records, calls, updates>>
mvars == <<rows, recording, abandoned, opened, online, shown>>
vars == <<focus, pvars, xvars, cvars, avars, mvars>>

Init ==
  /\ focus \in {"pools", "executions", "classes", "records", "monitoring"}
  /\ P!Init /\ (focus # "pools" => pool = {})
  /\ X!Init /\ (focus # "executions" => redis = FALSE)
  /\ C!Init /\ A!Init /\ M!Init

Pools == P!Next /\ UNCHANGED <<focus, xvars, cvars, avars, mvars>>
Execute(r) == X!Step(r) /\ UNCHANGED <<focus, pvars, cvars, avars, mvars>>
Executing == X!Next /\ UNCHANGED <<focus, pvars, cvars, avars, mvars>>
Classify(r) == C!Step(r) /\ UNCHANGED <<focus, pvars, xvars, avars, mvars>>
Classifying == C!Next /\ UNCHANGED <<focus, pvars, xvars, avars, mvars>>
Recording == A!Next /\ UNCHANGED <<focus, pvars, xvars, cvars, mvars>>
Watch == M!Poll /\ UNCHANGED <<focus, pvars, xvars, cvars, avars>>
Monitoring == M!Next /\ UNCHANGED <<focus, pvars, xvars, cvars, avars>>

Next ==
  \/ focus = "pools" /\ Pools
  \/ focus = "executions" /\ Executing
  \/ focus = "classes" /\ Classifying
  \/ focus = "records" /\ Recording
  \/ focus = "monitoring" /\ Monitoring

(* The fairness of each part.  The requests are alike: that one ends is asked *)
(* of one, and the other may stop wherever it likes.                          *)
One == CHOOSE r \in Requests : TRUE

Progress(r) ==
  \/ focus = "executions" /\ Execute(r)
  \/ focus = "classes" /\ Classify(r)

FairSpec ==
  /\ Init /\ [][Next]_vars
  /\ WF_vars(Progress(One))
  /\ WF_vars(focus = "monitoring" /\ Watch)

(* The types of all parts. *)
TypeOK == P!TypeOK /\ X!TypeOK /\ C!TypeOK /\ A!TypeOK /\ M!TypeOK

(* See SeededPools: lost members are replaced, however verifications of      *)
(* verify_seeded_pools_async interleave.                                     *)
RefilledWhenVerified == P!RefilledWhenVerified

(* See Executions: the limiter's counters never exceed what runs.            *)
NeverOvercounts == X!NeverOvercounts

(* See Executions: the chain of a thin pool ends at the ceiling model.       *)
ThinChainEndsAtCeiling == X!ThinChainEndsAtCeiling

(* See Executions: every execution ends.                                     *)
EscalationEnds == X!Ends(One)

(* See TaskClasses: a task is compared with all classes.                     *)
MatchCoversAllClasses == C!MatchCoversAllClasses

(* See TaskClasses: a review is not undone by seeing the name again.         *)
ReviewedStaysReviewed == C!ReviewedStaysReviewed

(* See TaskClasses: every request gets a class or fails.                     *)
EveryRequestIsClassified == C!IsClassified(One)

(* See AnalysisRecords: records and attempts of a call agree.                *)
RecordsTellAttempts == A!RecordsTellAttempts

(* See Monitoring: who leaves a row running.                                 *)
NoRowLeftRunning == M!NoRowLeftRunning

(* See Monitoring: the watcher shows the rows once they rest.                *)
WatcherCatchesUp == M!WatcherCatchesUp
=============================================================================
