---------------------------- MODULE SeededPools ----------------------------
(***************************************************************************)
(* How requests verify and seed the pool of an agent class on their way    *)
(* (router_engine/engine.py 94-132, selector.py 166-180, and seed_pool,    *)
(* manual_add_to_pool and manual_remove_from_pool of class_pool.py).       *)
(*                                                                         *)
(* The first requests of an engine verify the pool: members that cannot be *)
(* selected are removed and the pool is refilled up to POOL_SEED_SIZE.     *)
(* Then every request reads the pool, and seeds it if it is empty.  Every  *)
(* storage call of a request is a step; requests interleave.               *)
(*                                                                         *)
(* Whether a model is selectable is a choice made when the code asks:      *)
(* Availability models it.  Scores are orders of the models.  What         *)
(* feedback does to the pool and to the default is in ClassPool, what a    *)
(* request does with the pool it read in Executions.                       *)
(***************************************************************************)
EXTENDS Integers, FiniteSets

CONSTANTS
  Requests,
  Models,
  Rankings,  \* orders of the models by seeding score, the best first
  Provider,  \* models of the provider that some requests require
  SeedSize,  \* POOL_SEED_SIZE
  PoolMax    \* POOL_MAX_SIZE, at least SeedSize

VARIABLES
  pool,      \* models in the pool of the class
  verified,  \* _pools_verified
  work,      \* what each request is doing
  disturbed  \* history: since the engine was built, a storage call failed
             \* or a request seeded the pool for itself

vars == <<pool, verified, work, disturbed>>

-----------------------------------------------------------------------------
Idle == [pc |-> "idle"]
Offers == {Models, Provider}

Staged == [pc : {"verify", "count", "seed", "verified", "read", "reread"},
           offer : Offers, lazy : BOOLEAN]
Checking == [pc : {"check"}, offer : Offers, todo : SUBSET Models]
Removing == [pc : {"remove"}, offer : Offers, todo : SUBSET Models, model : Models]
Adding == [pc : {"add"}, offer : Offers, lazy : BOOLEAN,
           slots : 1 .. SeedSize, plan : (SUBSET Models) \ {{}}]
Writing == [pc : {"write"}, then : Staged \cup Adding, model : Models]

TypeOK ==
  /\ pool \subseteq Models
  /\ {verified, disturbed} \subseteq BOOLEAN
  /\ work \in [Requests -> {Idle} \cup Staged \cup Checking \cup Removing \cup Adding \cup Writing]

(* A pool that earlier engines and feedback left. *)
Init ==
  /\ pool \in SUBSET Models
  /\ verified = FALSE /\ disturbed = FALSE
  /\ work = [r \in Requests |-> Idle]

At(r, pc) == work[r].pc = pc
Goto(r, record) == work' = [work EXCEPT ![r] = record]
Stage(r, pc) == [pc |-> pc, offer |-> work[r].offer, lazy |-> work[r].lazy]

-----------------------------------------------------------------------------
(* Verification and seeding.                                               *)

(* route_async: the flag is read here and set after the pool was verified.  *)
Route(r) ==
  /\ At(r, "idle")
  /\ \E offer \in Offers :
       Goto(r, [pc |-> IF verified THEN "read" ELSE "verify", offer |-> offer, lazy |-> FALSE])
  /\ UNCHANGED <<pool, verified, disturbed>>

(* verify_seeded_pools_async: a class whose pool is empty is left alone.    *)
Verify(r) ==
  /\ At(r, "verify")
  /\ Goto(r, IF pool = {} THEN Stage(r, "verified")
             ELSE [pc |-> "check", offer |-> work[r].offer, todo |-> pool])
  /\ UNCHANGED <<pool, verified, disturbed>>

Check(r) ==
  /\ At(r, "check")
  /\ \/ /\ work[r].todo = {}
        /\ Goto(r, [pc |-> "count", offer |-> work[r].offer, lazy |-> FALSE])
     \/ \E m \in work[r].todo, selectable \in BOOLEAN :
          Goto(r, IF selectable THEN [work[r] EXCEPT !.todo = @ \ {m}]
                  ELSE [pc |-> "remove", offer |-> work[r].offer,
                        todo |-> work[r].todo \ {m}, model |-> m])
  /\ UNCHANGED <<pool, verified, disturbed>>

(* manual_remove_from_pool; the default that it may clear is not looked at  *)
(* here (ClassPool has it).                                                  *)
Remove(r) ==
  /\ At(r, "remove")
  /\ pool' = pool \ {work[r].model}
  /\ Goto(r, [pc |-> "check", offer |-> work[r].offer, todo |-> work[r].todo])
  /\ UNCHANGED <<verified, disturbed>>

(* Mutant: the refill is left to whoever finds the pool empty. *)
NeverShort == FALSE

Short == Cardinality(pool) < SeedSize

Count(r) ==
  /\ At(r, "count")
  /\ Goto(r, Stage(r, IF Short THEN "seed" ELSE "verified"))
  /\ UNCHANGED <<pool, verified, disturbed>>

(* What seed_pool_async is followed by: verification is over; a lazy seed   *)
(* that brought a model is followed by another read of the pool.            *)
Seeded(r) == Stage(r, IF work[r].lazy THEN "reread" ELSE "verified")

(* seed_pool_async: entries are counted once.  Verification offers every    *)
(* available model, a request those of the provider it requires.            *)
Seed(r) ==
  /\ At(r, "seed")
  /\ LET plan == (IF work[r].lazy THEN work[r].offer ELSE Models) \ pool IN
     Goto(r, IF ~Short \/ plan = {} THEN Seeded(r)
             ELSE [pc |-> "add", offer |-> work[r].offer, lazy |-> work[r].lazy,
                   slots |-> SeedSize - Cardinality(pool), plan |-> plan])
  /\ UNCHANGED <<pool, verified, disturbed>>

(* The loop over the plan goes on, without and with a slot taken.           *)
Left(r, rest) == IF rest.plan = {} \/ rest.slots = 0 THEN Seeded(r) ELSE rest
Took(r, rest) == Left(r, [rest EXCEPT !.slots = @ - 1])

Best(o, ms) == o[CHOOSE i \in DOMAIN o : o[i] \in ms /\ \A j \in DOMAIN o : o[j] \in ms => i <= j]

(* manual_add_to_pool of the best model left, whatever its health, up to    *)
(* the write: a model that is a member already takes a slot, one refused by  *)
(* a full pool none.  It cannot be unknown: the resolver asks the very pool  *)
(* of models that the plan was made of.                                      *)
Add(r) ==
  /\ At(r, "add")
  /\ \E m \in {Best(o, work[r].plan) : o \in Rankings} :
       LET rest == [work[r] EXCEPT !.plan = @ \ {m}] IN
       IF m \in pool THEN Goto(r, Took(r, rest))
       ELSE IF Cardinality(pool) >= PoolMax THEN Goto(r, Left(r, rest))
       ELSE Goto(r, [pc |-> "write", then |-> Took(r, rest), model |-> m])
  /\ UNCHANGED <<pool, verified, disturbed>>

Write(r) ==
  /\ At(r, "write")
  /\ pool' = pool \cup {work[r].model}
  /\ Goto(r, work[r].then)
  /\ UNCHANGED <<verified, disturbed>>

Verified(r) ==
  /\ At(r, "verified")
  /\ verified' = TRUE
  /\ Goto(r, Stage(r, "read"))
  /\ UNCHANGED <<pool, disturbed>>

-----------------------------------------------------------------------------
(* select_async up to the class default: an empty pool is seeded, once, and  *)
(* read again if that brought a model.                                       *)
Read(r) ==
  /\ At(r, "read") \/ At(r, "reread")
  /\ IF pool = {} /\ At(r, "read")
     THEN /\ Goto(r, [pc |-> "seed", offer |-> work[r].offer, lazy |-> TRUE])
          /\ disturbed' = TRUE
     ELSE /\ Goto(r, Idle)
          /\ UNCHANGED disturbed
  /\ UNCHANGED <<pool, verified>>

(* A storage call of the request raises, and the request fails; the engine   *)
(* stays as it is.                                                           *)
Raise(r) ==
  /\ ~At(r, "idle")
  /\ Goto(r, Idle)
  /\ disturbed' = TRUE
  /\ UNCHANGED <<pool, verified>>

(* get_engine builds another engine; here between requests. *)
NewEngine ==
  /\ \A r \in Requests : At(r, "idle")
  /\ verified' = FALSE /\ disturbed' = FALSE
  /\ UNCHANGED <<pool, work>>

Step(r) ==
  \/ Verify(r) \/ Check(r) \/ Remove(r) \/ Count(r)
  \/ Seed(r) \/ Add(r) \/ Write(r) \/ Verified(r) \/ Read(r)

Next == NewEngine \/ \E r \in Requests : Route(r) \/ Step(r) \/ Raise(r)

Spec == Init /\ [][Next]_vars

-----------------------------------------------------------------------------
Verifying(r) ==
  \/ work[r].pc \in {"verify", "check", "remove", "count"}
  \/ work[r].pc \in {"seed", "add"} /\ ~work[r].lazy
  \/ work[r].pc = "write"

(* However the verifications of several requests interleave, each removing  *)
(* what it saw as a member and refilling what it counted, an engine that     *)
(* takes its pools for verified is not left with a pool that lost members    *)
(* for good, unless a storage call failed or a route seeded the empty pool   *)
(* in between; a registry with fewer models than POOL_SEED_SIZE is used up.  *)
RefilledWhenVerified ==
  verified /\ ~disturbed /\ (\A r \in Requests : ~Verifying(r)) =>
    pool = {} \/ Cardinality(pool) >= SeedSize \/ pool = Models

=============================================================================
