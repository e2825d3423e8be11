---------------------------- MODULE LeasesProofs ----------------------------
(***************************************************************************)
(* Theorems about Leases for any models, slots, threshold and number of    *)
(* calls.                                                                  *)
(***************************************************************************)
EXTENDS Leases, FiniteSetTheorems, TLAPS

USE ThresholdIsNumber, CallsAreCounted, AlternativesAreModels

-----------------------------------------------------------------------------
(* The inductive invariant.                                                *)

Holds(s, i) == run[s].pc \in {"asking", "running"} /\ run[s].lease = i

(* What a slot knows of its call is so: a call that is asked for was made  *)
(* for its proposal, a lease that is held was granted for the model that   *)
(* runs, and nobody has released it.                                       *)
CallsKnown ==
  \A s \in Slots :
    /\ run[s].pc = "asking" =>
         /\ lease[run[s].lease].pc \in {"sent", "live", "overdue", "dropped"}
         /\ lease[run[s].lease].proposed = run[s].model
    /\ run[s].pc = "running" /\ run[s].lease # NoLease =>
         /\ lease[run[s].lease].pc \in {"live", "overdue", "dropped"}
         /\ Granted(run[s].lease) = run[s].model

(* A lease belongs to one slot, or its release is on the way. *)
OneHolder ==
  /\ \A s, t \in Slots, i \in Ids : Holds(s, i) /\ Holds(t, i) => s = t
  /\ \A i \in releases : lease[i] # Unused /\ \A s \in Slots : ~Holds(s, i)

(* A mode is decided once, when the lease is stored. *)
UndecidedWhileSent == \A i \in Ids : lease[i].pc = "sent" => lease[i].mode = "none"

LocalLeasesBounded == \A m \in Models : Cardinality(LocalLeases(m)) <= Threshold

Inv == TypeOK /\ CallsKnown /\ OneHolder /\ UndecidedWhileSent /\ LocalLeasesBounded

-----------------------------------------------------------------------------
LEMMA IdsAreFinite == /\ IsFiniteSet(Ids) /\ NoLease \notin Ids
                      /\ \A S \in SUBSET Ids : IsFiniteSet(S) /\ Cardinality(S) \in Nat
<1>1. IsFiniteSet(Ids)
  BY FS_Interval DEF Ids
<1>2. ASSUME NEW S \in SUBSET Ids PROVE IsFiniteSet(S) /\ Cardinality(S) \in Nat
  BY <1>1, FS_Subset, FS_CardinalityType
<1> QED
  BY <1>1, <1>2 DEF Ids, NoLease

LEMMA OneMore ==
  ASSUME NEW S, NEW x, IsFiniteSet(S)
  PROVE  /\ Cardinality(S \cup {x}) \in Nat
         /\ Cardinality(S \cup {x}) <= Cardinality(S) + 1
<1>1. Cardinality(S) \in Nat
  BY FS_CardinalityType
<1>2. Cardinality(S \cup {x}) = IF x \in S THEN Cardinality(S) ELSE Cardinality(S) + 1
  BY FS_AddElement
<1> QED
  BY <1>1, <1>2

(* The leases that a step does not grant keep everything but their place   *)
(* in the store: it only ends some of them.                                *)
Ends(i, j) ==
  \/ lease'[j] = lease[j]
  \/ /\ lease[j] \in Call /\ lease[j].pc \in Stored
     /\ \E pc \in {"overdue", "released", "dropped"} : lease'[j] = [lease[j] EXCEPT !.pc = pc]
     /\ lease'[j].pc = "released" => j = i

LEMMA EndedLease ==
  ASSUME TypeOK, NEW i, NEW j \in Ids, Ends(i, j)
  PROVE  /\ lease'[j] \in {Unused} \cup Call
         /\ lease'[j] = Unused <=> lease[j] = Unused
         /\ lease'[j].pc = "sent" <=> lease[j].pc = "sent"
         /\ lease[j].pc \in {"live", "overdue", "dropped"} /\ j # i
              => lease'[j].pc \in {"live", "overdue", "dropped"}
         /\ lease[j] # Unused =>
              /\ lease'[j].proposed = lease[j].proposed
              /\ lease'[j].mode = lease[j].mode
              /\ lease'[j].alternative = lease[j].alternative
         /\ lease'[j].pc = "live" => lease[j].pc = "live"
<1>1. lease[j] \in {Unused} \cup Call
  BY DEF TypeOK
<1>2. CASE lease'[j] = lease[j]
  BY <1>1, <1>2 DEF Call, Unused, Stored, Gone
<1>3. CASE lease'[j] # lease[j]
  <2>1. PICK pc \in {"overdue", "released", "dropped"} : lease'[j] = [lease[j] EXCEPT !.pc = pc]
    BY <1>3 DEF Ends
  <2>2. lease[j] \in Call /\ lease[j].pc \in Stored /\ (lease'[j].pc = "released" => j = i)
    BY <1>3 DEF Ends
  <2> QED
    BY <2>1, <2>2 DEF Call, Unused, Stored, Gone
<1> QED
  BY <1>2, <1>3

(* A step that ends leases, of which only i, that nobody holds, is         *)
(* released, keeps what the slots know.                                    *)
LEMMA EndingKeepsInv ==
  ASSUME Inv, NEW i, \A s \in Slots : i \in Ids => ~Holds(s, i),
         \A j \in Ids : Ends(i, j), lease' = [j \in Ids |-> lease'[j]],
         UNCHANGED run, releases' \subseteq releases
  PROVE  Inv' /\ \E gone \in SUBSET Ids : Permits!GiveBack(gone)
<1>1. TypeOK
  BY DEF Inv
<1>2. TypeOK'
  BY <1>1, EndedLease DEF TypeOK
<1>3. \A s \in Slots : run[s] \in {Idle} \cup Asking \cup Running
  BY <1>1 DEF TypeOK
<1>4. CallsKnown'
  <2> SUFFICES ASSUME NEW s \in Slots
               PROVE  /\ run[s].pc = "asking" =>
                           /\ lease'[run[s].lease].pc \in {"sent", "live", "overdue", "dropped"}
                           /\ lease'[run[s].lease].proposed = run[s].model
                      /\ run[s].pc = "running" /\ run[s].lease # NoLease =>
                           /\ lease'[run[s].lease].pc \in {"live", "overdue", "dropped"}
                           /\ Granted(run[s].lease)' = run[s].model
    BY DEF CallsKnown, Granted
  <2>1. CASE run[s].pc = "asking"
    <3>1. run[s].lease \in Ids /\ run[s].lease # i
      BY <1>3, <2>1 DEF Idle, Asking, Running, Holds
    <3>2. /\ lease[run[s].lease].pc \in {"sent", "live", "overdue", "dropped"}
          /\ lease[run[s].lease].proposed = run[s].model
      BY <2>1 DEF Inv, CallsKnown
    <3> QED
      BY <1>1, <2>1, <3>1, <3>2, EndedLease DEF Unused
  <2>2. CASE run[s].pc = "running" /\ run[s].lease # NoLease
    <3>1. run[s].lease \in Ids /\ run[s].lease # i
      BY <1>3, <2>2 DEF Idle, Asking, Running, Holds
    <3>2. /\ lease[run[s].lease].pc \in {"live", "overdue", "dropped"}
          /\ Granted(run[s].lease) = run[s].model
      BY <2>2 DEF Inv, CallsKnown
    <3> QED
      BY <1>1, <2>2, <3>1, <3>2, EndedLease DEF Unused, Granted
  <2> QED
    BY <2>1, <2>2
<1>5. OneHolder'
  <2>1. \A s \in Slots, j \in Ids : Holds(s, j)' <=> Holds(s, j)
    BY DEF Holds
  <2>2. releases \subseteq Ids
    BY <1>1 DEF TypeOK
  <2> QED
    BY <1>1, <2>1, <2>2, EndedLease DEF Inv, OneHolder
<1>6. UndecidedWhileSent'
  BY <1>1, EndedLease DEF Inv, UndecidedWhileSent, Unused
<1>7. \A m \in Models : LocalLeases(m)' \subseteq LocalLeases(m)
  BY <1>1, EndedLease DEF LocalLeases, Unused
<1>8. LocalLeasesBounded'
  <2> SUFFICES ASSUME NEW m \in Models PROVE Cardinality(LocalLeases(m)') <= Threshold
    BY DEF LocalLeasesBounded
  <2>1. /\ LocalLeases(m) \in SUBSET Ids /\ LocalLeases(m)' \in SUBSET LocalLeases(m)
        /\ LocalLeases(m)' \in SUBSET Ids
    BY <1>7 DEF LocalLeases
  <2>2. Cardinality(LocalLeases(m)') <= Cardinality(LocalLeases(m))
    BY <2>1, IdsAreFinite, FS_Subset
  <2>3. Cardinality(LocalLeases(m)') \in Nat /\ Cardinality(LocalLeases(m)) \in Nat
    BY <2>1, IdsAreFinite
  <2>4. Cardinality(LocalLeases(m)) <= Threshold
    BY DEF Inv, LocalLeasesBounded
  <2> QED
    BY <2>2, <2>3, <2>4
<1>9. \A j \in Ids : lease'[j] # Unused /\ lease'[j].mode = "local"
                       <=> lease[j] # Unused /\ lease[j].mode = "local"
  BY <1>1, EndedLease
<1>10. \E gone \in SUBSET Ids : Permits!GiveBack(gone)
  <2> DEFINE gone == {j \in Ids : lease'[j].pc # "live"}
  <2>1. ASSUME NEW m \in Models PROVE LocalLeases(m)' = LocalLeases(m) \ gone
    BY <1>1, <1>7, EndedLease DEF LocalLeases, Unused
  <2>2. gone \in SUBSET Ids
    OBVIOUS
  <2> HIDE DEF gone
  <2>3. [m \in Models |-> LocalLeases(m)]'
          = [m \in Models |-> [n \in Models |-> LocalLeases(n)][m] \ gone]
    BY <2>1
  <2>4. {j \in Ids : lease[j] # Unused /\ lease[j].mode = "local"}'
          = {j \in Ids : lease[j] # Unused /\ lease[j].mode = "local"}
    BY <1>9
  <2>5. Permits!GiveBack(gone)
    BY <2>3, <2>4 DEF Permits!GiveBack
  <2> QED
    BY <2>2, <2>5
<1> QED
  BY <1>2, <1>4, <1>5, <1>6, <1>8, <1>10 DEF Inv

LEMMA CleanedEnds ==
  ASSUME TypeOK, NEW i, NEW j \in Ids, lease'[j] = Cleaned(j)
  PROVE  Ends(i, j)
<1>1. lease[j] \in {Unused} \cup Call
  BY DEF TypeOK
<1> QED
  BY <1>1 DEF Ends, Cleaned, Expired, Stored, Gone, Call, Unused

-----------------------------------------------------------------------------
(* The server's steps.                                                     *)

LEMMA ServerEndsLeases ==
  ASSUME Inv, \/ QueryMode \/ RestartServer
              \/ \E i \in Ids : Release(i) \/ Lapse(i)
  PROVE  Inv' /\ \E gone \in SUBSET Ids : Permits!GiveBack(gone)
<1>1. /\ TypeOK
      /\ \A j \in Ids : lease[j] \in {Unused} \cup Call
      /\ lease = [j \in Ids |-> lease[j]]
  BY DEF Inv, TypeOK
<1>2. CASE QueryMode
  <2>1. \A j \in Ids : Ends(NoLease, j)
    BY <1>1, <1>2, CleanedEnds DEF QueryMode
  <2> QED
    BY <1>1, <1>2, <2>1, IdsAreFinite, EndingKeepsInv DEF QueryMode
<1>3. CASE RestartServer
  <2>1. \A j \in Ids : Ends(NoLease, j)
    BY <1>1, <1>3 DEF RestartServer, Ends, Stored, Gone, Call, Unused
  <2> QED
    BY <1>1, <1>3, <2>1, IdsAreFinite, EndingKeepsInv DEF RestartServer
<1>4. ASSUME NEW i \in Ids, Release(i)
      PROVE  Inv' /\ \E gone \in SUBSET Ids : Permits!GiveBack(gone)
  <2>1. \A j \in Ids : Ends(i, j)
    BY <1>1, <1>4 DEF Release, Ends, Stored, Gone, Call, Unused
  <2>2. \A s \in Slots : ~Holds(s, i)
    BY <1>4 DEF Inv, OneHolder, Release
  <2>3. lease' = [j \in Ids |-> lease'[j]]
    BY <1>1, <1>4 DEF Release
  <2> QED
    BY <1>4, <2>1, <2>2, <2>3, EndingKeepsInv DEF Release
<1>5. ASSUME NEW i \in Ids, Lapse(i)
      PROVE  Inv' /\ \E gone \in SUBSET Ids : Permits!GiveBack(gone)
  <2>1. \A j \in Ids : Ends(NoLease, j)
    BY <1>1, <1>5 DEF Lapse, Ends, Stored, Gone, Call, Unused
  <2>2. lease' = [j \in Ids |-> lease'[j]]
    BY <1>1, <1>5 DEF Lapse
  <2> QED
    BY <1>5, <2>1, <2>2, IdsAreFinite, EndingKeepsInv DEF Lapse
<1> QED
  BY <1>2, <1>3, <1>4, <1>5

(* A lease is stored: a permit is taken when the mode is local, and none   *)
(* of the permits there are changes.                                       *)
LEMMA AcquireKeepsInv ==
  ASSUME Inv, NEW i \in Ids, Acquire(i)
  PROVE  Inv' /\ (\/ \E m \in Models : Permits!Take(m, i)
                  \/ UNCHANGED <<[m \in Models |-> LocalLeases(m)],
                                 {j \in Ids : lease[j] # Unused /\ lease[j].mode = "local"}>>)
<1> DEFINE mode == Mode(lease[i].proposed)
           row == [lease[i] EXCEPT !.pc = "live", !.mode = mode]
           p == lease[i].proposed
<1>1. /\ TypeOK
      /\ \A j \in Ids : lease[j] \in {Unused} \cup Call
  BY DEF Inv, TypeOK
<1>2. /\ lease[i] \in Call /\ lease[i].pc = "sent" /\ lease[i].mode = "none"
      /\ p \in Models
  BY <1>1 DEF Acquire, Inv, UndecidedWhileSent, Unused, Call
<1>3. mode \in {"local", "central"}
  BY DEF Mode
<1>4. /\ row.pc = "live" /\ row.proposed = p /\ row.mode = mode
      /\ row.alternative = lease[i].alternative /\ row \in Call
  <2> HIDE DEF mode
  <2> QED
    BY <1>2, <1>3, Zenon DEF Call, Stored
<1>5. /\ lease' = [j \in Ids |-> IF j = i THEN row ELSE Cleaned(j)]
      /\ UNCHANGED <<run, releases>>
  BY DEF Acquire
<1> HIDE DEF row, mode
<1>6. lease'[i] = row /\ \A j \in Ids \ {i} : lease'[j] = Cleaned(j) /\ Ends(NoLease, j)
  BY <1>1, <1>5, CleanedEnds
<1>7. \A j \in Ids \ {i} :
        /\ lease'[j] \in {Unused} \cup Call
        /\ lease'[j] = Unused <=> lease[j] = Unused
        /\ lease'[j].pc = "sent" <=> lease[j].pc = "sent"
        /\ lease[j].pc \in {"live", "overdue", "dropped"}
             => lease'[j].pc \in {"live", "overdue", "dropped"}
        /\ lease[j] # Unused =>
             /\ lease'[j].proposed = lease[j].proposed
             /\ lease'[j].mode = lease[j].mode
             /\ lease'[j].alternative = lease[j].alternative
        /\ lease'[j].pc = "live" <=> lease[j].pc = "live"
  <2>1. \A j \in Ids \ {i} : lease[j].pc = "live" => lease'[j].pc = "live"
    BY <1>6 DEF Cleaned, Expired
  <2> QED
    BY <1>1, <1>6, <2>1, IdsAreFinite, EndedLease
<1>8. TypeOK'
  BY <1>1, <1>4, <1>5, <1>6, <1>7 DEF TypeOK
<1>9. \A s \in Slots : run[s] \in {Idle} \cup Asking \cup Running
  BY <1>1 DEF TypeOK
<1>10. CallsKnown'
  <2> SUFFICES ASSUME NEW s \in Slots
               PROVE  /\ run[s].pc = "asking" =>
                           /\ lease'[run[s].lease].pc \in {"sent", "live", "overdue", "dropped"}
                           /\ lease'[run[s].lease].proposed = run[s].model
                      /\ run[s].pc = "running" /\ run[s].lease # NoLease =>
                           /\ lease'[run[s].lease].pc \in {"live", "overdue", "dropped"}
                           /\ Granted(run[s].lease)' = run[s].model
    BY <1>5 DEF CallsKnown, Granted
  <2>1. CASE run[s].pc = "asking"
    <3>1. run[s].lease \in Ids
      BY <1>9, <2>1 DEF Idle, Asking, Running
    <3>2. /\ lease[run[s].lease].pc \in {"sent", "live", "overdue", "dropped"}
          /\ lease[run[s].lease].proposed = run[s].model
      BY <2>1 DEF Inv, CallsKnown
    <3> QED
      BY <2>1, <3>1, <3>2, <1>4, <1>6, <1>7 DEF Unused
  <2>2. CASE run[s].pc = "running" /\ run[s].lease # NoLease
    <3>1. run[s].lease \in Ids
      BY <1>9, <2>2 DEF Idle, Asking, Running
    <3>2. /\ lease[run[s].lease].pc \in {"live", "overdue", "dropped"}
          /\ Granted(run[s].lease) = run[s].model
      BY <2>2 DEF Inv, CallsKnown
    <3>3. run[s].lease # i /\ lease[run[s].lease] # Unused
      BY <3>2, <1>2 DEF Unused
    <3>4. Granted(run[s].lease)' = Granted(run[s].lease)
      BY <1>5, <3>1, <3>3, <1>7 DEF Granted
    <3> QED
      BY <2>2, <3>1, <3>2, <3>3, <3>4, <1>7
  <2> QED
    BY <2>1, <2>2
<1>11. OneHolder'
  <2>1. \A s \in Slots, j \in Ids : Holds(s, j)' <=> Holds(s, j)
    BY <1>5 DEF Holds
  <2>2. lease'[i] # Unused /\ releases \subseteq Ids
    BY <1>1, <1>4, <1>6 DEF Unused, TypeOK
  <2> QED
    BY <1>5, <1>7, <2>1, <2>2 DEF Inv, OneHolder
<1>12. UndecidedWhileSent'
  BY <1>1, <1>4, <1>6, <1>7 DEF Inv, UndecidedWhileSent, Unused
<1>13. \A m \in Models :
         LocalLeases(m)' = IF m = p /\ mode = "local" THEN LocalLeases(m) \cup {i}
                                                       ELSE LocalLeases(m)
  BY <1>1, <1>2, <1>4, <1>6, <1>7 DEF LocalLeases, Unused
<1>14. mode = "local" => Cardinality(LocalLeases(p)) < Threshold
  <2> SUFFICES ASSUME mode = "local" PROVE Cardinality(LocalLeases(p)) < Threshold
    OBVIOUS
  <2>1. LocalLeases(p) \in SUBSET Active(p) /\ Active(p) \in SUBSET Ids
    BY DEF LocalLeases, Active, Granted, Stored, Expired
  <2>2. /\ Cardinality(LocalLeases(p)) <= Cardinality(Active(p))
        /\ Cardinality(LocalLeases(p)) \in Nat /\ Cardinality(Active(p)) \in Nat
    BY <2>1, IdsAreFinite, FS_Subset
  <2>3. Cardinality(Active(p)) < Threshold
    BY DEF mode, Mode
  <2> QED
    BY <2>2, <2>3
<1>15. LocalLeasesBounded'
  <2> SUFFICES ASSUME NEW m \in Models PROVE Cardinality(LocalLeases(m)') <= Threshold
    BY DEF LocalLeasesBounded
  <2>1. /\ IsFiniteSet(LocalLeases(m)) /\ Cardinality(LocalLeases(m)) \in Nat
        /\ Cardinality(LocalLeases(m)) <= Threshold
    BY IdsAreFinite DEF LocalLeases, Inv, LocalLeasesBounded
  <2>2. CASE m = p /\ mode = "local"
    <3>1. LocalLeases(m)' = LocalLeases(m) \cup {i}
      BY <2>2, <1>13
    <3>2. Cardinality(LocalLeases(m)) < Threshold
      BY <2>2, <1>14
    <3>3. /\ Cardinality(LocalLeases(m) \cup {i}) \in Nat
          /\ Cardinality(LocalLeases(m) \cup {i}) <= Cardinality(LocalLeases(m)) + 1
      BY <2>1, OneMore
    <3> QED
      BY <2>1, <3>1, <3>2, <3>3
  <2>3. CASE ~(m = p /\ mode = "local")
    BY <2>1, <2>3, <1>13
  <2> QED
    BY <2>2, <2>3
<1>16. {j \in Ids : lease[j] # Unused /\ lease[j].mode = "local"}'
         = IF mode = "local" THEN {j \in Ids : lease[j] # Unused /\ lease[j].mode = "local"} \cup {i}
                             ELSE {j \in Ids : lease[j] # Unused /\ lease[j].mode = "local"}
  BY <1>1, <1>2, <1>3, <1>4, <1>6, <1>7 DEF Unused, Call
<1>17. CASE mode = "local"
  <2>1. [m \in Models |-> LocalLeases(m)]'
          = [[m \in Models |-> LocalLeases(m)] EXCEPT ![p] = @ \cup {i}]
    BY <1>2, <1>13, <1>17
  <2>2. i \in Ids \ {j \in Ids : lease[j] # Unused /\ lease[j].mode = "local"}
    BY <1>2
  <2>3. Cardinality([m \in Models |-> LocalLeases(m)][p]) < Threshold
    BY <1>2, <1>14, <1>17
  <2>4. {j \in Ids : lease[j] # Unused /\ lease[j].mode = "local"}'
          = {j \in Ids : lease[j] # Unused /\ lease[j].mode = "local"} \cup {i}
    BY <1>16, <1>17
  <2> HIDE DEF p
  <2>5. Permits!Take(p, i)
    BY <2>1, <2>2, <2>3, <2>4 DEF Permits!Take, Permits!Cardinality, Cardinality
  <2> QED
    BY <1>2, <1>8, <1>10, <1>11, <1>12, <1>15, <2>5 DEF Inv
<1>18. CASE mode = "central"
  <2>1. [m \in Models |-> LocalLeases(m)]' = [m \in Models |-> LocalLeases(m)]
    BY <1>13, <1>18
  <2> QED
    BY <1>8, <1>10, <1>11, <1>12, <1>15, <1>16, <1>18, <2>1 DEF Inv
<1> QED
  BY <1>3, <1>17, <1>18

-----------------------------------------------------------------------------
(* A call that nobody knows any more leaves no trace with the others; if   *)
(* it has had a permit, its name is free again.                            *)
LEMMA ForgetKeepsInv ==
  ASSUME Inv, NEW i \in Ids, Forget(i)
  PROVE  Inv' /\ (Permits!Forget(i)
                  \/ UNCHANGED <<[m \in Models |-> LocalLeases(m)],
                                 {j \in Ids : lease[j] # Unused /\ lease[j].mode = "local"}>>)
<1>1. /\ lease \in [Ids -> {Unused} \cup Call] /\ releases \subseteq Ids
      /\ run \in [Slots -> {Idle} \cup Asking \cup Running]
  BY DEF Inv, TypeOK
<1>2. /\ lease[i] # Unused /\ lease[i].pc # "live"
      /\ \A s \in Slots : run[s] # Idle => run[s].lease # i
      /\ run' = run /\ releases' = releases \ {i}
      /\ lease'[i] = Unused /\ \A j \in Ids \ {i} : lease'[j] = lease[j]
      /\ lease' \in [Ids -> {Unused} \cup Call]
  BY <1>1 DEF Forget, Gone, Unused
<1>3. TypeOK'
  BY <1>1, <1>2 DEF TypeOK
<1>4. ASSUME NEW s \in Slots, run[s].pc = "asking" \/ (run[s].pc = "running" /\ run[s].lease # NoLease)
      PROVE  run[s].lease \in Ids \ {i}
  <2>1. run[s] # Idle /\ run[s].lease \in Ids
    BY <1>1, <1>4 DEF Idle, Asking, Running
  <2> QED
    BY <1>2, <2>1
<1>5. CallsKnown'
  BY <1>2, <1>4 DEF Inv, CallsKnown, Granted
<1>6. OneHolder'
  <2>1. \A s \in Slots, j \in Ids : Holds(s, j)' <=> Holds(s, j)
    BY <1>2 DEF Holds
  <2> QED
    BY <1>1, <1>2, <2>1 DEF Inv, OneHolder
<1>7. UndecidedWhileSent'
  BY <1>2 DEF Inv, UndecidedWhileSent, Unused
<1>8. \A m \in Models : LocalLeases(m)' = LocalLeases(m) /\ i \notin LocalLeases(m)
  BY <1>2 DEF LocalLeases, Unused
<1>9. LocalLeasesBounded'
  BY <1>8 DEF Inv, LocalLeasesBounded
<1>10. {j \in Ids : lease[j] # Unused /\ lease[j].mode = "local"}'
         = {j \in Ids : lease[j] # Unused /\ lease[j].mode = "local"} \ {i}
  BY <1>2
<1>11. CASE i \in {j \in Ids : lease[j] # Unused /\ lease[j].mode = "local"}
  BY <1>3, <1>5, <1>6, <1>7, <1>8, <1>9, <1>10, <1>11 DEF Inv, Permits!Forget
<1>12. CASE i \notin {j \in Ids : lease[j] # Unused /\ lease[j].mode = "local"}
  BY <1>3, <1>5, <1>6, <1>7, <1>8, <1>9, <1>10, <1>12 DEF Inv
<1> QED
  BY <1>11, <1>12

-----------------------------------------------------------------------------
(* The client's steps.                                                     *)

LEMMA ProposeKeepsInv ==
  ASSUME Inv, NEW s \in Slots, NEW i \in Ids, NEW m \in Models, NEW alt \in Alternatives[m],
         Propose(s, i, m, alt)
  PROVE  Inv' /\ UNCHANGED <<[k \in Models |-> LocalLeases(k)],
                             {j \in Ids : lease[j] # Unused /\ lease[j].mode = "local"}>>
<1> DEFINE row == [pc |-> "sent", proposed |-> m, alternative |-> alt, mode |-> "none"]
           slot == [pc |-> "asking", model |-> m, lease |-> i]
<1>1. /\ lease[i] = Unused /\ run[s] = Idle
      /\ lease' = [lease EXCEPT ![i] = row] /\ run' = [run EXCEPT ![s] = slot]
      /\ releases' = releases
  BY DEF Propose
<1>2. /\ row \in Call /\ row.pc = "sent" /\ row.proposed = m /\ row.mode = "none"
      /\ slot \in Asking /\ slot.pc = "asking" /\ slot.lease = i /\ slot.model = m
  BY DEF Call, Asking
<1> HIDE DEF row, slot
<1>3. /\ lease \in [Ids -> {Unused} \cup Call] /\ releases \subseteq Ids
      /\ run \in [Slots -> {Idle} \cup Asking \cup Running]
  BY DEF Inv, TypeOK
<1>4. /\ lease'[i] = row /\ \A j \in Ids \ {i} : lease'[j] = lease[j]
      /\ run'[s] = slot /\ \A t \in Slots \ {s} : run'[t] = run[t]
  BY <1>1, <1>3
<1>5. TypeOK'
  BY <1>1, <1>2, <1>3 DEF TypeOK
<1>6. row # Unused
  BY <1>2 DEF Unused
<1>7. ASSUME NEW t \in Slots, run[t] # Idle, run[t].lease # NoLease
      PROVE  run[t].lease \in Ids \ {i}
  <2>1. run[t].lease \in Ids /\ run[t].pc \in {"asking", "running"}
    BY <1>3, <1>7 DEF Asking, Running
  <2>2. lease[run[t].lease].pc \in {"sent", "live", "overdue", "dropped"}
    BY <1>7, <2>1 DEF Inv, CallsKnown
  <2> QED
    BY <1>1, <2>1, <2>2 DEF Unused
<1>8. CallsKnown'
  <2> SUFFICES ASSUME NEW t \in Slots
               PROVE  /\ run'[t].pc = "asking" =>
                           /\ lease'[run'[t].lease].pc \in {"sent", "live", "overdue", "dropped"}
                           /\ lease'[run'[t].lease].proposed = run'[t].model
                      /\ run'[t].pc = "running" /\ run'[t].lease # NoLease =>
                           /\ lease'[run'[t].lease].pc \in {"live", "overdue", "dropped"}
                           /\ Granted(run[t].lease)' = run'[t].model
    BY DEF CallsKnown, Granted
  <2>1. CASE t = s
    BY <2>1, <1>2, <1>4
  <2>2. CASE t # s
    <3>1. run'[t] = run[t]
      BY <2>2, <1>4
    <3>2. CASE run[t].pc = "asking"
      <4>1. run[t].lease \in Ids \ {i}
        BY <1>3, <1>7, <3>2, IdsAreFinite DEF Idle, Asking, Running
      <4> QED
        BY <1>4, <3>1, <3>2, <4>1 DEF Inv, CallsKnown
    <3>3. CASE run[t].pc = "running" /\ run[t].lease # NoLease
      <4>1. run[t].lease \in Ids \ {i}
        BY <1>7, <3>3 DEF Idle
      <4>2. lease'[run[t].lease] = lease[run[t].lease]
        BY <1>4, <4>1
      <4>3. Granted(run[t].lease)' = Granted(run[t].lease)
        BY <3>1, <4>2 DEF Granted
      <4> QED
        BY <3>1, <3>3, <4>2, <4>3 DEF Inv, CallsKnown
    <3> QED
      BY <3>1, <3>2, <3>3
  <2> QED
    BY <2>1, <2>2
<1>9. OneHolder'
  <2>1. \A t \in Slots \ {s}, j \in Ids : Holds(t, j)' => Holds(t, j) /\ j # i
    BY <1>4, <1>7, IdsAreFinite DEF Holds, Idle
  <2>2. \A j \in Ids : Holds(s, j)' => j = i
    BY <1>2, <1>4 DEF Holds
  <2>3. i \notin releases
    BY <1>1 DEF Inv, OneHolder
  <2> QED
    BY <1>1, <1>3, <1>4, <2>1, <2>2, <2>3 DEF Inv, OneHolder
<1>10. UndecidedWhileSent'
  BY <1>2, <1>4 DEF Inv, UndecidedWhileSent
<1>11. \A k \in Models : LocalLeases(k)' = LocalLeases(k)
  BY <1>1, <1>2, <1>4 DEF LocalLeases, Unused
<1>12. LocalLeasesBounded'
  BY <1>11 DEF Inv, LocalLeasesBounded
<1>13. {j \in Ids : lease[j] # Unused /\ lease[j].mode = "local"}'
         = {j \in Ids : lease[j] # Unused /\ lease[j].mode = "local"}
  BY <1>1, <1>2, <1>4
<1> QED
  BY <1>5, <1>8, <1>9, <1>10, <1>11, <1>12, <1>13 DEF Inv

(* A slot changes, and no lease does. *)
LEMMA SlotChangeKeepsInv ==
  ASSUME Inv, NEW s \in Slots,
         \/ \E m \in Models : RouteUnknown(s, m)
         \/ Receive(s) \/ FallBack(s) \/ Finish(s) \/ Abandon(s)
  PROVE  Inv' /\ UNCHANGED lease
<1>1. /\ lease \in [Ids -> {Unused} \cup Call] /\ releases \subseteq Ids
      /\ run \in [Slots -> {Idle} \cup Asking \cup Running]
  BY DEF Inv, TypeOK
<1>2. lease' = lease
  BY DEF RouteUnknown, Receive, FallBack, Finish, Abandon
<1>3. \A t \in Slots \ {s} : run'[t] = run[t]
  BY <1>1 DEF RouteUnknown, Receive, FallBack, Finish, Abandon
<1>4. \/ run'[s] = Idle
      \/ \E m \in Models : run'[s] = [pc |-> "running", model |-> m, lease |-> NoLease]
      \/ /\ run[s].pc = "asking" /\ lease[run[s].lease].pc \in Stored \cup Gone
         /\ run'[s] = [pc |-> "running", model |-> Granted(run[s].lease), lease |-> run[s].lease]
  <2>1. run[s].pc = "asking" => run[s].model \in Models
    BY <1>1 DEF Idle, Asking, Running
  <2> QED
    BY <1>1, <2>1 DEF RouteUnknown, Receive, FallBack, Finish, Abandon
<1>5. run[s].pc = "asking" => run[s].lease \in Ids
  BY <1>1 DEF Idle, Asking, Running
<1>6. /\ run'[s] \in {Idle} \cup Asking \cup Running
      /\ run'[s] = Idle \/ run'[s].pc = "running"
      /\ run'[s].pc = "running" /\ run'[s].lease # NoLease =>
           /\ run[s].pc = "asking" /\ run'[s].lease = run[s].lease
           /\ run'[s].model = Granted(run[s].lease)
           /\ lease[run[s].lease].pc \in Stored \cup Gone
  <2>1. CASE run'[s] = Idle
    BY <2>1 DEF Idle
  <2>2. ASSUME NEW m \in Models, run'[s] = [pc |-> "running", model |-> m, lease |-> NoLease]
        PROVE  run'[s] \in Running /\ run'[s].pc = "running" /\ run'[s].lease = NoLease
    BY <2>2 DEF Running
  <2>3. CASE /\ run[s].pc = "asking" /\ lease[run[s].lease].pc \in Stored \cup Gone
             /\ run'[s] = [pc |-> "running", model |-> Granted(run[s].lease),
                           lease |-> run[s].lease]
    <3>1. Granted(run[s].lease) \in Models
      BY <1>1, <1>5, <2>3 DEF Granted, Call, Unused, Stored, Gone
    <3>2. run'[s] \in Running
      BY <1>5, <2>3, <3>1 DEF Running
    <3> QED
      BY <2>3, <3>2
  <2> QED
    BY <1>4, <2>1, <2>2, <2>3
<1>7. /\ run' \in [Slots -> {Idle} \cup Asking \cup Running]
      /\ releases' \subseteq releases \cup {j \in Ids : run[s].pc = "running" /\ run[s].lease = j}
  <2>1. run' = [run EXCEPT ![s] = run'[s]]
    BY <1>1 DEF RouteUnknown, Receive, FallBack, Finish, Abandon
  <2>2. run[s].pc = "running" => run[s].lease \in Ids \cup {NoLease}
    BY <1>1 DEF Idle, Asking, Running
  <2> QED
    BY <1>1, <1>6, <2>1, <2>2 DEF RouteUnknown, Receive, FallBack, Finish, Abandon
<1>8. TypeOK'
  BY <1>1, <1>2, <1>7 DEF TypeOK
<1>9. CallsKnown'
  <2> SUFFICES ASSUME NEW t \in Slots
               PROVE  /\ run'[t].pc = "asking" =>
                           /\ lease[run'[t].lease].pc \in {"sent", "live", "overdue", "dropped"}
                           /\ lease[run'[t].lease].proposed = run'[t].model
                      /\ run'[t].pc = "running" /\ run'[t].lease # NoLease =>
                           /\ lease[run'[t].lease].pc \in {"live", "overdue", "dropped"}
                           /\ Granted(run'[t].lease) = run'[t].model
    BY <1>2 DEF CallsKnown, Granted
  <2>1. CASE t # s
    BY <1>3, <2>1 DEF Inv, CallsKnown
  <2>2. CASE t = s
    <3>1. run[s].pc = "asking" => lease[run[s].lease].pc # "released"
      BY DEF Inv, CallsKnown
    <3> QED
      BY <1>6, <2>2, <3>1 DEF Idle, Stored, Gone
  <2> QED
    BY <2>1, <2>2
<1>10. OneHolder'
  <2>1. \A t \in Slots, j \in Ids : Holds(t, j)' => Holds(t, j)
    BY <1>3, <1>6, IdsAreFinite DEF Holds, Idle
  <2>2. ASSUME NEW j \in Ids, run[s].pc = "running", run[s].lease = j, j \in releases'
        PROVE  lease[j] # Unused /\ \A t \in Slots : ~Holds(t, j)'
    <3>1. Holds(s, j) /\ lease[j] # Unused
      BY <2>2, IdsAreFinite DEF Holds, Inv, CallsKnown, Unused
    <3>2. j \notin releases
      BY <3>1 DEF Inv, OneHolder
    <3>3. run'[s] = Idle
      BY <1>1, <2>2, <3>2 DEF RouteUnknown, Receive, FallBack, Finish, Abandon
    <3>4. \A t \in Slots : Holds(t, j) => t = s
      BY <3>1 DEF Inv, OneHolder
    <3> QED
      BY <2>1, <3>1, <3>3, <3>4 DEF Holds, Idle
  <2>3. \A s1, s2 \in Slots, j \in Ids : Holds(s1, j)' /\ Holds(s2, j)' => s1 = s2
    BY <2>1 DEF Inv, OneHolder
  <2>4. \A j \in releases' : lease'[j] # Unused /\ \A t \in Slots : ~Holds(t, j)'
    BY <1>1, <1>2, <1>7, <2>1, <2>2 DEF Inv, OneHolder
  <2> QED
    BY <2>3, <2>4 DEF OneHolder
<1>11. UndecidedWhileSent' /\ LocalLeasesBounded'
  BY <1>2 DEF Inv, UndecidedWhileSent, LocalLeasesBounded, LocalLeases
<1> QED
  BY <1>2, <1>8, <1>9, <1>10, <1>11 DEF Inv

-----------------------------------------------------------------------------
(* Theorems.                                                               *)

LEMMA InitEstablishesInv == Init => Inv /\ Permits!Init
<1> SUFFICES ASSUME Init PROVE Inv /\ Permits!Init
  OBVIOUS
<1>1. TypeOK
  BY DEF Init, TypeOK
<1>2. CallsKnown /\ OneHolder /\ UndecidedWhileSent
  BY DEF Init, CallsKnown, OneHolder, UndecidedWhileSent, Holds, Idle, Unused
<1>3. \A m \in Models : LocalLeases(m) = {}
  BY DEF Init, LocalLeases, Unused
<1>4. LocalLeasesBounded
  BY <1>3, FS_EmptySet DEF LocalLeasesBounded
<1>5. [m \in Models |-> LocalLeases(m)] = [m \in Models |-> {}]
  BY <1>3
<1>6. {i \in Ids : lease[i] # Unused /\ lease[i].mode = "local"} = {}
  BY DEF Init
<1>7. Permits!Init
  BY <1>5, <1>6 DEF Permits!Init
<1> QED
  BY <1>1, <1>2, <1>4, <1>7 DEF Inv

(* A step of the system, and the step of the abstract permits it makes. *)
LEMMA StepKeepsInv ==
  ASSUME Inv, [Next]_vars
  PROVE  Inv' /\ (Permits!Next
                    \/ UNCHANGED <<[m \in Models |-> LocalLeases(m)],
                                   {i \in Ids : lease[i] # Unused /\ lease[i].mode = "local"}>>)
<1>1. ASSUME NEW i \in Ids, Acquire(i)
      PROVE  Inv' /\ (Permits!Next
                    \/ UNCHANGED <<[m \in Models |-> LocalLeases(m)],
                                   {j \in Ids : lease[j] # Unused /\ lease[j].mode = "local"}>>)
  BY <1>1, AcquireKeepsInv DEF Permits!Next
<1>2. CASE \/ QueryMode \/ RestartServer
           \/ \E i \in Ids : Release(i) \/ Lapse(i)
  BY <1>2, ServerEndsLeases DEF Permits!Next
<1>3. ASSUME NEW s \in Slots, NEW i \in Ids, NEW m \in Models, NEW alt \in Alternatives[m],
             Propose(s, i, m, alt)
      PROVE  Inv' /\ UNCHANGED <<[k \in Models |-> LocalLeases(k)],
                                 {j \in Ids : lease[j] # Unused /\ lease[j].mode = "local"}>>
  BY <1>3, ProposeKeepsInv
<1>4. ASSUME UNCHANGED lease
      PROVE  UNCHANGED <<[m \in Models |-> LocalLeases(m)],
                         {i \in Ids : lease[i] # Unused /\ lease[i].mode = "local"}>>
  BY <1>4 DEF LocalLeases
<1>5. ASSUME NEW s \in Slots,
             \/ \E m \in Models : RouteUnknown(s, m)
             \/ Receive(s) \/ FallBack(s) \/ Finish(s) \/ Abandon(s)
      PROVE  Inv' /\ UNCHANGED lease
  BY <1>5, SlotChangeKeepsInv
<1>6. ASSUME NEW i \in Ids, Forget(i)
      PROVE  Inv' /\ (Permits!Next
                    \/ UNCHANGED <<[m \in Models |-> LocalLeases(m)],
                                   {j \in Ids : lease[j] # Unused /\ lease[j].mode = "local"}>>)
  BY <1>6, ForgetKeepsInv DEF Permits!Next
<1>7. CASE UNCHANGED vars
  BY <1>4, <1>7 DEF vars, Inv, TypeOK, CallsKnown, OneHolder, Holds, Granted,
                    UndecidedWhileSent, LocalLeasesBounded, LocalLeases
<1> QED
  BY <1>1, <1>2, <1>3, <1>4, <1>5, <1>6, <1>7 DEF Next

(* The inductive invariant holds in every reachable state. *)
THEOREM LeasesStaySound == Spec => []Inv
BY InitEstablishesInv, StepKeepsInv, PTL DEF Spec

(* Every reachable state of the leases is well typed. *)
THEOREM TypeCorrect == Spec => []TypeOK
<1>1. Inv => TypeOK
  BY DEF Inv
<1> QED
  BY <1>1, LeasesStaySound, PTL

(* A lease that is held is counted until its time is up.                   *)
THEOREM HeldLeasesAreActive == Spec => []HeldLeaseIsActive
<1>1. Inv => HeldLeaseIsActive
  <2> SUFFICES ASSUME Inv, NEW s \in Slots, run[s].pc = "running", run[s].lease # NoLease
               PROVE  \/ run[s].lease \in Active(run[s].model)
                      \/ lease[run[s].lease].pc \in {"overdue", "dropped"}
    BY DEF HeldLeaseIsActive
  <2>1. run[s].lease \in Ids
    BY DEF Inv, TypeOK, Idle, Asking, Running
  <2> QED
    BY <2>1 DEF Inv, CallsKnown, Active, Stored, Expired
<1> QED
  BY <1>1, LeasesStaySound, PTL

(* The executions under a valid local lease are at most Threshold per      *)
(* model, for any number of applications.                                  *)
THEOREM LocalRunsAreBounded == Spec => []LocalRunsBounded
<1>1. Inv => LocalRunsBounded
  <2> SUFFICES ASSUME Inv, NEW m \in Models, ~(Cardinality(LocalRuns(m)) <= Threshold)
               PROVE  FALSE
    BY DEF LocalRunsBounded
  <2> DEFINE f == [s \in LocalRuns(m) |-> run[s].lease]
  <2>1. /\ IsFiniteSet(LocalRuns(m)) /\ Cardinality(LocalRuns(m)) \in Nat
        /\ IsFiniteSet(LocalLeases(m)) /\ Cardinality(LocalLeases(m)) \in Nat
    <3>1. LocalRuns(m) \in SUBSET Slots /\ LocalLeases(m) \in SUBSET Ids
      BY DEF LocalRuns, LocalLeases
    <3> QED
      BY <3>1, SlotsAreFinite, IdsAreFinite, FS_Subset, FS_CardinalityType
  <2>2. Cardinality(LocalLeases(m)) < Cardinality(LocalRuns(m))
    BY <2>1 DEF Inv, LocalLeasesBounded
  <2>3. ASSUME NEW s \in LocalRuns(m)
        PROVE  run[s].lease \in LocalLeases(m) /\ Holds(s, run[s].lease)
    <3>1. s \in Slots /\ run[s].lease \in Ids
      BY DEF LocalRuns, Inv, TypeOK, Idle, Asking, Running
    <3>2. lease[run[s].lease].proposed = m
      BY <3>1 DEF LocalRuns, Inv, CallsKnown, Granted
    <3> QED
      BY <3>1, <3>2 DEF LocalRuns, LocalLeases, Holds
  <2>4. f \in [LocalRuns(m) -> LocalLeases(m)]
    BY <2>3
  <2>5. PICK s, t \in LocalRuns(m) : s # t /\ f[s] = f[t]
    <3> HIDE DEF f
    <3> QED
      BY <2>1, <2>2, <2>4, FS_PigeonHole
  <2>6. Holds(s, run[s].lease) /\ Holds(t, run[s].lease) /\ run[s].lease \in Ids
    BY <2>3, <2>5 DEF LocalLeases
  <2>7. s \in Slots /\ t \in Slots
    BY <2>5 DEF LocalRuns
  <2> QED
    BY <2>5, <2>6, <2>7 DEF Inv, OneHolder
<1> QED
  BY <1>1, LeasesStaySound, PTL

(* The server implements the abstract permits.                             *)
THEOREM LeasesKeepPermits == Spec => KeepsPermits
<1>1. Inv /\ [Next]_vars =>
        (Permits!Next \/ UNCHANGED <<[m \in Models |-> LocalLeases(m)],
                             {i \in Ids : lease[i] # Unused /\ lease[i].mode = "local"}>>)
  BY StepKeepsInv
<1> QED
  BY <1>1, InitEstablishesInv, LeasesStaySound, PTL DEF Spec, KeepsPermits, Permits!Spec
=============================================================================
