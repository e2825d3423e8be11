-------------------------- MODULE ClassPoolProofs --------------------------
(***************************************************************************)
(* The class pool and its default for any models, domains, sizes and       *)
(* number of concurrent requests: types, the bound on the pool, with and   *)
(* without the add channel, room that is made without a default, failed    *)
(* defaults and members that are down on their way out.                    *)
(***************************************************************************)
EXTENDS ClassPool, FiniteSetTheorems, TLAPS

(* TypeOK lets `peer' be missing; what is promoted is a model.  Only an    *)
(* operator's slot comes to the insertion that does not count.             *)
Sound(h, u) ==
  /\ u.pc = "promote" => u.peer \in Models
  /\ u.pc = "insert" => h \in Operators

IInv == TypeOK /\ \A h \in Handlers : Sound(h, task[h])

-----------------------------------------------------------------------------
(* A slot that is at some step holds a request. *)
LEMMA Busy ==
  ASSUME TypeOK, NEW h \in Handlers, task[h].pc # "idle"
  PROVE  task[h] \in Task
BY DEF TypeOK, Idle

(* A request stays a request when it moves to another step. *)
LEMMA Moved ==
  ASSUME NEW t \in Task, NEW pc \in Steps
  PROVE  /\ [t EXCEPT !.pc = pc] \in Task
         /\ [t EXCEPT !.pc = pc].pc = pc
<1>1. [t EXCEPT !.pc = pc] \in Task
  BY Zenon DEF Task
<1> QED
  BY <1>1 DEF Task

(* The eviction check goes on to the next entry, or to the default.        *)
LEMMA CheckedMoves ==
  ASSUME NEW t \in Task, NEW rest \in SUBSET Models
  PROVE  /\ Checked(t, rest) \in Task
         /\ Checked(t, rest).pc \in {"check", "credit", "blame"}
         /\ Checked(t, rest).todo = rest
         /\ rest # {} => Checked(t, rest).pc = "check"
         /\ rest = {} => Checked(t, rest).pc # "check"
<1> DEFINE pc == IF rest # {} THEN "check" ELSE IF t.good THEN "credit" ELSE "blame"
           ids == IF rest # {} THEN t.ids ELSE {}
           u == [t EXCEPT !.todo = rest, !.peer = None, !.ids = ids, !.pc = pc]
<1>1. /\ pc \in Steps /\ pc \in {"check", "credit", "blame"}
      /\ rest # {} => pc = "check"
      /\ rest = {} => pc # "check"
      /\ ids \in SUBSET Models
  BY DEF Steps, Task
<1>2. Checked(t, rest) = u
  BY Zenon DEF Checked
<1> HIDE DEF pc, ids
<1>3. u \in Task
  BY <1>1, Zenon DEF Task
<1>4. u.pc = pc /\ u.todo = rest
  BY DEF Task
<1> QED
  BY <1>1, <1>2, <1>3, <1>4

(* A request as it comes in. *)
LEMMA Requested ==
  ASSUME NEW pc \in Steps, NEW m \in Models, NEW good \in BOOLEAN
  PROVE  /\ Request(pc, m, good) \in Task
         /\ Request(pc, m, good).pc = pc
         /\ \A d \in Domains :
              /\ [Request(pc, m, good) EXCEPT !.domain = d] \in Task
              /\ [Request(pc, m, good) EXCEPT !.domain = d].pc = pc
<1>1. Request(pc, m, good) \in Task
  BY Zenon DEF Request, Task
<1>2. Request(pc, m, good).pc = pc
  BY DEF Request
<1>3. ASSUME NEW t \in Task, NEW d \in Domains
      PROVE  [t EXCEPT !.domain = d] \in Task /\ [t EXCEPT !.domain = d].pc = t.pc
  <2>1. [t EXCEPT !.domain = d] \in Task
    BY Zenon DEF Task
  <2> QED
    BY <2>1 DEF Task
<1> QED
  BY <1>1, <1>2, <1>3

(* Writing one slot keeps the types of all and touches no other. *)
LEMMA SlotWritten ==
  ASSUME TypeOK, NEW h \in Handlers, NEW t \in {Idle} \cup Task,
         task' = [task EXCEPT ![h] = t]
  PROVE  /\ task' \in [Handlers -> {Idle} \cup Task]
         /\ task'[h] = t
         /\ \A g \in Handlers \ {h} : task'[g] = task[g]
BY Zenon DEF TypeOK

(* Moving to another step writes that slot only. *)
LEMMA GotoWrites ==
  ASSUME TypeOK, NEW h \in Handlers, task[h].pc # "idle",
         NEW pc \in Steps, Goto(h, pc)
  PROVE  task' = [task EXCEPT ![h] = [task[h] EXCEPT !.pc = pc]]
BY Zenon DEF Goto, TypeOK

(* The rows that are written are rows. *)
LEMMA Rows ==
  /\ \A m \in Models : \A b \in BOOLEAN :
       /\ Fresh(m, b) \in Default
       /\ Fresh(m, b).consecutive_fail = 0
       /\ Fresh(m, b).model = m
       /\ Fresh(m, b).is_locked = b
  /\ \A row \in Default : \A n \in 0 .. RevokeAfter :
       /\ [row EXCEPT !.consecutive_fail = n] \in Default
       /\ [row EXCEPT !.consecutive_fail = n].consecutive_fail = n
       /\ [row EXCEPT !.consecutive_fail = n].model = row.model
       /\ [row EXCEPT !.consecutive_fail = n].is_locked = row.is_locked
  /\ \A row \in Default :
       /\ UpTo(RevokeAfter, row.consecutive_fail) \in 0 .. RevokeAfter
       /\ UpTo(RevokeAfter, row.consecutive_fail) >= row.consecutive_fail
BY PoolsAreBounded DEF Fresh, Default, UpTo

(* What a request writes to its slot; only its first step leads to the     *)
(* insertion.                                                              *)
Written(h) ==
  \E u \in {Idle} \cup Task : task' = [task EXCEPT ![h] = u] /\ Sound(h, u)

Advanced(h) ==
  \E u \in {Idle} \cup Task :
    task' = [task EXCEPT ![h] = u] /\ Sound(h, u) /\ u.pc # "insert"

(* Each transaction of a request writes its slot soundly. *)
LEMMA AdvanceMoves ==
  ASSUME IInv, NEW h \in Handlers, Advance(h)
  PROVE  Advanced(h)
<1> USE DEF IInv
<1>1. task[h].pc # "idle" /\ task[h] \in Task
  BY Busy DEF Advance, ReadEntries, ReadDefaultIds, Check, Evict, Credit,
     CreditWrite, Arbitrate, Rank, Promote, Blame, BlameWrite, Revoke,
     Insert, RemoveIds, RemoveClear, Remove, Drop
<1>2. {"default_ids", "check", "evict", "expire", "credit", "credit_write",
       "arbitrate", "rank", "promote", "blame", "blame_write", "revoke",
       "remove_clear", "remove"} \subseteq Steps
  BY DEF Steps
<1>3. ASSUME NEW u \in Task, u.pc \notin {"promote", "insert"} PROVE Sound(h, u)
  BY <1>3 DEF Sound
<1>4. ASSUME Return(h) PROVE Advanced(h)
  <2>1. Sound(h, Idle) /\ Idle.pc # "insert"
    BY DEF Sound, Idle
  <2> QED
    BY <1>4, <2>1, Zenon DEF Return, Advanced
<1>5. ASSUME NEW pc \in Steps, pc \notin {"promote", "insert"}, Goto(h, pc)
      PROVE  Advanced(h)
  <2>1. task' = [task EXCEPT ![h] = [task[h] EXCEPT !.pc = pc]]
    BY <1>1, <1>5, GotoWrites
  <2> DEFINE u == [task[h] EXCEPT !.pc = pc]
  <2>2. u \in Task /\ u.pc = pc
    BY <1>1, <1>5, Moved
  <2> HIDE DEF u
  <2>3. Sound(h, u) /\ u.pc # "insert"
    BY <1>3, <1>5, <2>2
  <2> QED
    BY <2>1, <2>2, <2>3, Zenon DEF Advanced, u
<1>6. ASSUME NEW t \in Task, NEW rest \in SUBSET Models,
             task' = [task EXCEPT ![h] = Checked(t, rest)]
      PROVE  Advanced(h)
  <2>1. /\ Checked(t, rest) \in Task
        /\ Sound(h, Checked(t, rest))
        /\ Checked(t, rest).pc # "insert"
    BY <1>3, CheckedMoves
  <2> QED
    BY <1>6, <2>1, Zenon DEF Advanced
<1>7. ASSUME NEW pc \in Steps, NEW p \in Models \cup {None}, pc # "insert",
             pc = "promote" => p \in Models,
             task' = [task EXCEPT ![h].pc = pc, ![h].peer = p]
      PROVE  Advanced(h)
  <2> DEFINE u == [task[h] EXCEPT !.pc = pc, !.peer = p]
  <2>1. task' = [task EXCEPT ![h] = u]
    BY <1>7, Zenon DEF TypeOK
  <2>2. u \in Task /\ u.pc = pc /\ u.peer = p
    <3>1. u \in Task
      BY <1>1, Zenon DEF Task
    <3> QED
      BY <1>1, <3>1 DEF Task
  <2> HIDE DEF u
  <2>3. Sound(h, u) /\ u.pc # "insert"
    BY <1>7, <2>2 DEF Sound
  <2> QED
    BY <2>1, <2>2, <2>3, Zenon DEF Advanced
<1>8. /\ DefaultIds \in SUBSET Models
      /\ pool \in SUBSET Models
      /\ task[h].todo \in SUBSET Models
      /\ task[h].peer \in Models \cup {None}
  BY <1>1 DEF TypeOK, Task, DefaultIds, Default
<1>9. CASE ReadEntries(h)
  <2> DEFINE u == [task[h] EXCEPT !.pc = "default_ids", !.todo = pool]
  <2>1. task' = [task EXCEPT ![h] = u]
    BY <1>9, Zenon DEF ReadEntries, TypeOK
  <2>2. u \in Task
    BY <1>1, <1>2, <1>8, Zenon DEF Task
  <2>3. u.pc = "default_ids"
    BY <1>1 DEF Task
  <2>4. Sound(h, u) /\ u.pc # "insert"
    BY <2>3 DEF Sound
  <2> QED
    BY <2>1, <2>2, <2>4, Zenon DEF Advanced
<1>10. CASE ReadDefaultIds(h)
  <2> DEFINE t == [task[h] EXCEPT !.ids = DefaultIds]
  <2>1. t \in Task
    BY <1>1, <1>8, Zenon DEF Task
  <2>2. task' = [task EXCEPT ![h] = Checked(t, task[h].todo)]
    BY <1>10, Zenon DEF ReadDefaultIds, TypeOK
  <2> QED
    BY <1>6, <1>8, <2>1, <2>2
<1>11. CASE Check(h)
  <2>1. PICK m \in task[h].todo :
          \/ task' = [task EXCEPT ![h].pc = "evict", ![h].peer = m]
          \/ task' = [task EXCEPT ![h].pc = "expire", ![h].peer = m]
          \/ task' = [task EXCEPT ![h] = Checked(@, @.todo \ {m})]
    BY <1>11, Zenon DEF Check
  <2>2. m \in Models
    BY <1>8
  <2>3. CASE task' = [task EXCEPT ![h] = Checked(@, @.todo \ {m})]
    <3>1. task' = [task EXCEPT ![h] = Checked(task[h], task[h].todo \ {m})]
      BY <2>3, Zenon DEF TypeOK
    <3>2. task[h].todo \ {m} \in SUBSET Models
      BY <1>8
    <3> QED
      BY <1>1, <1>6, <3>1, <3>2
  <2> QED
    BY <1>2, <1>7, <2>1, <2>2, <2>3
<1>12. CASE Evict(h)
  <2>1. task' = [task EXCEPT ![h] = Checked(task[h], task[h].todo \ {task[h].peer})]
    BY <1>12, Zenon DEF Evict, TypeOK
  <2>2. task[h].todo \ {task[h].peer} \in SUBSET Models
    BY <1>8
  <2> QED
    BY <1>1, <1>6, <2>1, <2>2
<1>13. CASE Arbitrate(h)
  <2>1. default.model \in Models \cup {None}
    BY DEF TypeOK, Default, NoDefault
  <2> QED
    BY <1>2, <1>4, <1>7, <1>13, <2>1 DEF Arbitrate
<1>14. CASE Rank(h)
  BY <1>2, <1>4, <1>7, <1>14 DEF Rank
<1>15. CASE Credit(h)
  BY <1>2, <1>5, <1>15 DEF Credit
<1>16. CASE CreditWrite(h)
  BY <1>2, <1>5, <1>16 DEF CreditWrite
<1>17. CASE Blame(h)
  BY <1>2, <1>4, <1>5, <1>17 DEF Blame
<1>18. CASE BlameWrite(h)
  BY <1>2, <1>4, <1>5, <1>18 DEF BlameWrite
<1>19. CASE RemoveIds(h)
  BY <1>2, <1>5, <1>19 DEF RemoveIds
<1>20. CASE RemoveClear(h)
  BY <1>2, <1>5, <1>20 DEF RemoveClear
<1>21. CASE Promote(h) \/ Revoke(h) \/ Insert(h) \/ Remove(h) \/ Drop(h)
  BY <1>4, <1>21 DEF Promote, Revoke, Insert, Remove, Drop
<1> QED
  BY <1>9, <1>10, <1>11, <1>12, <1>13, <1>14, <1>15, <1>16, <1>17, <1>18,
     <1>19, <1>20, <1>21 DEF Advance

LEMMA AdvanceWrites ==
  ASSUME IInv, NEW h \in Handlers, Advance(h)
  PROVE  Written(h)
BY AdvanceMoves, Zenon DEF Advanced, Written

(* So does the operation that opens it. *)
LEMMA StartWrites ==
  ASSUME IInv, NEW h \in Handlers, Start(h)
  PROVE  Written(h)
<1> USE DEF IInv
<1>1. ASSUME NEW pc \in Steps, NEW m \in Models, NEW good \in BOOLEAN,
             pc # "promote", pc = "insert" => h \in Operators,
             task' = [task EXCEPT ![h] = Request(pc, m, good)]
      PROVE  Written(h)
  <2>1. Request(pc, m, good) \in Task /\ Sound(h, Request(pc, m, good))
    BY <1>1, Requested DEF Sound
  <2> QED
    BY <1>1, <2>1, Zenon DEF Written
<1>2. {"entries", "insert", "remove_ids", "drop"} \subseteq Steps
  BY DEF Steps
<1>4. ASSUME NEW d \in Domains, Lookup(h, d) PROVE Written(h)
  <2>1. default.model \in Models
    BY <1>4 DEF Lookup, TypeOK, Default
  <2> DEFINE u == [Request("drop", default.model, FALSE) EXCEPT !.domain = d]
  <2>2. u \in Task /\ u.pc = "drop"
    BY <1>2, <2>1, Requested
  <2>3. task' = [task EXCEPT ![h] = u]
    BY <1>4 DEF Lookup
  <2> HIDE DEF u
  <2>4. Sound(h, u)
    BY <2>2 DEF Sound
  <2> QED
    BY <2>2, <2>3, <2>4, Zenon DEF Written
<1>5. ASSUME NEW m \in Models, RateGood(h, m) PROVE Written(h)
  BY <1>1, <1>2, <1>5 DEF RateGood
<1>6. ASSUME NEW m \in Models, RatePoor(h, m) PROVE Written(h)
  BY <1>1, <1>2, <1>6 DEF RatePoor
<1>7. ASSUME NEW m \in Models, ManualAdd(h, m) PROVE Written(h)
  BY <1>1, <1>2, <1>7 DEF ManualAdd
<1>8. ASSUME NEW m \in Models, ManualRemove(h, m) PROVE Written(h)
  BY <1>1, <1>2, <1>8 DEF ManualRemove
<1> QED
  BY <1>4, <1>5, <1>6, <1>7, <1>8 DEF Start

-----------------------------------------------------------------------------
(* The tables keep their types. *)
LEMMA TablesKeepTypes ==
  ASSUME IInv, [Next]_vars
  PROVE  /\ pool' \subseteq Models
         /\ default' \in {NoDefault} \cup Default
         /\ unable' \subseteq Models
         /\ registered' \subseteq Models
         /\ abandoned' \in BOOLEAN
         /\ strays' \subseteq pool' \cap unable'
<1> USE DEF IInv, TypeOK
<1>1. ASSUME NEW h \in Handlers, Advance(h)
      PROVE  /\ pool' \subseteq Models /\ default' \in {NoDefault} \cup Default
             /\ strays' \subseteq pool' \cap unable'
             /\ UNCHANGED Outside
  <2> USE DEF World, Outside
  <2>1. CASE Promote(h)
    BY <2>1, Rows DEF Promote, Sound
  <2>2. CASE CreditWrite(h)
    <3>1. 0 \in 0 .. RevokeAfter
      BY PoolsAreBounded
    <3> QED
      BY <2>2, <3>1, Rows DEF CreditWrite
  <2>3. CASE BlameWrite(h)
    BY <2>3, Rows DEF BlameWrite
  <2>4. CASE Insert(h)
    <3>1. task[h].model \in Models
      BY <2>4, Busy DEF Insert, Task
    <3> QED
      BY <2>4, <3>1 DEF Insert
  <2>5. CASE Evict(h) \/ Revoke(h) \/ RemoveClear(h) \/ Remove(h) \/ Drop(h)
    BY <2>5 DEF Evict, Revoke, RemoveClear, Remove, Drop
  <2>6. CASE ReadEntries(h) \/ ReadDefaultIds(h) \/ Check(h) \/ Credit(h) \/ Arbitrate(h)
               \/ Rank(h) \/ Blame(h) \/ RemoveIds(h)
    BY <2>6 DEF ReadEntries, ReadDefaultIds, Check, Credit, Arbitrate, Rank, Blame, RemoveIds
  <2> QED
    BY <1>1, <2>1, <2>2, <2>3, <2>4, <2>5, <2>6 DEF Advance
       , Promote, CreditWrite, BlameWrite, Insert
<1>2. ASSUME NEW h \in Handlers, Start(h)
      PROVE  /\ pool' \subseteq Models /\ strays' \subseteq pool' \cap unable'
             /\ UNCHANGED <<default, Outside>>
  BY <1>2 DEF Start, RateGood, Join, RatePoor, ManualAdd, ManualRemove, Lookup, World, Outside
<1>3. ASSUME NEW h \in Handlers, Die(h)
      PROVE  /\ abandoned' \in BOOLEAN /\ strays' \subseteq pool' \cap unable'
             /\ UNCHANGED <<pool, default, unable, registered>>
  BY <1>3 DEF Die
<1>4. ASSUME NEW h \in Handlers, NEW m \in Models, Override(h, m)
      PROVE  default' \in Default /\ UNCHANGED <<pool, World>>
  BY <1>4, Rows DEF Override
<1>5. ASSUME NEW m \in Models, GoesDown(m) \/ ComesBack(m) \/ RegistryChanges(m)
      PROVE  /\ pool' \subseteq Models /\ unable' \subseteq Models
             /\ registered' \subseteq Models /\ strays' \subseteq pool' \cap unable'
             /\ UNCHANGED <<default, abandoned>>
  BY <1>5 DEF GoesDown, ComesBack, RegistryChanges
<1>6. ASSUME UNCHANGED vars
      PROVE  UNCHANGED <<pool, default, unable, registered, abandoned, strays>>
  BY <1>6 DEF vars
<1>7. CASE Next
  BY <1>1, <1>2, <1>3, <1>4, <1>5, <1>7, ModelsAreKnown DEF Next, World, Outside
<1>8. CASE UNCHANGED vars
  BY <1>6, <1>8
<1> QED
  BY <1>7, <1>8

(* Nothing is under way at first. *)
LEMMA InitHolds == Init => IInv
<1> SUFFICES ASSUME Init PROVE IInv
  OBVIOUS
<1>1. \A h : Sound(h, Idle)
  BY DEF Sound, Idle
<1>2. task \in [Handlers -> {Idle} \cup Task] /\ \A h \in Handlers : task[h] = Idle
  BY Zenon DEF Init
<1>3. \A h \in Handlers : Sound(h, task[h])
  BY <1>1, <1>2, Zenon
<1> QED
  BY <1>2, <1>3, Zenon DEF Init, IInv, TypeOK

(* The slot of the request that moved is the only one to change. *)
LEMMA StepKeeps ==
  ASSUME IInv, [Next]_vars
  PROVE  IInv'
<1> DEFINE TaskOK == task' \in [Handlers -> {Idle} \cup Task]
                       /\ \A h \in Handlers : Sound(h, task'[h])
<1>1. ASSUME NEW h \in Handlers, Written(h) PROVE TaskOK
  <2>1. PICK u \in {Idle} \cup Task : task' = [task EXCEPT ![h] = u] /\ Sound(h, u)
    BY <1>1, Zenon DEF Written
  <2>2. /\ task' \in [Handlers -> {Idle} \cup Task]
        /\ task'[h] = u
        /\ \A g \in Handlers \ {h} : task'[g] = task[g]
    BY <2>1, SlotWritten DEF IInv
  <2> QED
    BY <2>1, <2>2, Zenon DEF IInv
<1>2. ASSUME UNCHANGED task PROVE TaskOK
  BY <1>2, Zenon DEF IInv, TypeOK
<1>3. TaskOK
  <2>1. CASE \E h \in Handlers : Start(h) \/ Advance(h)
    BY <1>1, <2>1, StartWrites, AdvanceWrites
  <2>2. ASSUME NEW h \in Handlers, Die(h) PROVE TaskOK
    <3>1. Sound(h, Idle)
      BY DEF Sound, Idle
    <3> QED
      BY <1>1, <2>2, <3>1, Zenon DEF Die, Return, Written
  <2>3. CASE UNCHANGED task
    BY <1>2, <2>3
  <2> QED
    BY <2>1, <2>2, <2>3 DEF Next, Override, GoesDown, ComesBack, RegistryChanges, vars
<1> QED
  BY <1>3, TablesKeepTypes, Zenon DEF IInv, TypeOK, Sound

(* The invariant holds throughout. *)
LEMMA Inductive == Spec => []IInv
BY InitHolds, StepKeeps, PTL DEF Spec

(* Requests, rows and the pool have their types: what is promoted is a     *)
(* model, never the empty hand of a ranking without candidates.            *)
THEOREM TypeCorrect == Spec => []TypeOK
<1>1. IInv => TypeOK
  BY DEF IInv
<1> QED
  BY <1>1, Inductive, PTL

-----------------------------------------------------------------------------
(* A request's transaction leaves the slots of the others alone. *)
LEMMA OthersAreLeft ==
  ASSUME IInv, NEW h \in Handlers, Start(h) \/ Advance(h) \/ Die(h), NEW g \in Handlers \ {h}
  PROVE  task'[g] = task[g]
<1>1. Start(h) \/ Advance(h) => Written(h)
  BY StartWrites, AdvanceWrites
<1>2. Written(h) => task'[g] = task[g]
  BY SlotWritten, Zenon DEF IInv, Written
<1>3. Die(h) => task'[g] = task[g]
  BY Zenon DEF Die, Return, IInv, TypeOK
<1> QED
  BY <1>1, <1>2, <1>3

(* The operators that have found room and are about to insert. *)
Adders == {h \in Handlers : task[h].pc = "insert"}

LEMMA AddersAreOperators ==
  ASSUME IInv, IsFiniteSet(Operators)
  PROVE  /\ Adders \subseteq Operators
         /\ IsFiniteSet(Adders)
         /\ Cardinality(Adders) \in Nat /\ Cardinality(Operators) \in Nat
         /\ Cardinality(Adders) <= Cardinality(Operators)
<1>1. Adders \subseteq Operators
  BY DEF Adders, IInv, Sound
<1> QED
  BY <1>1, FS_Subset, FS_CardinalityType

LEMMA PoolIsFinite ==
  ASSUME IInv
  PROVE  IsFiniteSet(pool) /\ Cardinality(pool) \in Nat /\ PoolMaxSize \in Nat
BY ModelsAreFinite, PoolsAreBounded, FS_Subset, FS_CardinalityType DEF IInv, TypeOK

(* Making room and filling it is one transaction: it leaves the pool below *)
(* the maximum, or no larger than it was.                                  *)
LEMMA JoiningKeepsTheSize ==
  ASSUME IInv, NEW m \in Models, Join(m)
  PROVE  Cardinality(pool') <= PoolMaxSize \/ Cardinality(pool') <= Cardinality(pool)
<1>1. CASE Cardinality(pool) < PoolMaxSize /\ pool' = pool \cup {m}
  BY <1>1, PoolIsFinite, FS_AddElement
<1>2. ASSUME NEW victim \in pool, pool' = (pool \ {victim}) \cup {m}
      PROVE  Cardinality(pool') <= Cardinality(pool)
  <2> DEFINE rest == pool \ {victim}
  <2>1. IsFiniteSet(rest) /\ Cardinality(rest) = Cardinality(pool) - 1
    BY PoolIsFinite, FS_RemoveElement
  <2>2. pool' = rest \cup {m}
    BY <1>2
  <2> HIDE DEF rest
  <2>3. \/ Cardinality(rest \cup {m}) = Cardinality(rest)
        \/ Cardinality(rest \cup {m}) = Cardinality(rest) + 1
    BY <2>1, FS_AddElement
  <2> QED
    BY <2>1, <2>2, <2>3, PoolIsFinite
<1>3. CASE UNCHANGED pool
  BY <1>3, PoolIsFinite
<1> QED
  BY <1>1, <1>2, <1>3 DEF Join

(* A step leaves the pool within its maximum, or no larger and without a   *)
(* new adder, or one adder adds one model and is done.                     *)
LEMMA PoolGrows ==
  ASSUME IInv, [Next]_vars
  PROVE  \/ Cardinality(pool') <= PoolMaxSize
         \/ Cardinality(pool') <= Cardinality(pool) /\ Adders' \subseteq Adders
         \/ \E h \in Adders, m \in Models :
              pool' = pool \cup {m} /\ Adders' = Adders \ {h}
<1> DEFINE Within == Cardinality(pool') <= PoolMaxSize
           Shrinks == Cardinality(pool') <= Cardinality(pool) /\ Adders' \subseteq Adders
<1>1. ASSUME pool' \subseteq pool PROVE Cardinality(pool') <= Cardinality(pool)
  BY <1>1, PoolIsFinite, FS_Subset
<1>2. ASSUME UNCHANGED task PROVE Adders' = Adders
  BY <1>2 DEF Adders
<1>3. ASSUME NEW h \in Handlers, Start(h) \/ Advance(h) \/ Die(h), task'[h].pc # "insert"
      PROVE  Adders' = Adders \ {h}
  BY <1>3, OthersAreLeft DEF Adders
<1>4. ASSUME NEW h \in Handlers, NEW pc \in {"entries", "remove_ids"},
             NEW m, NEW good, task' = [task EXCEPT ![h] = Request(pc, m, good)]
      PROVE  task'[h].pc # "insert"
  <2>1. task'[h] = Request(pc, m, good)
    BY <1>4, Zenon DEF IInv, TypeOK
  <2> QED
    BY <2>1 DEF Request
<1>5. ASSUME NEW h \in Handlers, Start(h) PROVE Within \/ Shrinks
  <2>2. ASSUME NEW m \in Models, RateGood(h, m) PROVE Within \/ Shrinks
    <3>1. task'[h].pc # "insert"
      BY <1>4, <2>2 DEF RateGood
    <3>2. Adders' \subseteq Adders
      BY <1>3, <1>5, <3>1
    <3>3. CASE UNCHANGED pool
      BY <1>1, <3>2, <3>3
    <3>4. CASE Join(m)
      BY <3>2, <3>4, JoiningKeepsTheSize
    <3> QED
      BY <2>2, <3>3, <3>4 DEF RateGood
  <2>3. ASSUME NEW m \in Models, RatePoor(h, m) \/ ManualRemove(h, m)
        PROVE  Shrinks
    <3>1. task'[h].pc # "insert" /\ UNCHANGED pool
      BY <1>4, <2>3 DEF RatePoor, ManualRemove
    <3> QED
      BY <1>1, <1>3, <1>5, <3>1
  <2>4. ASSUME NEW m \in Models, ManualAdd(h, m) PROVE Within
    BY <2>4, PoolIsFinite DEF ManualAdd
  <2>5. ASSUME NEW d \in Domains, Lookup(h, d) PROVE Shrinks
    <3>1. default.model \in Models
      BY <2>5 DEF Lookup, IInv, TypeOK, Default
    <3> DEFINE u == [Request("drop", default.model, FALSE) EXCEPT !.domain = d]
    <3>2. u.pc = "drop"
      <4>1. "drop" \in Steps
        BY DEF Steps
      <4> QED
        BY <2>5, <3>1, <4>1, Requested
    <3>3. task'[h] = u
      BY <2>5, Zenon DEF Lookup, IInv, TypeOK
    <3>4. task'[h].pc # "insert" /\ UNCHANGED pool
      BY <2>5, <3>2, <3>3 DEF Lookup
    <3> QED
      BY <1>1, <1>3, <1>5, <3>4
  <2> QED
    BY <1>5, <2>2, <2>3, <2>4, <2>5 DEF Start
<1>6. ASSUME NEW h \in Handlers, Insert(h)
      PROVE  \E g \in Adders, m \in Models :
               pool' = pool \cup {m} /\ Adders' = Adders \ {g}
  <2>1. h \in Adders /\ pool' = pool \cup {task[h].model}
    BY <1>6 DEF Insert, Adders
  <2>2. task[h].model \in Models
    BY <1>6, Busy DEF Insert, IInv, Task
  <2>3. task'[h] = Idle
    BY <1>6, Zenon DEF Insert, Return, IInv, TypeOK
  <2>4. Adders' = Adders \ {h}
    BY <1>3, <1>6, <2>3 DEF Advance, Idle
  <2> QED
    BY <2>1, <2>2, <2>4
<1>7. ASSUME NEW h \in Handlers, Advance(h), ~Insert(h) PROVE Shrinks
  <2>1. task'[h].pc # "insert"
    BY <1>7, AdvanceMoves, SlotWritten DEF Advanced, IInv
  <2>2. pool' \subseteq pool
    BY <1>7 DEF Advance, ReadEntries, ReadDefaultIds, Check, Evict, Credit,
       CreditWrite, Arbitrate, Rank, Promote, Blame, BlameWrite, Revoke,
       RemoveIds, RemoveClear, Remove, Drop
  <2> QED
    BY <1>1, <1>3, <1>7, <2>1, <2>2
<1>8. ASSUME NEW h \in Handlers, Die(h) PROVE Shrinks
  <2>1. task'[h] = Idle /\ UNCHANGED pool
    BY <1>8, Zenon DEF Die, Return, IInv, TypeOK
  <2> QED
    BY <1>1, <1>3, <1>8, <2>1 DEF Idle
<1>9. CASE \/ \E h \in Handlers, m \in Models : Override(h, m)
           \/ \E m \in Models : GoesDown(m) \/ ComesBack(m) \/ RegistryChanges(m)
           \/ UNCHANGED vars
  <2>1. pool' \subseteq pool /\ UNCHANGED task
    BY <1>9 DEF Override, GoesDown, ComesBack, RegistryChanges, vars
  <2> QED
    BY <1>1, <1>2, <2>1
<1> QED
  BY <1>5, <1>6, <1>7, <1>8, <1>9, ModelsAreKnown DEF Next

(* Whoever adds has found room once, and others may have taken it since:   *)
(* the pool and the adders together stay within what all operators may add *)
(* to a full pool.                                                         *)
Excess == Cardinality(pool) + Cardinality(Adders) <= PoolMaxSize + Cardinality(Operators)

LEMMA ExcessStep ==
  ASSUME IInv, IInv', IsFiniteSet(Operators), Excess, [Next]_vars
  PROVE  Excess'
<1>1. /\ Cardinality(pool) \in Nat /\ Cardinality(pool') \in Nat
      /\ PoolMaxSize \in Nat /\ Cardinality(Operators) \in Nat
      /\ Cardinality(Adders) \in Nat /\ Cardinality(Adders') \in Nat
      /\ Cardinality(Adders') <= Cardinality(Operators)
  <2>1. /\ IsFiniteSet(pool') /\ Adders' \subseteq Operators
    BY ModelsAreFinite, FS_Subset DEF IInv, TypeOK, Adders, Sound
  <2> QED
    BY <2>1, PoolIsFinite, AddersAreOperators, FS_Subset, FS_CardinalityType
<1>2. CASE Cardinality(pool') <= PoolMaxSize
  BY <1>1, <1>2 DEF Excess
<1>3. CASE Cardinality(pool') <= Cardinality(pool) /\ Adders' \subseteq Adders
  <2>1. Cardinality(Adders') <= Cardinality(Adders)
    BY <1>3, AddersAreOperators, FS_Subset
  <2> QED
    BY <1>1, <1>3, <2>1 DEF Excess
<1>4. ASSUME NEW h \in Adders, NEW m \in Models,
             pool' = pool \cup {m}, Adders' = Adders \ {h}
      PROVE  Excess'
  <2>1. Cardinality(pool') <= Cardinality(pool) + 1
    <3>1. Cardinality(pool \cup {m}) \in {Cardinality(pool), Cardinality(pool) + 1}
      BY PoolIsFinite, FS_AddElement
    <3> QED
      BY <1>1, <1>4, <3>1
  <2>2. Cardinality(Adders') = Cardinality(Adders) - 1
    BY <1>4, AddersAreOperators, FS_RemoveElement
  <2> QED
    BY <1>1, <2>1, <2>2 DEF Excess
<1> QED
  BY <1>2, <1>3, <1>4, PoolGrows

(* The pool is counted outside the transaction that inserts, so the add    *)
(* channel may overshoot POOL_MAX_SIZE, but by no more than one model for  *)
(* every operator that may be at it at once.                               *)
THEOREM OvershootIsBounded ==
  ASSUME IsFiniteSet(Operators)
  PROVE  Spec => [](Cardinality(pool) <= PoolMaxSize + Cardinality(Operators))
<1>1. Init => Excess
  <2> SUFFICES ASSUME Init PROVE Excess
    OBVIOUS
  <2>1. \A h \in Handlers : task[h].pc # "insert"
    BY Zenon DEF Init, Idle
  <2>2. pool = {} /\ Adders = {}
    BY <2>1 DEF Init, Adders
  <2> QED
    BY <2>2, PoolsAreBounded, FS_EmptySet, FS_CardinalityType DEF Excess
<1>2. IInv /\ IInv' /\ Excess /\ [Next]_vars => Excess'
  BY ExcessStep
<1>3. IInv /\ Excess => Cardinality(pool) <= PoolMaxSize + Cardinality(Operators)
  BY PoolIsFinite, AddersAreOperators DEF Excess
<1> QED
  BY <1>1, <1>2, <1>3, Inductive, PTL DEF Spec

(* While nobody uses the add channel, the pool does not outgrow            *)
(* POOL_MAX_SIZE, however many ratings make room and fill it.              *)
THEOREM AutomaticChannelIsBounded ==
  ASSUME Operators = {}
  PROVE  Spec => []PoolBounded
<1>1. IsFiniteSet(Operators) /\ Cardinality(Operators) = 0
  BY FS_EmptySet
<1>2. Spec => [](Cardinality(pool) <= PoolMaxSize + Cardinality(Operators))
  BY <1>1, OvershootIsBounded
<1>3. Cardinality(pool) <= PoolMaxSize + Cardinality(Operators) => PoolBounded
  BY <1>1, PoolsAreBounded DEF PoolBounded
<1> QED
  BY <1>2, <1>3, PTL

(* Whoever holds the default's place when a good rating makes room stays   *)
(* in the pool: victims are looked for among the others, in the same       *)
(* transaction.                                                            *)
THEOREM DefaultsSurviveTheRush == Spec => RoomSparesDefault
<1>1. ASSUME NEW h \in Handlers, NEW m \in Models, RateGood(h, m)
      PROVE  DefaultIds \cap pool \subseteq pool'
  BY <1>1 DEF RateGood, Join
<1>2. [Next]_vars =>
        [\A h \in Handlers, m \in Models :
           RateGood(h, m) => DefaultIds \cap pool \subseteq pool']_vars
  BY <1>1, Zenon
<1> QED
  BY <1>2, PTL DEF Spec, RoomSparesDefault

-----------------------------------------------------------------------------
(* Whoever counts the failure that revokes the default goes on to revoke   *)
(* it; only its death leaves a failed default in place.                    *)
THEOREM FailedDefaultsAreGoing == Spec => []FailedDefaultIsGoing
<1> DEFINE Failed == default # NoDefault /\ default.consecutive_fail >= RevokeAfter
           Going == abandoned \/ \E h \in Handlers : task[h].pc = "revoke"
<1>1. Init => FailedDefaultIsGoing
  BY DEF Init, FailedDefaultIsGoing
<1>2. ASSUME IInv, FailedDefaultIsGoing, [Next]_vars PROVE FailedDefaultIsGoing'
  <2> USE DEF IInv
  <2> SUFFICES ASSUME Failed' PROVE Going'
    BY DEF FailedDefaultIsGoing
  <2>1. Failed /\ UNCHANGED default => Going
    BY <1>2 DEF FailedDefaultIsGoing
  <2>2. \A m \in Models : \A b \in BOOLEAN : default' # Fresh(m, b)
    BY Rows, PoolsAreBounded
  <2>3. ASSUME NEW h \in Handlers, Start(h) \/ Advance(h) \/ Die(h), Going,
               abandoned => abandoned', task[h].pc = "revoke" => abandoned'
        PROVE  Going'
    BY <1>2, <2>3, OthersAreLeft
  <2>4. ASSUME NEW h \in Handlers, Advance(h) PROVE Going'
    <3>1. CASE Promote(h)
      BY <1>2, <2>2, <3>1 DEF Promote, Sound
    <3>2. CASE Revoke(h) \/ RemoveClear(h)
      BY <3>2 DEF Revoke, RemoveClear
    <3>3. CASE CreditWrite(h)
      <4>1. RevokeAfter \in Nat /\ 0 < RevokeAfter
        BY PoolsAreBounded
      <4>2. default' = NoDefault => FALSE
        OBVIOUS
      <4>3. default \in {NoDefault} \cup Default
        BY <1>2 DEF TypeOK
      <4>4. default \in Default /\ default' = [default EXCEPT !.consecutive_fail = 0]
        BY <3>3, <4>2, <4>3, Zenon DEF CreditWrite
      <4>5. default'.consecutive_fail = 0
        BY <4>4 DEF Default
      <4> QED
        BY <4>1, <4>5
    <3>4. CASE BlameWrite(h)
      <4>1. Goto(h, "revoke")
        BY <3>4 DEF BlameWrite
      <4>2. task[h].pc # "idle" /\ "revoke" \in Steps
        BY <3>4 DEF BlameWrite, Steps
      <4>3. task[h] \in Task
        BY <1>2, <4>2, Busy
      <4>4. task' = [task EXCEPT ![h] = [task[h] EXCEPT !.pc = "revoke"]]
        BY <1>2, <4>1, <4>2, GotoWrites
      <4>5. task'[h] = [task[h] EXCEPT !.pc = "revoke"]
        BY <1>2, <4>4, Zenon DEF TypeOK
      <4> QED
        BY <4>2, <4>3, <4>5, Moved
    <3>5. CASE \/ ReadEntries(h) \/ ReadDefaultIds(h) \/ Check(h) \/ Evict(h) \/ Credit(h)
               \/ Arbitrate(h) \/ Rank(h) \/ Blame(h) \/ Insert(h) \/ RemoveIds(h)
               \/ Remove(h) \/ Drop(h)
      <4>1. UNCHANGED <<default, abandoned>> /\ task[h].pc # "revoke"
        BY <3>5 DEF ReadEntries, ReadDefaultIds, Check, Evict, Credit, Arbitrate, Rank,
           Blame, Insert, RemoveIds, Remove, Drop, World, Outside
      <4> QED
        BY <2>1, <2>3, <2>4, <4>1
    <3> QED
      BY <2>4, <3>1, <3>2, <3>3, <3>4, <3>5 DEF Advance
  <2>5. ASSUME NEW h \in Handlers, Start(h) PROVE Going'
    <3>1. UNCHANGED <<default, abandoned>> /\ task[h] = Idle
      BY <2>5 DEF Start, RateGood, RatePoor, ManualAdd, ManualRemove, Lookup, World, Outside
    <3> QED
      BY <2>1, <2>3, <2>5, <3>1 DEF Idle
  <2>6. ASSUME NEW h \in Handlers, Die(h) PROVE Going'
    BY <2>1, <2>3, <2>6 DEF Die
  <2>7. ASSUME UNCHANGED <<default, task, abandoned>> PROVE Going'
    BY <2>1, <2>7
  <2>8. ASSUME NEW h \in Handlers, NEW m \in Models, Override(h, m) PROVE FALSE
    BY <2>2, <2>8 DEF Override
  <2>9. CASE \E m \in Models : GoesDown(m) \/ ComesBack(m) \/ RegistryChanges(m)
    BY <2>7, <2>9 DEF GoesDown, ComesBack, RegistryChanges
  <2>10. CASE UNCHANGED vars
    BY <2>7, <2>10 DEF vars
  <2> QED
    BY <1>2, <2>4, <2>5, <2>6, <2>8, <2>9, <2>10, ModelsAreKnown DEF Next
<1> QED
  BY <1>1, <1>2, Inductive, PTL DEF Spec

-----------------------------------------------------------------------------
(* The end of the check leaves nothing to look at, and an entry that was   *)
(* looked at leaves the others.                                            *)
LEMMA StillToCheck ==
  /\ ToCheck(Idle) = {}
  /\ \A t \in Task : t.pc \notin {"entries", "default_ids", "check", "evict", "expire"} => ToCheck(t) = {}
  /\ \A t \in Task, rest \in SUBSET Models : ToCheck(Checked(t, rest)) = rest
<1>1. ASSUME NEW t \in Task, NEW rest \in SUBSET Models PROVE ToCheck(Checked(t, rest)) = rest
  <2>1. /\ Checked(t, rest) \in Task /\ Checked(t, rest).todo = rest
        /\ rest # {} => Checked(t, rest).pc = "check"
        /\ rest = {} => Checked(t, rest).pc \in {"credit", "blame"}
    BY CheckedMoves
  <2> QED
    BY <2>1 DEF ToCheck
<1> QED
  BY <1>1 DEF ToCheck, Idle

(* The members that have gone down and are in the pool again are on their  *)
(* way out, for any number of ratings, removals, overrides and deaths: the *)
(* check of the rating that put them back takes them along.                *)
THEOREM UnableMembersGo == Spec => []UnableMembersAreGoing
<1>1. Init => UnableMembersAreGoing
  BY DEF Init, UnableMembersAreGoing
<1>2. ASSUME IInv, IInv', UnableMembersAreGoing, [Next]_vars PROVE UnableMembersAreGoing'
  <2> USE DEF IInv
  <2> SUFFICES ASSUME NEW m \in pool' \cap unable'
               PROVE  m \in strays' \/ \E g \in Handlers : m \in ToCheck(task'[g])
    BY DEF UnableMembersAreGoing, ToCheck
  <2> DEFINE Goal == m \in strays' \/ \E g \in Handlers : m \in ToCheck(task'[g])
  <2>1. m \in Models /\ pool \subseteq Models
    BY <1>2 DEF TypeOK
  <2>2. m \in pool \cap unable => m \in strays \/ \E g \in Handlers : m \in ToCheck(task[g])
    BY <1>2 DEF UnableMembersAreGoing
  <2>3. ASSUME NEW h \in Handlers, Start(h) \/ Advance(h) \/ Die(h), m \in pool \cap unable,
               m \in strays => m \in strays',
               m \in ToCheck(task[h]) => m \in ToCheck(task'[h]) \cup strays'
        PROVE  Goal
    BY <1>2, <2>2, <2>3, OthersAreLeft
  <2>4. ASSUME NEW h \in Handlers, Start(h) PROVE Goal
    <3>1. task[h] = Idle
      BY <2>4 DEF Start, RateGood, RatePoor, ManualAdd, ManualRemove, Lookup
    <3>2. ASSUME NEW model \in Models, RateGood(h, model) PROVE Goal
      <4>1. task'[h] = Request("entries", model, TRUE)
        BY <1>2, <3>2, Zenon DEF RateGood, TypeOK
      <4>2. m \in ToCheck(task'[h])
        BY <2>1, <4>1 DEF ToCheck, Request
      <4> QED
        BY <4>2
    <3>3. CASE UNCHANGED <<pool, World>>
      BY <2>3, <2>4, <3>1, <3>3, StillToCheck DEF World, Outside
    <3> QED
      BY <2>4, <3>2, <3>3 DEF Start, RatePoor, ManualAdd, ManualRemove, Lookup
  <2>5. ASSUME NEW h \in Handlers, Advance(h) PROVE Goal
    <3>1. task[h] \in Task
      BY <1>2, <2>5, Busy DEF Advance, ReadEntries, ReadDefaultIds, Check, Evict, Credit,
         CreditWrite, Arbitrate, Rank, Promote, Blame, BlameWrite, Revoke,
         Insert, RemoveIds, RemoveClear, Remove, Drop
    <3>2. task[h].todo \in SUBSET Models /\ DefaultIds \in SUBSET Models
      BY <1>2, <3>1 DEF Task, TypeOK, DefaultIds, Default
    <3>3. ASSUME NEW t \in Task, NEW rest \in SUBSET Models, m \in pool \cap unable, UNCHANGED World,
                 task' = [task EXCEPT ![h] = Checked(t, rest)],
                 m \in ToCheck(task[h]) => m \in rest
          PROVE  Goal
      <4>1. task'[h] = Checked(t, rest)
        BY <1>2, <3>3, Zenon DEF TypeOK
      <4> QED
        BY <2>3, <2>5, <3>3, <4>1, StillToCheck DEF World
    <3>4. CASE ReadEntries(h)
      <4>1. task' = [task EXCEPT ![h] = [task[h] EXCEPT !.pc = "default_ids", !.todo = pool]]
        BY <1>2, <3>4, Zenon DEF ReadEntries, TypeOK
      <4>2. task'[h].pc = "default_ids" /\ task'[h].todo = pool
        BY <1>2, <3>1, <4>1 DEF TypeOK, Task
      <4> QED
        BY <3>4, <4>2 DEF ReadEntries, ToCheck
    <3>5. CASE ReadDefaultIds(h)
      <4> DEFINE t == [task[h] EXCEPT !.ids = DefaultIds]
      <4>1. t \in Task /\ task' = [task EXCEPT ![h] = Checked(t, task[h].todo)]
        BY <1>2, <3>1, <3>2, <3>5, Zenon DEF ReadDefaultIds, TypeOK, Task
      <4> HIDE DEF t
      <4> QED
        BY <3>2, <3>3, <3>5, <4>1 DEF ReadDefaultIds, ToCheck, World, Outside
    <3>6. CASE Check(h)
      <4>1. PICK entry \in task[h].todo :
              \/ task' = [task EXCEPT ![h].pc = "evict", ![h].peer = entry]
              \/ task' = [task EXCEPT ![h].pc = "expire", ![h].peer = entry]
              \/ entry \notin unable /\ task' = [task EXCEPT ![h] = Checked(task[h], task[h].todo \ {entry})]
        BY <1>2, <3>6, Zenon DEF Check, TypeOK
      <4>2. ToCheck(task[h]) = task[h].todo /\ m \in pool \cap unable /\ UNCHANGED World
        BY <3>6 DEF Check, ToCheck, World, Outside
      <4>3. ASSUME NEW pc \in {"evict", "expire"}, task' = [task EXCEPT ![h].pc = pc, ![h].peer = entry]
            PROVE  Goal
        <5>1. task'[h].pc = pc /\ task'[h].todo = task[h].todo
          BY <1>2, <3>1, <4>3 DEF TypeOK, Task
        <5> QED
          BY <2>3, <2>5, <4>2, <5>1 DEF ToCheck, World
      <4>4. CASE entry \notin unable /\ task' = [task EXCEPT ![h] = Checked(task[h], task[h].todo \ {entry})]
        <5> DEFINE rest == task[h].todo \ {entry}
        <5>1. rest \in SUBSET Models /\ (m \in ToCheck(task[h]) => m \in rest)
          BY <3>2, <4>2, <4>4
        <5>2. task' = [task EXCEPT ![h] = Checked(task[h], rest)]
          BY <4>4
        <5> HIDE DEF rest
        <5> QED
          BY <3>1, <3>3, <4>2, <5>1, <5>2
      <4> QED
        BY <4>1, <4>3, <4>4
    <3>7. CASE Evict(h)
      <4> DEFINE rest == task[h].todo \ {task[h].peer}
      <4>1. task' = [task EXCEPT ![h] = Checked(task[h], rest)] /\ rest \in SUBSET Models
        BY <1>2, <3>2, <3>7, Zenon DEF Evict, TypeOK
      <4>2. task'[h] = Checked(task[h], rest)
        BY <1>2, <4>1, Zenon DEF TypeOK
      <4>3. ToCheck(task'[h]) = rest /\ ToCheck(task[h]) = task[h].todo
        BY <3>1, <3>7, <4>1, <4>2, StillToCheck DEF Evict, ToCheck
      <4>4. m # task[h].peer /\ m \in pool \cap unable /\ (m \in strays => m \in strays')
        BY <3>7 DEF Evict, Outside
      <4> QED
        BY <2>3, <2>5, <4>3, <4>4
    <3>8. CASE Insert(h)
      <4>1. /\ pool' = pool \cup {task[h].model} /\ unable' = unable
            /\ strays' = strays \cup ({task[h].model} \cap unable)
        BY <3>8 DEF Insert, Outside
      <4>2. ToCheck(task[h]) = {}
        BY <3>1, <3>8, StillToCheck DEF Insert
      <4>3. CASE m = task[h].model
        BY <4>1, <4>3
      <4>4. CASE m \in pool
        <5>1. m \in pool \cap unable /\ (m \in strays => m \in strays')
          BY <4>1, <4>4
        <5> QED
          BY <2>3, <2>5, <4>2, <5>1
      <4> QED
        BY <4>1, <4>3, <4>4
    <3>9. CASE Remove(h)
      <4>1. ToCheck(task[h]) = {} /\ m \in pool \cap unable /\ (m \in strays => m \in strays')
        BY <3>1, <3>9, StillToCheck DEF Remove, Outside
      <4> QED
        BY <2>3, <2>5, <4>1
    <3>10. CASE \/ Credit(h) \/ CreditWrite(h) \/ Arbitrate(h) \/ Rank(h) \/ Promote(h)
                \/ Blame(h) \/ BlameWrite(h) \/ Revoke(h)
                \/ RemoveIds(h) \/ RemoveClear(h) \/ Drop(h)
      <4>1. /\ UNCHANGED <<pool, World>>
            /\ task[h].pc \notin {"entries", "default_ids", "check", "evict", "expire"}
        BY <3>10 DEF Credit, CreditWrite, Arbitrate, Rank, Promote, Blame, BlameWrite, Revoke,
           RemoveIds, RemoveClear, Drop
      <4>2. ToCheck(task[h]) = {} /\ m \in pool \cap unable /\ strays' = strays
        BY <3>1, <4>1, StillToCheck DEF World, Outside
      <4> QED
        BY <2>3, <2>5, <4>2
    <3> QED
      BY <2>5, <3>4, <3>5, <3>6, <3>7, <3>8, <3>9, <3>10 DEF Advance
  <2>6. ASSUME NEW h \in Handlers, Die(h) PROVE Goal
    BY <2>3, <2>6 DEF Die
  <2>7. ASSUME UNCHANGED task, m \in pool \cap unable, m \in strays => m \in strays' PROVE Goal
    BY <2>2, <2>7
  <2>8. CASE \/ \E h \in Handlers, model \in Models : Override(h, model)
             \/ UNCHANGED vars
    BY <2>7, <2>8 DEF Override, World, Outside, vars
  <2>9. ASSUME NEW model \in Models, GoesDown(model) \/ ComesBack(model) \/ RegistryChanges(model)
        PROVE  Goal
    BY <2>7, <2>9 DEF GoesDown, ComesBack, RegistryChanges
  <2> QED
    BY <1>2, <2>4, <2>5, <2>6, <2>8, <2>9, ModelsAreKnown DEF Next
<1> QED
  BY <1>1, <1>2, Inductive, PTL DEF Spec
=============================================================================
