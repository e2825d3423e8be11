-------------------------- MODULE ModelReportsProofs --------------------------
(***************************************************************************)
(* Theorems about ModelReports for any callers, providers, listings,       *)
(* allow-lists and limits, and any threads, sellers and categories.  Each  *)
(* part has an inductive invariant of its own; the last section puts them  *)
(* together.                                                               *)
(***************************************************************************)
EXTENDS ModelReports, FiniteSetTheorems, WellFoundedInduction, TLAPS

USE BoundsAreNumbers

-----------------------------------------------------------------------------
(* RegistrySync: the inductive invariant.                                  *)

Younger(a) == {b \in committed : b > a}

(* Stamps are given once and committed once. *)
StampsAreUnique ==
  /\ committed \subseteq 1 .. clock
  /\ newestGood \in committed \cup {R!Never}
  /\ \A p \in Providers : sync[p].success \in committed \cup {R!Never}
  /\ \A c \in Callers : R!At(c, "save") => call[c].at \in (1 .. clock) \ committed
  /\ \A c, d \in Callers : R!At(c, "save") /\ R!At(d, "save") /\ c # d => call[c].at # call[d].at

(* What is kept of the snapshots committed: the KeepHistory youngest. *)
YoungestAreKept ==
  /\ \A s \in snaps : s.at \in committed
  /\ \A s, t \in snaps : s.at = t.at => s = t
  /\ \A s \in snaps : s.at = newestGood => s.models # {}
  /\ \A a \in committed : Cardinality(Younger(a)) < KeepHistory => \E s \in snaps : s.at = a

(* Barred models are kept out by the allow-list of now, and by the one a   *)
(* call has given its adapters.                                            *)
BarredStayOut ==
  \A c \in Callers :
    /\ barred[c] \subseteq R!RelayModels \ R!Permitted(R!RelayModels, allow)
    /\ R!At(c, "listing") => barred[c] \cap R!Permitted(R!RelayModels, call[c].list) = {}
    /\ R!At(c, "save") => barred[c] \cap call[c].models = {}

RegistryInv ==
  /\ R!TypeOK /\ StampsAreUnique /\ YoungestAreKept /\ BarredStayOut
  /\ R!SyncStateTellsTheLast /\ R!BarredNeverServed

-----------------------------------------------------------------------------
(* Sets of stamps.                                                         *)

LEMMA CountsAgree == \A S : R!Cardinality(S) = Cardinality(S)
BY DEF R!Cardinality, Cardinality

LEMMA WhatIsPruned ==
  \A S : R!Pruned(S) = {s \in S : Cardinality({r \in S : r.at > s.at}) < KeepHistory}
BY CountsAgree DEF R!Pruned

LEMMA StampsAreFinite ==
  /\ IsFiniteSet(R!Stamps)
  /\ \A S \in SUBSET R!Stamps : IsFiniteSet(S) /\ Cardinality(S) \in Nat
<1>1. IsFiniteSet(R!Stamps)
  BY FS_Interval DEF R!Stamps
<1> QED
  BY <1>1, FS_Subset, FS_CardinalityType

(* Of things with stamps of their own there are no more than stamps. *)
LEMMA StampedSets ==
  ASSUME NEW S, NEW T \in SUBSET R!Stamps,
         \A s \in S : s.at \in T,
         \A s, t \in S : s.at = t.at => s = t
  PROVE  IsFiniteSet(S) /\ Cardinality(S) \in Nat /\ Cardinality(S) <= Cardinality(T)
<1> DEFINE f == [s \in S |-> s.at]
<1>1. f \in Injection(S, T)
  BY DEF Injection, IsInjective
<1>2. IsFiniteSet(T)
  BY StampsAreFinite
<1> QED
  BY <1>1, <1>2, FS_Injection, FS_CardinalityType

(* The newest of several snapshots is one of them. *)
LEMMA NewestIsOne ==
  ASSUME NEW S, S # {}, \A s \in S : s.at \in R!Stamps
  PROVE  R!Newest(S) \in S /\ \A r \in S : r.at <= R!Newest(S).at
<1> DEFINE After(s) == {n \in R!Stamps : \E r \in S : r.at = n /\ n > s.at}
           Afters == {After(s) : s \in S}
<1>1. Afters \subseteq FiniteSubsetsOf(R!Stamps) /\ Afters # {}
  <2>1. \A s \in S : After(s) \in SUBSET R!Stamps
    OBVIOUS
  <2> HIDE DEF After
  <2> QED
    BY <2>1, StampsAreFinite DEF FiniteSubsetsOf
<1>2. IsWellFoundedOn(StrictSubsetOrdering(R!Stamps), FiniteSubsetsOf(R!Stamps))
  BY FS_StrictSubsetOrderingWellFounded
<1>3. PICK A \in Afters : \A B \in Afters : ~ (<<B, A>> \in StrictSubsetOrdering(R!Stamps))
  BY <1>1, <1>2, WFMin
<1>4. PICK s \in S : A = After(s)
  OBVIOUS
<1>5. ASSUME NEW r \in S
      PROVE  r.at <= s.at
  <2>1. SUFFICES ASSUME r.at > s.at PROVE FALSE
    BY DEF R!Stamps
  <2>2. After(r) \subseteq After(s) /\ r.at \in After(s) /\ r.at \notin After(r)
    BY <2>1 DEF R!Stamps
  <2>3. <<After(r), After(s)>> \in StrictSubsetOrdering(R!Stamps)
    BY <2>2 DEF StrictSubsetOrdering
  <2> QED
    BY <2>3, <1>3, <1>4
<1> QED
  BY <1>5 DEF R!Newest

-----------------------------------------------------------------------------
(* What the models of an answer are.                                       *)

LEMMA ListedModels ==
  /\ R!RelayModels \subseteq Models
  /\ \A p \in Configured : \A list : R!RefreshProvider(p, list) \subseteq Models
<1>1. \A p \in Providers : \A i \in DOMAIN Rows[p] : Rows[p][i] \in Models
  BY RowsAreModels
<1>2. R!RelayModels \subseteq Models
  BY <1>1, ProvidersNest DEF R!RelayModels
<1>3. \A p \in Configured : \A list : R!RefreshProvider(p, list) \subseteq Models
  BY <1>1, ProvidersNest DEF R!RefreshProvider, R!RelayAnswer, R!VendorModels
<1> QED
  BY <1>2, <1>3

(* Of the relay models, providers answer with those that their list names. *)
LEMMA AnswersArePermitted ==
  ASSUME NEW p \in Configured, NEW list
  PROVE  R!RefreshProvider(p, list) \cap R!RelayModels \subseteq R!Permitted(R!RelayModels, list)
<1>1. CASE p \in Relays
  BY <1>1 DEF R!RefreshProvider, R!RelayAnswer, R!RelayModels, R!Permitted
<1>2. CASE p \notin Relays
  <2>1. \A q \in Relays : \A i \in DOMAIN Rows[q], j \in DOMAIN Rows[p] : Rows[q][i] # Rows[p][j]
    BY <1>2, ModelsAreOfOneProvider
  <2> QED
    BY <1>2, <2>1 DEF R!RefreshProvider, R!VendorModels, R!RelayModels
<1> QED
  BY <1>1, <1>2

LEMMA ServedArePermitted ==
  ASSUME NEW models, NEW list
  PROVE  /\ R!Permitted(models, list) \subseteq models
         /\ R!Permitted(models, list) \cap R!RelayModels \subseteq R!Permitted(R!RelayModels, list)
BY DEF R!Permitted

-----------------------------------------------------------------------------
(* The steps.                                                              *)

LEMMA RegistryInit == R!Init => RegistryInv
<1> SUFFICES ASSUME R!Init PROVE RegistryInv
  OBVIOUS
<1>1. /\ snaps = {} /\ committed = {} /\ newestGood = R!Never /\ clock = R!Never
      /\ \A c \in Callers : call[c] = R!Idle /\ barred[c] = {}
      /\ \A p \in Providers : sync[p].attempt = R!Never /\ sync[p].success = R!Never
  BY DEF R!Init
<1>2. R!TypeOK
  <2>1. Cardinality(snaps) <= KeepHistory
    BY <1>1, FS_EmptySet
  <2>2. sync \in [Providers -> R!Row]
    BY DEF R!Init, R!Row, R!Never
  <2> QED
    BY <2>1, <2>2, CountsAgree DEF R!Init, R!TypeOK, R!Stamps, R!Never
<1>3. \A c \in Callers : call[c].pc = "idle"
  BY <1>1 DEF R!Idle
<1>4. StampsAreUnique /\ YoungestAreKept
  BY <1>1, <1>3 DEF StampsAreUnique, YoungestAreKept, R!At, R!Never
<1>5. BarredStayOut /\ R!SyncStateTellsTheLast /\ R!BarredNeverServed
  BY <1>1, <1>3 DEF BarredStayOut, R!SyncStateTellsTheLast, R!BarredNeverServed, R!At
<1> QED
  BY <1>2, <1>4, <1>5 DEF RegistryInv

(* A call goes on, and its adapters and what it serves keep out what is    *)
(* barred for it.                                                          *)
LEMMA GoingOnKeepsRegistryInv ==
  ASSUME RegistryInv, NEW c \in Callers, NEW record \in {R!Idle} \cup R!Served \cup R!Working,
         R!Goto(c, record), record.pc # "save",
         barred' \in [Callers -> SUBSET Models],
         \A d \in Callers \ {c} : barred'[d] = barred[d],
         barred'[c] \subseteq R!RelayModels \ R!Permitted(R!RelayModels, allow),
         record.pc = "listing" => barred'[c] \cap R!Permitted(R!RelayModels, record.list) = {},
         record.pc = "served" => record.models \cap barred'[c] = {},
         UNCHANGED <<snaps, sync, clock, elapsed, allow, newestGood, committed>>
  PROVE  RegistryInv'
<1>1. /\ call' \in [Callers -> {R!Idle} \cup R!Served \cup R!Working]
      /\ call'[c] = record
      /\ \A d \in Callers \ {c} : call'[d] = call[d]
  BY DEF RegistryInv, R!TypeOK, R!Goto
<1>2. R!TypeOK'
  BY <1>1 DEF RegistryInv, R!TypeOK
<1>3. StampsAreUnique'
  BY <1>1 DEF RegistryInv, StampsAreUnique, R!At
<1>4. YoungestAreKept' /\ R!SyncStateTellsTheLast'
  BY DEF RegistryInv, YoungestAreKept, Younger, R!SyncStateTellsTheLast
<1>5. BarredStayOut' /\ R!BarredNeverServed'
  BY <1>1 DEF RegistryInv, BarredStayOut, R!BarredNeverServed, R!At
<1> QED
  BY <1>2, <1>3, <1>4, <1>5 DEF RegistryInv

LEMMA CallKeepsRegistryInv ==
  ASSUME RegistryInv, NEW c \in Callers, NEW forced \in BOOLEAN, NEW stored \in BOOLEAN,
         R!Call(c, forced, stored)
  PROVE  RegistryInv'
<1> DEFINE cached == IF stored /\ R!Good # {} THEN R!Newest(R!Good).models ELSE {}
           record == [pc |-> IF stored THEN "loaded" ELSE "listing",
                      forced |-> forced, stored |-> stored, cached |-> cached,
                      list |-> IF stored THEN {} ELSE allow,
                      models |-> {}, errors |-> {}, at |-> R!Never]
<1>1. cached \in SUBSET Models
  <2>1. R!Good # {} => R!Newest(R!Good) \in R!Good
    BY NewestIsOne DEF R!Good, RegistryInv, R!TypeOK, R!Snapshot
  <2> QED
    BY <2>1 DEF R!Good, RegistryInv, R!TypeOK, R!Snapshot
<1>2. allow \in SUBSET Models
  BY ListsAreModels DEF RegistryInv, R!TypeOK
<1> HIDE DEF cached
<1>3. record \in R!Working
  BY <1>1, <1>2 DEF R!Working
<1>4. record.pc # "save" /\ record.pc # "served" /\ (record.pc = "listing" => record.list = allow)
  OBVIOUS
<1>5. R!Goto(c, record)
  BY DEF R!Call, R!CreateAdapters, cached
<1>6. /\ barred' = [barred EXCEPT ![c] = R!RelayModels \ R!Permitted(R!RelayModels, allow)]
      /\ UNCHANGED <<snaps, sync, clock, elapsed, allow, newestGood, committed>>
  BY DEF R!Call
<1> HIDE DEF record
<1>7. /\ barred' \in [Callers -> SUBSET Models]
      /\ \A d \in Callers \ {c} : barred'[d] = barred[d]
      /\ barred'[c] = R!RelayModels \ R!Permitted(R!RelayModels, allow)
  BY <1>6, ListedModels DEF RegistryInv, R!TypeOK
<1> QED
  BY <1>3, <1>4, <1>5, <1>6, <1>7, GoingOnKeepsRegistryInv

LEMMA CheckDueKeepsRegistryInv ==
  ASSUME RegistryInv, NEW c \in Callers, R!CheckDue(c)
  PROVE  RegistryInv'
<1>1. /\ call[c] \in R!Working /\ barred \in [Callers -> SUBSET Models] /\ allow \in SUBSET Models
      /\ barred[c] \subseteq R!RelayModels \ R!Permitted(R!RelayModels, allow)
      /\ UNCHANGED <<snaps, sync, clock, elapsed, allow, barred, newestGood, committed>>
  BY ListsAreModels
     DEF RegistryInv, R!TypeOK, R!CheckDue, R!At, R!Idle, R!Served, BarredStayOut, R!Environment, R!History
<1>2. CASE R!Goto(c, R!CreateAdapters(call[c]))
  <2> DEFINE record == R!CreateAdapters(call[c])
  <2>1. record \in R!Working /\ record.pc = "listing" /\ record.list = allow
    BY <1>1, Zenon DEF R!CreateAdapters, R!Working
  <2> HIDE DEF record
  <2> QED
    BY <1>1, <1>2, <2>1, GoingOnKeepsRegistryInv DEF record
<1>3. CASE R!Serve(c, R!Permitted(call[c].cached, allow))
  <2> DEFINE record == [pc |-> "served", models |-> R!Permitted(call[c].cached, allow)]
  <2>1. call[c].cached \in SUBSET Models
    BY <1>1 DEF R!Working
  <2>2. record \in R!Served /\ record.pc = "served"
    BY <2>1, ServedArePermitted DEF R!Served
  <2>3. record.models \cap barred[c] = {}
    BY <1>1, ServedArePermitted
  <2> HIDE DEF record
  <2> QED
    BY <1>1, <1>3, <2>2, <2>3, GoingOnKeepsRegistryInv DEF record, R!Serve
<1> QED
  BY <1>2, <1>3 DEF R!CheckDue

LEMMA FailKeepsRegistryInv ==
  ASSUME RegistryInv, NEW c \in Callers, R!Fail(c)
  PROVE  RegistryInv'
<1>1. /\ barred \in [Callers -> SUBSET Models]
      /\ barred[c] \subseteq R!RelayModels \ R!Permitted(R!RelayModels, allow)
      /\ R!Goto(c, R!Idle)
      /\ UNCHANGED <<snaps, sync, clock, elapsed, allow, barred, newestGood, committed>>
  BY DEF RegistryInv, R!TypeOK, BarredStayOut, R!Fail, R!Environment, R!History
<1> QED
  BY <1>1, GoingOnKeepsRegistryInv DEF R!Idle

LEMMA BuildReportKeepsRegistryInv ==
  ASSUME RegistryInv, NEW c \in Callers, NEW failed \in SUBSET Configured, R!BuildReport(c, failed)
  PROVE  RegistryInv'
<1> DEFINE models == UNION {R!RefreshProvider(p, call[c].list) : p \in Configured \ failed}
<1>1. /\ call[c] \in R!Working /\ barred \in [Callers -> SUBSET Models] /\ clock \in R!Stamps \cup {R!Never}
      /\ barred[c] \subseteq R!RelayModels \ R!Permitted(R!RelayModels, allow)
      /\ barred[c] \cap R!Permitted(R!RelayModels, call[c].list) = {}
      /\ UNCHANGED <<snaps, sync, elapsed, allow, barred, newestGood, committed>>
  BY DEF RegistryInv, R!TypeOK, R!BuildReport, R!At, R!Idle, R!Served, BarredStayOut, R!Environment, R!History
<1>2. models \in SUBSET Models /\ models \cap barred[c] = {}
  <2>1. ASSUME NEW p \in Configured
        PROVE  /\ R!RefreshProvider(p, call[c].list) \subseteq Models
               /\ R!RefreshProvider(p, call[c].list) \cap barred[c] = {}
    BY <1>1, ListedModels, AnswersArePermitted
  <2> QED
    BY <2>1
<1> HIDE DEF models
<1>3. CASE ~call[c].stored /\ R!Serve(c, models) /\ UNCHANGED clock
  <2> DEFINE record == [pc |-> "served", models |-> models]
  <2>1. record \in R!Served /\ record.pc = "served" /\ record.models = models
    BY <1>2 DEF R!Served
  <2>2. R!Goto(c, record)
    BY <1>3 DEF R!Serve
  <2> HIDE DEF record
  <2> QED
    BY <1>1, <1>2, <1>3, <2>1, <2>2, GoingOnKeepsRegistryInv
<1>4. CASE /\ clock < MaxAttempts
           /\ clock' = clock + 1
           /\ R!Goto(c, [call[c] EXCEPT !.pc = "save", !.at = clock + 1,
                                     !.models = models, !.errors = failed])
  <2> DEFINE record == [call[c] EXCEPT !.pc = "save", !.at = clock + 1,
                                       !.models = models, !.errors = failed]
  <2>1. clock + 1 \in R!Stamps /\ clock' \in R!Stamps
    BY <1>1, <1>4 DEF R!Stamps, R!Never
  <2>2. record \in R!Working
    BY <1>1, <1>2, <2>1, Zenon DEF R!Working
  <2>3. record.pc = "save" /\ record.at = clock + 1 /\ record.models = models
    BY <1>1 DEF R!Working
  <2>4. R!Goto(c, record)
    BY <1>4
  <2> HIDE DEF record
  <2>5. /\ call' \in [Callers -> {R!Idle} \cup R!Served \cup R!Working]
        /\ call'[c] = record
        /\ \A d \in Callers \ {c} : call'[d] = call[d]
    BY <2>2, <2>4 DEF RegistryInv, R!TypeOK, R!Goto
  <2>6. R!TypeOK'
    BY <1>1, <2>1, <2>5 DEF RegistryInv, R!TypeOK
  <2>7. 1 .. clock \subseteq 1 .. clock' /\ clock' \in 1 .. clock' /\ clock' \notin 1 .. clock
    BY <1>1, <1>4 DEF R!Stamps, R!Never
  <2>8. StampsAreUnique'
    BY <1>1, <1>4, <2>3, <2>5, <2>7 DEF RegistryInv, StampsAreUnique, R!At
  <2>9. YoungestAreKept' /\ R!SyncStateTellsTheLast'
    BY <1>1 DEF RegistryInv, YoungestAreKept, Younger, R!SyncStateTellsTheLast
  <2>10. BarredStayOut' /\ R!BarredNeverServed'
    BY <1>1, <1>2, <2>3, <2>5 DEF RegistryInv, BarredStayOut, R!BarredNeverServed, R!At
  <2> QED
    BY <2>6, <2>8, <2>9, <2>10 DEF RegistryInv
<1> QED
  BY <1>3, <1>4 DEF R!BuildReport, models

(* Of snapshots with stamps of their own, at most KeepHistory have fewer   *)
(* than KeepHistory younger ones.                                          *)
LEMMA PrunedIsBounded ==
  ASSUME NEW S, \A s \in S : s.at \in R!Stamps, \A s, t \in S : s.at = t.at => s = t
  PROVE  Cardinality(R!Pruned(S)) <= KeepHistory
<1> DEFINE Later(s) == {r \in S : r.at > s.at}
           f == [s \in R!Pruned(S) |-> Cardinality(Later(s))]
<1>1. IsFiniteSet(S)
  BY StampedSets
<1>2. \A s \in S : IsFiniteSet(Later(s)) /\ Cardinality(Later(s)) \in Nat
  BY <1>1, FS_Subset, FS_CardinalityType
<1>3. ASSUME NEW s \in S, NEW t \in S, s.at > t.at
      PROVE  Cardinality(Later(s)) # Cardinality(Later(t))
  <2>1. Later(s) \subseteq Later(t) /\ s \in Later(t) /\ s \notin Later(s)
    BY <1>3 DEF R!Stamps
  <2> QED
    BY <2>1, <1>2, FS_Subset
<1>4. f \in Injection(R!Pruned(S), 0 .. KeepHistory - 1)
  <2>1. \A s \in R!Pruned(S) : s \in S /\ Cardinality(Later(s)) < KeepHistory
    BY WhatIsPruned
  <2>2. \A s, t \in R!Pruned(S) : Cardinality(Later(s)) = Cardinality(Later(t)) => s = t
    BY <2>1, <1>3 DEF R!Stamps
  <2> HIDE DEF Later
  <2> QED
    BY <1>2, <2>1, <2>2 DEF Injection, IsInjective
<1>5. IsFiniteSet(0 .. KeepHistory - 1) /\ Cardinality(0 .. KeepHistory - 1) = KeepHistory
  BY FS_Interval
<1> QED
  BY <1>4, <1>5, FS_Injection

LEMMA SaveSnapshotKeepsRegistryInv ==
  ASSUME RegistryInv, NEW c \in Callers, R!SaveSnapshot(c)
  PROVE  RegistryInv'
<1> DEFINE k == call[c]
           new == [at |-> k.at, models |-> k.models]
           all == snaps \cup {new}
           served == [pc |-> "served", models |-> R!LiveOrFallback(k)]
<1>1. /\ R!At(c, "save") /\ k \in R!Working /\ allow \in SUBSET Models
      /\ k.at \in 1 .. clock /\ k.at \notin committed /\ k.at \in R!Stamps
      /\ committed \subseteq 1 .. clock /\ clock \in Nat /\ 1 .. clock \subseteq R!Stamps
  BY ListsAreModels
     DEF RegistryInv, R!TypeOK, R!SaveSnapshot, R!At, R!Idle, R!Served, StampsAreUnique, R!Stamps, R!Never
<1>2. /\ snaps' = R!Pruned(all)
      /\ sync' = [p \in Providers |-> R!Synced(sync[p], k.at, p \in Configured \ k.errors)]
      /\ R!Goto(c, served)
      /\ elapsed' = FALSE
      /\ newestGood' = IF k.models # {} /\ k.at > newestGood THEN k.at ELSE newestGood
      /\ committed' = committed \cup {k.at}
      /\ UNCHANGED <<clock, allow, barred>>
  BY DEF R!SaveSnapshot, R!Serve
<1>3. k.models \in SUBSET Models /\ k.cached \in SUBSET Models
  BY <1>1 DEF R!Working
<1>4. new \in R!Snapshot /\ new.at = k.at /\ new.models = k.models
  BY <1>1, <1>3 DEF R!Snapshot
<1>5. R!LiveOrFallback(k) \subseteq Models /\ R!LiveOrFallback(k) \cap barred[c] = {}
  <2>1. /\ barred[c] \cap k.models = {} /\ barred[c] \subseteq R!RelayModels
        /\ barred[c] \cap R!Permitted(R!RelayModels, allow) = {}
    BY <1>1 DEF RegistryInv, BarredStayOut
  <2> QED
    BY <1>3, <2>1, ServedArePermitted DEF R!LiveOrFallback
<1>6. served \in R!Served /\ served.pc = "served" /\ served.models = R!LiveOrFallback(k)
  BY <1>5 DEF R!Served
<1>7. all \subseteq R!Snapshot /\ \A s, t \in all : s.at = t.at => s = t
  BY <1>1, <1>4 DEF RegistryInv, R!TypeOK, YoungestAreKept
<1> HIDE DEF served, new
<1>8. /\ call' \in [Callers -> {R!Idle} \cup R!Served \cup R!Working]
      /\ call'[c] = served
      /\ \A d \in Callers \ {c} : call'[d] = call[d]
  BY <1>2, <1>6 DEF RegistryInv, R!TypeOK, R!Goto
<1>9. ASSUME NEW p \in Providers
      PROVE  /\ sync'[p] \in R!Row
             /\ sync'[p].success \in committed' \cup {R!Never}
             /\ sync'[p].error <=> sync'[p].success # sync'[p].attempt
  <2> DEFINE ok == p \in Configured \ k.errors
             row == [attempt |-> k.at, success |-> IF ok THEN k.at ELSE sync[p].success,
                     error |-> ~ok]
  <2>1. sync[p] \in R!Row
    BY DEF RegistryInv, R!TypeOK
  <2>2. sync[p].success \in committed \cup {R!Never} /\ sync[p].success \in R!Stamps \cup {R!Never}
    BY <2>1 DEF RegistryInv, StampsAreUnique, R!Row
  <2>3. sync'[p] = row
    BY <1>2, <2>1 DEF R!Synced, R!Row
  <2>4. row \in R!Row
    BY <1>1, <2>2 DEF R!Row
  <2>5. k.at # R!Never
    BY <1>1 DEF R!Stamps, R!Never
  <2>6. CASE ok
    <3>1. row.error = FALSE /\ row.success = row.attempt /\ row.success = k.at
      BY <2>6
    <3> HIDE DEF row, ok
    <3> QED
      BY <1>2, <2>3, <2>4, <3>1
  <2>7. CASE ~ok
    <3>1. row.error = TRUE /\ row.success = sync[p].success /\ row.attempt = k.at
      BY <2>7
    <3> HIDE DEF row, ok
    <3> QED
      BY <1>1, <1>2, <2>2, <2>3, <2>4, <2>5, <3>1
  <2> QED
    BY <2>6, <2>7
<1>10. newestGood' \in committed' \cup {R!Never}
  BY <1>2 DEF RegistryInv, StampsAreUnique
<1>11. R!TypeOK'
  <2>1. snaps' \subseteq all /\ Cardinality(snaps') <= KeepHistory
    BY <1>2, <1>7, PrunedIsBounded DEF R!Pruned, R!Snapshot
  <2>2. sync' \in [Providers -> R!Row]
    BY <1>2, <1>9
  <2>3. committed' \subseteq R!Stamps
    BY <1>1, <1>2
  <2> QED
    BY <1>2, <1>7, <1>8, <1>10, <2>1, <2>2, <2>3, CountsAgree DEF RegistryInv, R!TypeOK
<1>12. StampsAreUnique'
  <2>1. ASSUME NEW d \in Callers, R!At(d, "save")'
        PROVE  call'[d] = call[d] /\ R!At(d, "save") /\ d # c
    BY <1>6, <1>8, <2>1 DEF R!At
  <2>2. ASSUME NEW d \in Callers, R!At(d, "save")'
        PROVE  call'[d].at \in (1 .. clock) \ committed /\ call'[d].at # k.at
    BY <1>1, <2>1, <2>2 DEF RegistryInv, StampsAreUnique
  <2>3. ASSUME NEW d \in Callers, NEW e \in Callers, R!At(d, "save")', R!At(e, "save")', d # e
        PROVE  call'[d].at # call'[e].at
    BY <2>1, <2>3 DEF RegistryInv, StampsAreUnique
  <2> HIDE DEF k
  <2> QED
    BY <1>1, <1>2, <1>9, <1>10, <2>2, <2>3 DEF StampsAreUnique
<1>13. YoungestAreKept'
  <2>1. /\ \A s \in all : s.at \in committed'
        /\ \A s \in all : s.at = newestGood' => s.models # {}
    <3>1. new.at \notin committed /\ newestGood \in committed \cup {R!Never} /\ k.at # R!Never
      BY <1>1, <1>4 DEF RegistryInv, StampsAreUnique, R!Stamps, R!Never
    <3>2. \A s \in snaps : s.at \in committed /\ s.at # k.at
      BY <1>1 DEF RegistryInv, YoungestAreKept
    <3> QED
      BY <1>2, <1>4, <3>1, <3>2 DEF RegistryInv, YoungestAreKept
  <2>2. ASSUME NEW a \in committed', Cardinality(Younger(a)') < KeepHistory
        PROVE  \E s \in snaps' : s.at = a
    <3>1. Younger(a)' \in SUBSET R!Stamps /\ Younger(a) \subseteq Younger(a)'
      BY <1>1, <1>2 DEF Younger
    <3>2. Cardinality(Younger(a)) < KeepHistory
      BY <2>2, <3>1, StampsAreFinite, FS_Subset
    <3>3. PICK s \in all : s.at = a
      BY <1>2, <1>4, <3>2 DEF RegistryInv, YoungestAreKept
    <3>4. Cardinality({r \in all : r.at > s.at}) <= Cardinality(Younger(a)')
      <4> DEFINE Over == {r \in all : r.at > s.at}
      <4>1. \A r \in Over : r.at \in Younger(a)'
        BY <2>1, <3>3 DEF Younger
      <4>2. \A r, t \in Over : r.at = t.at => r = t
        BY <1>7
      <4> HIDE DEF Over
      <4>3. Cardinality(Over) <= Cardinality(Younger(a)')
        BY <3>1, <4>1, <4>2, StampedSets
      <4> QED
        BY <4>3 DEF Over
    <3>5. Cardinality({r \in all : r.at > s.at}) < KeepHistory
      <4>1. Cardinality({r \in all : r.at > s.at}) \in Nat
        BY <1>7, StampedSets DEF R!Snapshot
      <4> QED
        BY <2>2, <3>1, <3>4, <4>1, StampsAreFinite
    <3> QED
      BY <1>2, <3>3, <3>5, WhatIsPruned
  <2> QED
    BY <1>2, <1>7, <2>1, <2>2 DEF R!Pruned, YoungestAreKept
<1>14. BarredStayOut' /\ R!BarredNeverServed'
  BY <1>2, <1>5, <1>6, <1>8 DEF RegistryInv, BarredStayOut, R!BarredNeverServed, R!At
<1>15. R!SyncStateTellsTheLast'
  BY <1>9 DEF R!SyncStateTellsTheLast
<1> QED
  BY <1>11, <1>12, <1>13, <1>14, <1>15 DEF RegistryInv

LEMMA EnvironmentKeepsRegistryInv ==
  ASSUME RegistryInv, R!IntervalPasses \/ \E list \in Allowlists : R!SetAllowlist(list)
  PROVE  RegistryInv'
<1>1. CASE R!IntervalPasses
  BY <1>1 DEF R!IntervalPasses, RegistryInv, R!TypeOK, StampsAreUnique, YoungestAreKept, Younger,
              BarredStayOut, R!SyncStateTellsTheLast, R!BarredNeverServed, R!At
<1>2. ASSUME NEW list \in Allowlists, R!SetAllowlist(list)
      PROVE  RegistryInv'
  <2>1. /\ allow' = list
        /\ barred' = [d \in Callers |-> barred[d] \ R!Permitted(R!RelayModels, list)]
        /\ UNCHANGED <<snaps, sync, clock, elapsed, call, newestGood, committed>>
    BY <1>2 DEF R!SetAllowlist
  <2>2. R!TypeOK'
    BY <2>1 DEF RegistryInv, R!TypeOK
  <2>3. StampsAreUnique' /\ YoungestAreKept' /\ R!SyncStateTellsTheLast'
    BY <2>1 DEF RegistryInv, StampsAreUnique, YoungestAreKept, Younger, R!SyncStateTellsTheLast,
                R!At
  <2>4. BarredStayOut' /\ R!BarredNeverServed'
    BY <2>1 DEF RegistryInv, BarredStayOut, R!BarredNeverServed, R!At
  <2> QED
    BY <2>2, <2>3, <2>4 DEF RegistryInv
<1> QED
  BY <1>1, <1>2

LEMMA RegistryNext == RegistryInv /\ [R!Next]_(R!vars) => RegistryInv'
<1> SUFFICES ASSUME RegistryInv, [R!Next]_(R!vars) PROVE RegistryInv'
  OBVIOUS
<1>1. CASE R!Next
  BY <1>1, CallKeepsRegistryInv, CheckDueKeepsRegistryInv, BuildReportKeepsRegistryInv,
     SaveSnapshotKeepsRegistryInv, FailKeepsRegistryInv, EnvironmentKeepsRegistryInv DEF R!Next
<1>2. CASE UNCHANGED R!vars
  BY <1>2 DEF R!vars, RegistryInv, R!TypeOK, StampsAreUnique, YoungestAreKept, Younger,
              BarredStayOut, R!SyncStateTellsTheLast, R!BarredNeverServed, R!At
<1> QED
  BY <1>1, <1>2

-----------------------------------------------------------------------------
(* MetadataCaches: the inductive invariant.                                *)

MetadataWork == {C!Idle} \cup C!Priced \cup C!Looking \cup C!Holding \cup C!Filled

(* No report is filled from a leaderboard without entries, whichever level *)
(* it came from, so no field that an entry feeds is left missing for       *)
(* want of one.                                                            *)
FilledFromEntries ==
  /\ \A t \in Threads : C!At(t, "fill") => ~C!IsEmpty(work[t].cats)
  /\ \A t \in Threads : C!At(t, "filled") =>
       \E k \in Categories : FieldsOf[k] \cap work[t].missing = {}

MetadataInv == C!TypeOK /\ FilledFromEntries

LEMMA MetadataInit == C!Init => MetadataInv
<1> SUFFICES ASSUME C!Init PROVE MetadataInv
  OBVIOUS
<1>1. \A t \in Threads : work[t].pc = "idle"
  BY DEF C!Init, C!Idle
<1>2. C!None \in C!Board
  BY DEF C!None, C!Board
<1> QED
  BY <1>1, <1>2 DEF C!Init, MetadataInv, C!TypeOK, FilledFromEntries, C!At

(* A thread goes on to what it may hold, while no shared state loses its   *)
(* type.                                                                   *)
LEMMA WorkGoesOn ==
  ASSUME MetadataInv, NEW t \in Threads, NEW w \in MetadataWork, C!Goto(t, w),
         w.pc \in {"save", "fill"} => ~C!IsEmpty(w.cats),
         w.pc = "filled" => \E k \in Categories : FieldsOf[k] \cap w.missing = {},
         prices' \subseteq Sellers, page' \subseteq Sellers,
         stamp' \in {"never", "fresh", "expired"}, stamp' = "never" => prices' = {},
         memory' \in C!Board, copy' \in C!Board, C!IsEmpty(copy'.cats) => copy' = C!None,
         site' \subseteq Categories
  PROVE  MetadataInv'
<1>1. /\ work' \in [Threads -> MetadataWork] /\ work'[t] = w
      /\ \A u \in Threads \ {t} : work'[u] = work[u]
  BY DEF MetadataInv, C!TypeOK, C!Goto, MetadataWork
<1>2. C!TypeOK'
  BY <1>1 DEF MetadataInv, C!TypeOK, MetadataWork, C!IsEmpty
<1>3. FilledFromEntries'
  BY <1>1 DEF MetadataInv, FilledFromEntries, C!At
<1> QED
  BY <1>2, <1>3 DEF MetadataInv

LEMMA SharedIsTyped ==
  ASSUME MetadataInv
  PROVE  /\ prices \subseteq Sellers /\ page \subseteq Sellers
         /\ stamp \in {"never", "fresh", "expired"} /\ (stamp = "never" => prices = {})
         /\ memory \in C!Board /\ copy \in C!Board /\ (C!IsEmpty(copy.cats) => copy = C!None)
         /\ site \subseteq Categories
BY DEF MetadataInv, C!TypeOK

(* What a thread holds where it is. *)
LEMMA WorkIsTyped ==
  ASSUME MetadataInv, NEW t \in Threads
  PROVE  /\ work[t] \in MetadataWork
         /\ work[t].pc \in {"price", "fetch", "replace", "read", "source", "fetch2", "replace2"}
              => work[t] \in C!Priced
         /\ work[t].pc \in {"keep", "load", "save", "fill"} => work[t] \in C!Holding
BY DEF MetadataInv, C!TypeOK, MetadataWork, C!Idle, C!Priced, C!Looking, C!Holding, C!Filled

LEMMA LookIsWork == C!Look \in MetadataWork /\ C!Look.pc = "look"
BY DEF C!Look, MetadataWork, C!Looking

LEMMA IdleIsWork == C!Idle \in MetadataWork /\ C!Idle.pc = "idle"
BY DEF C!Idle, MetadataWork

PricingSteps == {"price", "fetch", "replace", "read", "source", "fetch2", "replace2"}

(* A price being asked for, a step further. *)
LEMMA PricedGoesOn ==
  ASSUME NEW t \in Threads, work[t] \in C!Priced, NEW pc \in PricingSteps, NEW got \in SUBSET Sellers,
         \/ C!Goto(t, [work[t] EXCEPT !.pc = pc])
         \/ C!Goto(t, [work[t] EXCEPT !.pc = pc, !.got = got])
  PROVE  \E w \in MetadataWork : C!Goto(t, w) /\ w.pc = pc
<1> DEFINE v == [work[t] EXCEPT !.pc = pc]
           w == [work[t] EXCEPT !.pc = pc, !.got = got]
<1>1. v \in C!Priced /\ v.pc = pc
  BY DEF C!Priced, PricingSteps
<1>2. w \in C!Priced /\ w.pc = pc
  BY Zenon DEF C!Priced, PricingSteps
<1>3. C!Goto(t, v) \/ C!Goto(t, w)
  OBVIOUS
<1> HIDE DEF v, w
<1> QED
  BY <1>1, <1>2, <1>3 DEF MetadataWork

LEMMA PricingKeepsInv ==
  ASSUME MetadataInv, NEW t \in Threads,
         \/ \E s \in Sellers : C!Begin(t, s)
         \/ C!RefreshIfNeeded(t) \/ C!FetchPages(t) \/ C!Replace(t) \/ C!ReadPrice(t)
  PROVE  MetadataInv'
<1>1. ASSUME NEW s \in Sellers, C!Begin(t, s)
      PROVE  MetadataInv'
  <2> DEFINE w == [pc |-> "price", seller |-> s, got |-> {}]
  <2>1. w \in MetadataWork /\ w.pc = "price"
    BY DEF MetadataWork, C!Priced
  <2>2. C!Goto(t, w) \/ C!Goto(t, C!Look)
    BY <1>1 DEF C!Begin
  <2> HIDE DEF w
  <2> QED
    BY <1>1, <2>1, <2>2, LookIsWork, SharedIsTyped, WorkGoesOn DEF C!Begin, C!pricing, C!boards
<1>2. CASE C!RefreshIfNeeded(t)
  <2>1. work[t] \in C!Priced
    BY <1>2, WorkIsTyped DEF C!RefreshIfNeeded, C!At
  <2>2. PICK w \in MetadataWork : C!Goto(t, w) /\ w.pc \in {"fetch", "read", "fetch2", "look"}
    <3>1. CASE C!Goto(t, [work[t] EXCEPT !.pc = IF C!Stale THEN "fetch" ELSE "read"])
      <4> DEFINE pc == IF C!Stale THEN "fetch" ELSE "read"
      <4>1. pc \in PricingSteps /\ pc \in {"fetch", "read"}
        BY DEF PricingSteps
      <4>2. C!Goto(t, [work[t] EXCEPT !.pc = pc])
        BY <3>1
      <4> HIDE DEF pc
      <4> QED
        BY <2>1, <4>1, <4>2, PricedGoesOn
    <3>2. CASE C!Goto(t, IF C!Stale THEN [work[t] EXCEPT !.pc = "fetch2"] ELSE C!Look)
      <4>1. CASE C!Goto(t, [work[t] EXCEPT !.pc = "fetch2"])
        BY <2>1, <4>1, PricedGoesOn DEF PricingSteps
      <4>2. CASE C!Goto(t, C!Look)
        BY <4>2, LookIsWork
      <4> QED
        BY <3>2, <4>1, <4>2
    <3> QED
      BY <1>2, <3>1, <3>2 DEF C!RefreshIfNeeded
  <2> QED
    BY <1>2, <2>2, SharedIsTyped, WorkGoesOn DEF C!RefreshIfNeeded, C!pricing, C!boards
<1>3. CASE C!FetchPages(t)
  <2>1. work[t] \in C!Priced /\ page \in SUBSET Sellers
    BY <1>3, WorkIsTyped, SharedIsTyped DEF C!FetchPages, C!At
  <2>2. PICK w \in MetadataWork : C!Goto(t, w) /\ w.pc \in {"replace", "replace2"}
    <3>1. CASE C!Goto(t, [work[t] EXCEPT !.pc = "replace", !.got = page])
      BY <2>1, <3>1, PricedGoesOn DEF PricingSteps
    <3>2. CASE C!Goto(t, [work[t] EXCEPT !.pc = "replace2", !.got = page])
      BY <2>1, <3>2, PricedGoesOn DEF PricingSteps
    <3> QED
      BY <1>3, <3>1, <3>2 DEF C!FetchPages
  <2> QED
    BY <1>3, <2>2, SharedIsTyped, WorkGoesOn DEF C!FetchPages, C!pricing, C!boards
<1>4. CASE C!Replace(t)
  <2>1. work[t] \in C!Priced
    BY <1>4, WorkIsTyped DEF C!Replace, C!At
  <2>2. PICK w \in MetadataWork : C!Goto(t, w) /\ w.pc \in {"read", "look"}
    <3>1. CASE C!Goto(t, [work[t] EXCEPT !.pc = "read", !.got = {}])
      <4> DEFINE got == {}
      <4>1. got \in SUBSET Sellers /\ C!Goto(t, [work[t] EXCEPT !.pc = "read", !.got = got])
        BY <3>1
      <4> HIDE DEF got
      <4> QED
        BY <2>1, <4>1, PricedGoesOn DEF PricingSteps
    <3>2. CASE C!Goto(t, C!Look)
      BY <3>2, LookIsWork
    <3> QED
      BY <1>4, <3>1, <3>2 DEF C!Replace
  <2>3. prices' \subseteq Sellers /\ stamp' = "fresh" /\ UNCHANGED <<page, memory, copy, site>>
    BY <1>4, <2>1, SharedIsTyped DEF C!Replace, C!Replaced, C!Priced, C!boards
  <2> QED
    BY <2>2, <2>3, SharedIsTyped, WorkGoesOn
<1>5. CASE C!ReadPrice(t)
  <2>1. work[t] \in C!Priced
    BY <1>5, WorkIsTyped DEF C!ReadPrice, C!At
  <2>2. PICK w \in MetadataWork : C!Goto(t, w) /\ w.pc \in {"source", "look"}
    <3>1. CASE C!Goto(t, [work[t] EXCEPT !.pc = "source"])
      BY <2>1, <3>1, PricedGoesOn DEF PricingSteps
    <3>2. CASE C!Goto(t, C!Look)
      BY <3>2, LookIsWork
    <3> QED
      BY <1>5, <3>1, <3>2 DEF C!ReadPrice
  <2> QED
    BY <1>5, <2>2, SharedIsTyped, WorkGoesOn DEF C!ReadPrice, C!pricing, C!boards
<1> QED
  BY <1>1, <1>2, <1>3, <1>4, <1>5

(* After a leaderboard of one of the first levels: an empty one is not     *)
(* used.                                                                   *)
LEMMA UseIsWork ==
  ASSUME NEW cats \in SUBSET Categories
  PROVE  /\ C!Use(cats) \in MetadataWork /\ C!Use(cats).pc \in {"load", "save"}
         /\ C!Use(cats).pc = "save" => ~C!IsEmpty(C!Use(cats).cats)
BY DEF C!Use, MetadataWork, C!Holding

LEMMA FillMissingIsTyped ==
  ASSUME NEW cats \in SUBSET Categories, ~C!IsEmpty(cats)
  PROVE  /\ C!FillMissing(Fields, cats) \in SUBSET Fields
         /\ \E k \in Categories : FieldsOf[k] \cap C!FillMissing(Fields, cats) = {}
BY DEF C!FillMissing, C!IsEmpty

LEMMA BoardsKeepInv ==
  ASSUME MetadataInv, NEW t \in Threads,
         \/ C!LookInMemory(t) \/ C!Scrape(t) \/ C!Keep(t) \/ C!Save(t) \/ C!Load(t)
         \/ C!BatchFill(t) \/ C!Return(t)
  PROVE  MetadataInv'
<1>1. CASE C!LookInMemory(t)
  <2> DEFINE w == C!Use(memory.cats)
             v == [pc |-> "scrape"]
  <2>1. memory.cats \in SUBSET Categories
    BY SharedIsTyped DEF C!Board
  <2>2. w \in MetadataWork /\ w.pc \in {"load", "save"} /\ (w.pc = "save" => ~C!IsEmpty(w.cats))
    BY <2>1, UseIsWork
  <2>3. v \in MetadataWork /\ v.pc = "scrape"
    BY DEF MetadataWork, C!Looking
  <2>4. C!Goto(t, w) \/ C!Goto(t, v)
    BY <1>1 DEF C!LookInMemory
  <2> HIDE DEF w, v
  <2> QED
    BY <1>1, <2>2, <2>3, <2>4, SharedIsTyped, WorkGoesOn DEF C!LookInMemory, C!pricing, C!boards
<1>2. CASE C!Scrape(t)
  <2> DEFINE w == [pc |-> "keep", cats |-> site]
  <2>1. w \in MetadataWork /\ w.pc = "keep"
    BY SharedIsTyped DEF MetadataWork, C!Holding
  <2>2. C!Goto(t, w)
    BY <1>2 DEF C!Scrape
  <2> HIDE DEF w
  <2> QED
    BY <1>2, <2>1, <2>2, SharedIsTyped, WorkGoesOn DEF C!Scrape, C!pricing, C!boards
<1>3. CASE C!Keep(t)
  <2> DEFINE w == C!Use(work[t].cats)
  <2>1. work[t].cats \in SUBSET Categories
    BY <1>3, WorkIsTyped DEF C!Keep, C!At, C!Holding
  <2>2. w \in MetadataWork /\ w.pc \in {"load", "save"} /\ (w.pc = "save" => ~C!IsEmpty(w.cats))
    BY <2>1, UseIsWork
  <2>3. C!Goto(t, w) /\ memory' \in C!Board /\ UNCHANGED <<prices, stamp, page, copy, site>>
    BY <1>3, <2>1 DEF C!Keep, C!Board, C!pricing
  <2> HIDE DEF w
  <2> QED
    BY <2>2, <2>3, SharedIsTyped, WorkGoesOn
<1>4. CASE C!Save(t)
  <2> DEFINE w == [work[t] EXCEPT !.pc = "fill"]
  <2>1. work[t] \in C!Holding /\ work[t].cats # {}
    BY <1>4, WorkIsTyped DEF C!Save, C!At, MetadataInv, C!TypeOK
  <2>2. w \in MetadataWork /\ w.pc = "fill" /\ ~C!IsEmpty(w.cats)
    BY <2>1 DEF C!Holding, MetadataWork, C!IsEmpty
  <2>3. copy' \in C!Board /\ (C!IsEmpty(copy'.cats) => copy' = C!None)
    <3>1. ASSUME NEW young \in BOOLEAN, copy' = [cats |-> work[t].cats, fresh |-> young]
          PROVE  copy' \in C!Board /\ (C!IsEmpty(copy'.cats) => copy' = C!None)
      BY <2>1, <3>1 DEF C!Holding, C!Board, C!IsEmpty
    <3>2. CASE UNCHANGED copy
      BY <3>2, SharedIsTyped
    <3> QED
      BY <1>4, <3>1, <3>2 DEF C!Save
  <2>4. C!Goto(t, w) /\ UNCHANGED <<prices, stamp, page, memory, site>>
    BY <1>4 DEF C!Save, C!pricing
  <2> HIDE DEF w
  <2> QED
    BY <2>2, <2>3, <2>4, SharedIsTyped, WorkGoesOn
<1>5. CASE C!Load(t)
  <2> DEFINE w == [pc |-> "fill", cats |-> copy.cats]
  <2>1. copy.fresh => w \in MetadataWork /\ w.pc = "fill" /\ ~C!IsEmpty(w.cats)
    BY SharedIsTyped DEF MetadataWork, C!Holding, C!Board, C!IsEmpty, C!None
  <2>2. (copy.fresh /\ C!Goto(t, w)) \/ C!Goto(t, C!Idle)
    BY <1>5 DEF C!Load
  <2> HIDE DEF w
  <2> QED
    BY <1>5, <2>1, <2>2, IdleIsWork, SharedIsTyped, WorkGoesOn DEF C!Load, C!pricing, C!boards
<1>6. CASE C!BatchFill(t)
  <2> DEFINE w == [pc |-> "filled", missing |-> C!FillMissing(Fields, work[t].cats)]
  <2>1. work[t].cats \in SUBSET Categories /\ ~C!IsEmpty(work[t].cats)
    BY <1>6, WorkIsTyped DEF C!BatchFill, C!At, C!Holding, MetadataInv, FilledFromEntries
  <2>2. /\ w \in MetadataWork /\ w.pc = "filled"
        /\ \E k \in Categories : FieldsOf[k] \cap w.missing = {}
    BY <2>1, FillMissingIsTyped DEF MetadataWork, C!Filled
  <2>3. C!Goto(t, w)
    BY <1>6 DEF C!BatchFill
  <2> HIDE DEF w
  <2> QED
    BY <1>6, <2>2, <2>3, SharedIsTyped, WorkGoesOn DEF C!BatchFill, C!pricing, C!boards
<1>7. CASE C!Return(t)
  BY <1>7, IdleIsWork, SharedIsTyped, WorkGoesOn DEF C!Return, C!pricing, C!boards
<1> QED
  BY <1>1, <1>2, <1>3, <1>4, <1>5, <1>6, <1>7

(* A restart loses all of the pricing and what the threads were doing. *)
LEMMA SurroundingsKeepInv ==
  ASSUME MetadataInv,
         \/ C!PricesExpire \/ C!MemoryExpires \/ C!CopyExpires \/ C!Pages \/ C!Restart
  PROVE  MetadataInv'
<1>1. CASE C!Restart
  <2>1. \A t \in Threads : work'[t] = C!Idle
    BY <1>1 DEF C!Restart
  <2>2. /\ work' \in [Threads -> MetadataWork]
        /\ \A t \in Threads : work'[t].pc = "idle"
    BY <1>1, <2>1, IdleIsWork DEF C!Restart
  <2>3. C!None \in C!Board
    BY DEF C!None, C!Board
  <2>4. C!TypeOK'
    BY <1>1, <2>2, <2>3 DEF MetadataInv, C!TypeOK, MetadataWork, C!Restart
  <2>5. FilledFromEntries'
    BY <2>2 DEF FilledFromEntries, C!At
  <2> QED
    BY <2>4, <2>5 DEF MetadataInv
<1>2. ASSUME work' = work, C!TypeOK'
      PROVE  MetadataInv'
  BY <1>2 DEF MetadataInv, FilledFromEntries, C!At
<1>3. CASE C!PricesExpire
  BY <1>2, <1>3 DEF MetadataInv, C!TypeOK, C!PricesExpire, C!boards
<1>4. CASE C!MemoryExpires
  BY <1>2, <1>4 DEF MetadataInv, C!TypeOK, C!MemoryExpires, C!pricing, C!Board
<1>5. CASE C!CopyExpires
  BY <1>2, <1>5 DEF MetadataInv, C!TypeOK, C!CopyExpires, C!pricing, C!Board, C!None, C!IsEmpty
<1>6. CASE C!Pages
  BY <1>2, <1>6 DEF MetadataInv, C!TypeOK, C!Pages
<1> QED
  BY <1>1, <1>3, <1>4, <1>5, <1>6

LEMMA MetadataNext == MetadataInv /\ [C!Next]_(C!vars) => MetadataInv'
<1> SUFFICES ASSUME MetadataInv, [C!Next]_(C!vars) PROVE MetadataInv'
  OBVIOUS
<1>1. CASE C!Next
  BY <1>1, PricingKeepsInv, BoardsKeepInv, SurroundingsKeepInv DEF C!Next, C!Step
<1>2. CASE UNCHANGED C!vars
  BY <1>2 DEF C!vars, C!pricing, C!boards, MetadataInv, C!TypeOK, FilledFromEntries, C!At
<1> QED
  BY <1>1, <1>2

-----------------------------------------------------------------------------
(* What the steps of MetadataCaches may not do.                            *)

(* Prices shrink at the end of a refresh that brought some, or at a restart. *)
LEMMA PricesShrinkWithReason ==
  ASSUME C!Next, prices \ prices' # {}
  PROVE  \/ stamp' = "never"
         \/ \E t \in Threads : work[t].pc \in {"replace", "replace2"} /\ work[t].got # {}
<1>1. C!Restart \/ \E t \in Threads : C!Replace(t)
  BY DEF C!Next, C!Step, C!Begin, C!RefreshIfNeeded, C!FetchPages, C!ReadPrice, C!LookInMemory,
         C!Scrape, C!Keep, C!Save, C!Load, C!BatchFill, C!Return, C!PricesExpire,
         C!MemoryExpires, C!CopyExpires, C!Pages, C!pricing
<1>2. CASE C!Restart
  BY <1>2 DEF C!Restart
<1>3. ASSUME NEW t \in Threads, C!Replace(t)
      PROVE  work[t].pc \in {"replace", "replace2"} /\ work[t].got # {}
  BY <1>3 DEF C!Replace, C!Replaced, C!At
<1> QED
  BY <1>1, <1>2, <1>3

(* The copy in SQLite, once it has entries, keeps some. *)
CopyKeepsEntries == copy.cats # {} => copy'.cats # {}

LEMMA CopiesStay ==
  ASSUME MetadataInv, C!Next
  PROVE  CopyKeepsEntries
<1>1. CASE UNCHANGED copy
  BY <1>1 DEF CopyKeepsEntries
<1>2. CASE C!CopyExpires
  BY <1>2, SharedIsTyped DEF C!CopyExpires, C!Board, CopyKeepsEntries
<1>3. ASSUME NEW t \in Threads, C!Save(t)
      PROVE  CopyKeepsEntries
  BY <1>3 DEF C!Save, C!At, MetadataInv, C!TypeOK, CopyKeepsEntries
<1> QED
  BY <1>1, <1>2, <1>3
     DEF C!Next, C!Step, C!Begin, C!RefreshIfNeeded, C!FetchPages, C!Replace, C!ReadPrice,
         C!LookInMemory, C!Scrape, C!Keep, C!Load, C!BatchFill, C!Return, C!PricesExpire,
         C!MemoryExpires, C!Pages, C!Restart, C!pricing, C!boards

-----------------------------------------------------------------------------
(* The theorems.                                                           *)

PartsInv == RegistryInv /\ MetadataInv

(* A step is one of a single part, and no step of the other.               *)
LEMMA StepOfParts == [Next]_vars => [R!Next]_(R!vars) /\ [C!Next]_(C!vars)
<1> SUFFICES ASSUME [Next]_vars PROVE [R!Next]_(R!vars) /\ [C!Next]_(C!vars)
  OBVIOUS
<1>1. (R!Next \/ UNCHANGED rvars) /\ (C!Next \/ UNCHANGED cvars)
  BY DEF Next, vars, Synchronising, Enriching
<1> QED
  BY <1>1 DEF rvars, cvars, R!vars, C!vars, C!pricing, C!boards

(* The inductive invariants of the parts: however calls interleave, fail   *)
(* and are stamped, however threads share the caches and whatever pages    *)
(* answer, expire and are lost at a restart.                               *)
THEOREM PartsStaySound == Spec => []PartsInv
<1>1. Init => PartsInv
  BY RegistryInit, MetadataInit DEF Init, PartsInv
<1>2. PartsInv /\ [Next]_vars => PartsInv'
  BY StepOfParts, RegistryNext, MetadataNext DEF PartsInv
<1> QED
  BY <1>1, <1>2, PTL DEF Spec

(* All state has its type: no more snapshots are kept than                 *)
(* _prune_old_snapshots is asked to keep, a resolver that never refreshed  *)
(* has no price, and the copy in SQLite is not an empty leaderboard.       *)
THEOREM TypeCorrect == Spec => []TypeOK
<1>1. PartsInv => TypeOK
  BY DEF PartsInv, RegistryInv, MetadataInv, TypeOK
<1> QED
  BY <1>1, PartsStaySound, PTL

(* provider_sync_state has an error exactly where the last attempt was no  *)
(* success, also when save_snapshot commits in the other order than it     *)
(* stamped.                                                                *)
THEOREM SyncStateIsRight == Spec => []SyncStateTellsTheLast
<1>1. PartsInv => SyncStateTellsTheLast
  BY DEF PartsInv, RegistryInv, SyncStateTellsTheLast
<1> QED
  BY <1>1, PartsStaySound, PTL

(* No call serves a relay model that RELAY_ALLOWED_MODELS barred all       *)
(* through it.                                                             *)
THEOREM BarredModelsStayOut == Spec => []BarredNeverServed
<1>1. PartsInv => BarredNeverServed
  BY DEF PartsInv, RegistryInv, BarredNeverServed
<1> QED
  BY <1>1, PartsStaySound, PTL

(* The snapshot a failed refresh falls back to is there as long as fewer   *)
(* than KeepHistory younger ones were committed.                           *)
THEOREM LastGoodListSurvives == Spec => []LastGoodSurvives
<1>1. PartsInv => LastGoodSurvives
  <2> SUFFICES ASSUME RegistryInv, newestGood # R!Never,
                      Cardinality({a \in committed : a > newestGood}) < KeepHistory
               PROVE  \E s \in R!Good : s.at = newestGood
    BY CountsAgree DEF PartsInv, LastGoodSurvives, R!LastGoodSurvives
  <2>1. newestGood \in committed /\ Cardinality(Younger(newestGood)) < KeepHistory
    BY DEF RegistryInv, StampsAreUnique, Younger
  <2> QED
    BY <2>1 DEF RegistryInv, YoungestAreKept, R!Good
<1> QED
  BY <1>1, PartsStaySound, PTL

(* No refresh of DynamicPricingResolver that brought nothing costs a       *)
(* price, however refreshes of several threads overlap outside the lock:   *)
(* prices go where a refresh brought others, or at a restart.              *)
THEOREM OutagesCostNoPrice == Spec => OutageKeepsPrices
<1>1. [Next]_vars =>
        [prices \ prices' # {} =>
           \/ stamp' = "never"
           \/ \E t \in Threads : work[t].pc \in {"replace", "replace2"} /\ work[t].got # {}]_(C!vars)
  BY StepOfParts, PricesShrinkWithReason
<1> QED
  BY <1>1, PTL DEF Spec, OutageKeepsPrices, C!OutageKeepsPrices

(* The copy of the leaderboard that survives restarts, once there, is      *)
(* never emptied, neither by ArenaCacheStorage.save of an outage that the  *)
(* scraper cached nor by a restart: it only grows too old.                 *)
THEOREM OutagesKeepTheCopy == Spec => [][CopyKeepsEntries]_vars
<1>1. PartsInv /\ [Next]_vars => [CopyKeepsEntries]_vars
  BY StepOfParts, CopiesStay DEF PartsInv, CopyKeepsEntries, C!vars, C!boards, vars, cvars
<1> QED
  BY <1>1, PartsStaySound, PTL DEF Spec

(* A report that _enrich_with_arena fills is filled from a leaderboard     *)
(* with entries, at whichever level it was found: the fields of some       *)
(* category are there.                                                     *)
THEOREM ReportsAreFilledFromEntries == Spec => []FilledFromEntries
<1>1. PartsInv => FilledFromEntries
  BY DEF PartsInv, MetadataInv
<1> QED
  BY <1>1, PartsStaySound, PTL
=============================================================================
