---------------------------- MODULE ModelReports ----------------------------
(***************************************************************************)
(* What a report of the model registry rests on, side by side: the         *)
(* synchronisation of the list of models and its snapshots (RegistrySync)  *)
(* and the caches of the prices and capabilities the models are given      *)
(* (MetadataCaches).                                                       *)
(*                                                                         *)
(* A behaviour is one of a single part, the one focus says, while the      *)
(* other stands still: they share no state.  Prices are looked up while    *)
(* the answer of a provider is parsed and capabilities are filled when the *)
(* report is served; neither decides which models it lists.                *)
(***************************************************************************)
EXTENDS Naturals, Sequences, FiniteSets

CONSTANTS
  Parts,                                                        \* that a behaviour may be of
  Callers, Models, Providers, Configured, Relays, Rows, Limit,  \* RegistrySync
  Allowlists, KeepHistory, MaxAttempts,
  Threads, Sellers, Categories, Fields, FieldsOf                \* MetadataCaches

ASSUME ProvidersNest == Relays \subseteq Configured /\ Configured \subseteq Providers
ASSUME RowsAreModels == Rows \in [Providers -> Seq(Models)]
(* A model_id begins with the name of its provider. *)
ASSUME ModelsAreOfOneProvider ==
  \A p \in Relays, q \in Configured \ Relays :
    \A i \in DOMAIN Rows[p], j \in DOMAIN Rows[q] : Rows[p][i] # Rows[q][j]
ASSUME ListsAreModels == Allowlists \subseteq SUBSET Models /\ Allowlists # {}
ASSUME BoundsAreNumbers == Limit \in Nat /\ KeepHistory \in Nat \ {0} /\ MaxAttempts \in Nat
ASSUME CategoriesHaveFields == FieldsOf \in [Categories -> SUBSET Fields]

ASSUME PartsAreTwo == Parts \subseteq {"registry", "metadata"}

VARIABLES
  focus, snaps, sync, clock, elapsed, allow, call, barred, newestGood, committed,
  prices, stamp, page, memory, copy, site, work

R == INSTANCE RegistrySync
C == INSTANCE MetadataCaches

rvars == <<snaps, sync, clock, elapsed, allow, call, barred, newestGood, committed>>
cvars == <<prices, stamp, page, memory, copy, site, work>>
vars == <<focus, rvars, cvars>>

SomeList == CHOOSE list \in Allowlists : TRUE

Init ==
  /\ focus \in Parts
  /\ R!Init /\ (focus # "registry" => allow = SomeList)
  /\ C!Init /\ (focus # "metadata" => page = {} /\ site = {})

Synchronising == R!Next /\ UNCHANGED <<focus, cvars>>
Enriching == C!Next /\ UNCHANGED <<focus, rvars>>

Next ==
  \/ focus = "registry" /\ Synchronising
  \/ focus = "metadata" /\ Enriching

Spec == Init /\ [][Next]_vars

(* The fairness of MetadataCaches: threads that build a report go on, and   *)
(* time passes.                                                             *)
GoesOn(t) == focus = "metadata" /\ C!Step(t) /\ UNCHANGED <<focus, rvars>>
PricesExpire == focus = "metadata" /\ C!PricesExpire /\ UNCHANGED <<focus, rvars>>
MemoryExpires == focus = "metadata" /\ C!MemoryExpires /\ UNCHANGED <<focus, rvars>>
CopyExpires == focus = "metadata" /\ C!CopyExpires /\ UNCHANGED <<focus, rvars>>

FairSpec ==
  /\ Spec
  /\ \A t \in Threads : WF_vars(GoesOn(t))
  /\ WF_vars(PricesExpire) /\ WF_vars(MemoryExpires) /\ WF_vars(CopyExpires)

(* The types of both parts. *)
TypeOK == R!TypeOK /\ C!TypeOK

(* See RegistrySync: an error exactly where the last attempt failed.        *)
SyncStateTellsTheLast == R!SyncStateTellsTheLast

(* See RegistrySync: no call serves a relay model barred all through it.    *)
BarredNeverServed == R!BarredNeverServed

(* See RegistrySync: the last good list outlives failed refreshes.          *)
LastGoodSurvives == R!LastGoodSurvives

(* See MetadataCaches: an outage of all pricing pages costs no price.       *)
OutageKeepsPrices == C!OutageKeepsPrices

(* See MetadataCaches: an answering page ends up in the prices.             *)
PriceComesBack == C!PriceComesBack

(* See MetadataCaches: an answering category ends up in the reports.        *)
BoardComesBack == C!BoardComesBack
=============================================================================
