---------------------------- MODULE RegistrySync ----------------------------
(***************************************************************************)
(* The model registry and its snapshots (model_registry/service.py,        *)
(* registry.py, storage/sqlite.py and storage/postgres.py, which keep the  *)
(* same semantics, providers/factory.py and providers/vendors.py).         *)
(*                                                                         *)
(* Whoever needs the list of models calls                                  *)
(* get_model_registry_report_with_local_pool.  It serves the last good     *)
(* snapshot while no synchronisation is due; otherwise it asks every       *)
(* configured provider, stores what came back, and falls back to the       *)
(* snapshot it had loaded when nothing came back.  Several calls run at    *)
(* once, in threads of the API and in processes of the command line; each  *)
(* access to the store is one transaction.                                 *)
(*                                                                         *)
(* A snapshot is stamped before its transaction begins, so snapshots may   *)
(* be committed in another order than that of their stamps.  What is known *)
(* of a model besides its name is data here; prices and capabilities are   *)
(* in MetadataCaches.                                                      *)
(***************************************************************************)
EXTENDS Naturals, Sequences, FiniteSets

CONSTANTS
  Callers,
  Models,
  Providers,    \* expected_providers
  Configured,   \* those with an API key
  Relays,       \* configured providers that are relays
  Rows,         \* Rows[p]: what p lists when it answers, newest first
  Limit,        \* models taken of a provider that is not a relay
  Allowlists,   \* values of RELAY_ALLOWED_MODELS; {} is "no filter"
  KeepHistory,  \* snapshots kept
  MaxAttempts   \* bound: snapshots stamped

VARIABLES
  snaps,    \* model_registry_snapshots with the models of each
  sync,     \* provider_sync_state, one row per expected provider
  clock,    \* the last stamp given
  elapsed,  \* the sync interval has passed since the newest stamp in snaps
  allow,    \* RELAY_ALLOWED_MODELS in the environment
  call,     \* what each caller is doing
  barred,   \* history: relay models outside the allow-list all through the call
  newestGood,  \* history: the newest stamp of a successful snapshot committed
  committed    \* history: stamps of all snapshots committed

vars == <<snaps, sync, clock, elapsed, allow, call, barred, newestGood, committed>>

-----------------------------------------------------------------------------
Stamps == 1 .. MaxAttempts
Never == 0

RelayModels == UNION {{Rows[p][i] : i \in DOMAIN Rows[p]} : p \in Relays}

(* _keep of _apply_relay_allowlist_from_env, and the filter of the relay    *)
(* adapter: relay models pass when the list is empty or names them.         *)
Permitted(models, list) == {m \in models : m \notin RelayModels \/ list = {} \/ m \in list}

(* fetch_latest_models of the vendors: the first rows of the answer, sorted *)
(* by date.                                                                 *)
VendorModels(p) == {Rows[p][i] : i \in {j \in DOMAIN Rows[p] : j <= Limit}}

(* fetch_latest_models of a relay ignores the limit, and filters by the     *)
(* allow-list the adapter was created with.                                 *)
RelayAnswer(p, list) ==
  {Rows[p][i] : i \in {j \in DOMAIN Rows[p] : list = {} \/ Rows[p][j] \in list}}

(* refresh_provider, of a provider that answers. *)
RefreshProvider(p, list) == IF p \in Relays THEN RelayAnswer(p, list) ELSE VendorModels(p)

Snapshot == [at : Stamps, models : SUBSET Models]
Good == {s \in snaps : s.models # {}}  \* status "success"
Newest(S) == CHOOSE s \in S : \A r \in S : r.at <= s.at

Row == [attempt : Stamps \cup {Never}, success : Stamps \cup {Never}, error : BOOLEAN]

Idle == [pc |-> "idle"]
Served == [pc : {"served"}, models : SUBSET Models]
Working == [pc : {"loaded", "listing", "save"}, forced : BOOLEAN,
            stored : BOOLEAN,           \* a storage backend was selected
            cached : SUBSET Models,     \* {} : no good snapshot was found
            list : SUBSET Models,       \* the allow-list of the adapters
            models : SUBSET Models, errors : SUBSET Configured,
            at : Stamps \cup {Never}]

TypeOK ==
  /\ snaps \subseteq Snapshot
  /\ Cardinality(snaps) <= KeepHistory
  /\ sync \in [Providers -> Row]
  /\ clock \in Stamps \cup {Never}
  /\ elapsed \in BOOLEAN
  /\ allow \in Allowlists
  /\ call \in [Callers -> {Idle} \cup Served \cup Working]
  /\ barred \in [Callers -> SUBSET Models]
  /\ newestGood \in Stamps \cup {Never}
  /\ committed \subseteq Stamps

Init ==
  /\ snaps = {} /\ sync = [p \in Providers |-> [attempt |-> Never, success |-> Never, error |-> FALSE]]
  /\ clock = Never /\ elapsed = FALSE
  /\ allow \in Allowlists
  /\ call = [c \in Callers |-> Idle]
  /\ barred = [c \in Callers |-> {}]
  /\ newestGood = Never /\ committed = {}

-----------------------------------------------------------------------------
(* Calls.                                                                  *)

At(c, pc) == call[c].pc = pc
Goto(c, record) == call' = [call EXCEPT ![c] = record]
Serve(c, models) == Goto(c, [pc |-> "served", models |-> models])
Environment == <<elapsed, allow>>
History == <<barred, newestGood, committed>>

(* is_sync_due: by the newest attempt, whatever its status. *)
SyncDue == snaps = {} \/ elapsed

(* create_provider_adapters_from_env gives the relays the list of now.       *)
CreateAdapters(k) == [k EXCEPT !.pc = "listing", !.list = allow]

(* A call chooses its backend.  ensure_schema and                           *)
(* load_latest_success_snapshot; without a backend neither.                 *)
Call(c, forced, stored) ==
  LET k == [pc |-> "loaded", forced |-> forced, stored |-> stored,
            cached |-> IF stored /\ Good # {} THEN Newest(Good).models ELSE {},
            list |-> {}, models |-> {}, errors |-> {}, at |-> Never]
  IN
  /\ call[c].pc \in {"idle", "served"}
  /\ Goto(c, IF stored THEN k ELSE CreateAdapters(k))
  /\ barred' = [barred EXCEPT ![c] = RelayModels \ Permitted(RelayModels, allow)]
  /\ UNCHANGED <<snaps, sync, clock, elapsed, allow, newestGood, committed>>

(* The second transaction, and the choice between snapshot and providers.    *)
CheckDue(c) ==
  /\ At(c, "loaded")
  /\ IF call[c].forced \/ SyncDue \/ call[c].cached = {}
     THEN Goto(c, CreateAdapters(call[c]))
     ELSE Serve(c, Permitted(call[c].cached, allow))
  /\ UNCHANGED <<snaps, sync, clock, Environment, History>>

(* build_report asks one provider after the other; the ones that fail do    *)
(* not stop the rest, and nothing shared is touched in between.  Then       *)
(* now = utc_now() at the head of save_snapshot.                            *)
BuildReport(c, failed) ==
  LET models == UNION {RefreshProvider(p, call[c].list) : p \in Configured \ failed} IN
  /\ At(c, "listing")
  /\ \/ /\ ~call[c].stored
        /\ Serve(c, models)
        /\ UNCHANGED clock
     \/ /\ call[c].stored /\ clock < MaxAttempts
        /\ clock' = clock + 1
        /\ Goto(c, [call[c] EXCEPT !.pc = "save", !.at = clock + 1,
                                  !.models = models, !.errors = failed])
  /\ UNCHANGED <<snaps, sync, Environment, History>>

(* Mutant: one snapshot too many is kept. *)
PrunedLate(S) == {s \in S : Cardinality({r \in S : r.at > s.at}) <= KeepHistory}

(* Mutant: one too few. *)
PrunedTooFar(S) == {s \in S : Cardinality({r \in S : r.at > s.at}) < KeepHistory - 1}

(* _prune_old_snapshots keeps the newest by stamp, of any status.           *)
Pruned(S) == {s \in S : Cardinality({r \in S : r.at > s.at}) < KeepHistory}

(* Mutant: last_error is only written when there is one. *)
SyncedKeepingErrors(row, at, ok) ==
  [row EXCEPT !.attempt = at, !.success = IF ok THEN at ELSE @, !.error = @ \/ ~ok]

(* One row of _upsert_provider_sync_state. *)
Synced(row, at, ok) ==
  [row EXCEPT !.attempt = at, !.success = IF ok THEN at ELSE @, !.error = ~ok]

(* Mutant: the fallback is the unfiltered copy of the snapshot. *)
FallbackUnfiltered(k) == IF k.models # {} THEN k.models ELSE k.cached

(* What save_snapshot's caller serves: the live report, or the snapshot     *)
(* loaded at the beginning, or the empty report.                            *)
LiveOrFallback(k) == IF k.models # {} THEN k.models ELSE Permitted(k.cached, allow)

(* save_snapshot, one transaction: header, models, provider rows, pruning.  *)
SaveSnapshot(c) ==
  LET k == call[c] IN
  /\ At(c, "save")
  /\ snaps' = Pruned(snaps \cup {[at |-> k.at, models |-> k.models]})
  /\ sync' = [p \in Providers |-> Synced(sync[p], k.at, p \in Configured \ k.errors)]
  /\ Serve(c, LiveOrFallback(k))
  /\ elapsed' = FALSE
  /\ newestGood' = IF k.models # {} /\ k.at > newestGood THEN k.at ELSE newestGood
  /\ committed' = committed \cup {k.at}
  /\ UNCHANGED <<clock, allow, barred>>

(* The store raises, or the process ends; a transaction leaves nothing.     *)
Fail(c) ==
  /\ call[c].pc \notin {"idle", "served"}
  /\ Goto(c, Idle)
  /\ UNCHANGED <<snaps, sync, clock, Environment, History>>

-----------------------------------------------------------------------------
(* The environment.                                                        *)

(* sync_interval_days pass; a save takes seconds, and none is in work.      *)
IntervalPasses ==
  /\ snaps # {} /\ ~elapsed
  /\ \A c \in Callers : ~At(c, "save")
  /\ elapsed' = TRUE
  /\ UNCHANGED <<snaps, sync, clock, allow, call, barred, newestGood, committed>>

SetAllowlist(list) ==
  /\ list # allow
  /\ allow' = list
  /\ barred' = [c \in Callers |-> barred[c] \ Permitted(RelayModels, list)]
  /\ UNCHANGED <<snaps, sync, clock, elapsed, call, newestGood, committed>>

-----------------------------------------------------------------------------
Next ==
  \/ \E c \in Callers :
       \/ \E forced, stored \in BOOLEAN : Call(c, forced, stored)
       \/ CheckDue(c)
       \/ \E failed \in SUBSET Configured : BuildReport(c, failed)
       \/ SaveSnapshot(c) \/ Fail(c)
  \/ IntervalPasses
  \/ \E list \in Allowlists : SetAllowlist(list)

Spec == Init /\ [][Next]_vars

-----------------------------------------------------------------------------
(* The row of a provider tells how its last attempt went: there is an error *)
(* exactly when that attempt is not the last success, also when two         *)
(* synchronisations commit in the other order than they were stamped.       *)
SyncStateTellsTheLast ==
  \A p \in Providers :
    sync[p].attempt # Never => (sync[p].error <=> sync[p].success # sync[p].attempt)

(* A relay model that was outside the allow-list from before the call to    *)
(* its end is not served by it, neither from a provider nor from a snapshot *)
(* saved under another list.                                                *)
BarredNeverServed ==
  \A c \in Callers : At(c, "served") => call[c].models \cap barred[c] = {}

(* The last good list outlives fewer than KeepHistory younger attempts: so  *)
(* long a refresh that brings nothing can fall back to it.                  *)
LastGoodSurvives ==
  newestGood # Never /\ Cardinality({a \in committed : a > newestGood}) < KeepHistory =>
    \E s \in Good : s.at = newestGood

=============================================================================
